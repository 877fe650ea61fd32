------------------------------ MODULE Snapshot ------------------------------
(***************************************************************************)
(* Backup and restore (brain/memory/snapshot.py).  snapshot() reads every  *)
(* store and writes one file per store, the manifest last; restore() reads *)
(* a directory back, in one Postgres transaction and then item by item     *)
(* into the working set, which is in Redis.  A directory of the first      *)
(* format has the files of the memory tables only.                         *)
(*                                                                         *)
(* A row is its id and the moment it was made, so that an id used twice    *)
(* shows.  The Mind rests while a backup or a restore is under way: a      *)
(* backup is a stage of its sleep, a restore is run with it stopped.       *)
(*                                                                         *)
(* Of Postgres: setval is not undone by a rollback, unless the sequence    *)
(* was restarted by a TRUNCATE of the same transaction.                    *)
(***************************************************************************)
EXTENDS Integers, Sequences, FiniteSets, Functions, FiniteSetsExt

CONSTANTS
    MemoryTables,  \* _MEMORY_TABLES
    StateTables,   \* _V2_TRUNCATE_TABLES
    Mood,          \* the table "mood"
    Keyed,         \* those of StateTables without a serial id: drive_state
    MaxRow,        \* bound: moments
    MaxBackups     \* bound: directories

ASSUME SnapshotAssumption ==
    /\ Mood \notin MemoryTables \cup StateTables
    /\ MemoryTables \cap StateTables = {} /\ Keyed \subseteq StateTables
    /\ "working_memory" \notin MemoryTables \cup StateTables \cup {Mood}
    /\ MaxRow \in Nat \ {0} /\ MaxBackups \in Nat

Tables == MemoryTables \cup StateTables \cup {Mood}

\* _SERIAL_TABLES
Serial == Tables \ Keyed

VARIABLES
    rows,      \* Postgres: for each table, its ids and when each was made
    next,      \* for each serial table, what its sequence gives next
    thoughts,  \* the thought table: the mood_id (0: null), and when that was made
    working,   \* Redis: the working set
    dirs,      \* the directories: what their files hold, and the manifest's version
    task,      \* where the call under way is, or "idle"
    read,      \* what it has read
    todo,      \* snapshot: the files left; restore: the items left
    moment,    \* history: the last moment something was made
    before,    \* history: the rows when the restore began
    saw,       \* history: for each directory, the stores it was made from
    eased,     \* history: the directories whose backup eased Continuity
    shaken     \* history: did the last restore of mood fail after its setval?

mind == <<rows, next, thoughts, moment>>
snapshotVars == <<mind, working, dirs, task, read, todo, before, saw, eased, shaken>>

\* What a table may hold: for some ids, when each was made.
Table == UNION {[ids -> 0..MaxRow] : ids \in SUBSET (1..MaxRow)}
Contents == [Tables -> Table]
Files == Tables \cup {"working_memory"}
Nothing == [f \in {} |-> 0]

Only(x, y) == [z \in {x} |-> y]

\* f, and g where f says nothing.
Over(f, g) == [x \in DOMAIN f \cup DOMAIN g |-> IF x \in DOMAIN f THEN f[x] ELSE g[x]]

SnapshotTypeOK ==
    /\ rows \in Contents /\ next \in [Serial -> 1..(MaxRow + 1)]
    /\ thoughts \in SUBSET [mood : 0..MaxRow, made : 0..MaxRow]
    /\ working \subseteq 0..MaxRow /\ moment \in 0..MaxRow
    /\ Len(dirs) <= MaxBackups + 1 /\ Len(saw) = Len(dirs)
    /\ task \in {"idle", "files", "manifest", "backed up", "rows", "sequences",
                 "clear", "items", "restored"}

----------------------------------------------------------------------------
(* The Mind, between backups.                                              *)

Idle == task = "idle"
Later == moment < MaxRow /\ moment' = moment + 1

\* An INSERT takes the sequence's next id, whether or not that id is free.
Insert(t) ==
    /\ Idle /\ Later
    /\ next[t] <= MaxRow /\ next' = [next EXCEPT ![t] = @ + 1]
    /\ IF next[t] \in DOMAIN rows[t]
       THEN UNCHANGED rows
       ELSE rows' = [rows EXCEPT ![t] = Over(@, Only(next[t], moment'))]
    /\ UNCHANGED <<thoughts, working, dirs, task, read, todo, before, saw, eased, shaken>>

\* A level of drive_state is overwritten.
Overwrite(t) ==
    /\ Idle /\ Later
    /\ rows' = [rows EXCEPT ![t] = Over(Only(1, moment'), @)]
    /\ UNCHANGED <<next, thoughts, working, dirs, task, read, todo, before, saw, eased, shaken>>

\* A merge drops a fact.
Delete(t) ==
    /\ Idle
    /\ \E i \in DOMAIN rows[t] : rows' = [rows EXCEPT ![t] = Restrict(@, DOMAIN @ \ {i})]
    /\ UNCHANGED <<next, thoughts, working, dirs, task, read, todo, moment, before, saw, eased, shaken>>

\* A thought is stamped with the mood it is had in.
Think ==
    /\ Idle
    /\ \E i \in DOMAIN rows[Mood] : thoughts' = thoughts \cup {[mood |-> i, made |-> rows[Mood][i]]}
    /\ UNCHANGED <<rows, next, working, dirs, task, read, todo, moment, before, saw, eased, shaken>>

Attend ==
    /\ Idle /\ Later
    /\ working' = {moment'}
    /\ UNCHANGED <<rows, next, thoughts, dirs, task, read, todo, before, saw, eased, shaken>>

Mind ==
    \/ \E t \in Serial : Insert(t)
    \/ \E t \in Keyed : Overwrite(t)
    \/ \E t \in MemoryTables : Delete(t)
    \/ Think \/ Attend

----------------------------------------------------------------------------
(* The backup.                                                             *)

\* One directory per call: its name is the time.
BeginSnapshot ==
    /\ Idle /\ Len(dirs) <= MaxBackups
    /\ dirs' = Append(dirs, [version |-> 0, files |-> Nothing])
    /\ saw' = Append(saw, Over(rows, Only("working_memory", working)))
    /\ read' = rows /\ todo' = Files /\ task' = "files"
    /\ UNCHANGED <<mind, working, before, eased, shaken>>

\* The projections of the eight tables: a line has every column of its row, the
\* id included, and a row is built of a line with nothing else.
Lines(table) == {[id |-> i, made |-> table[i]] : i \in DOMAIN table}
Built(lines) == [i \in {l.id : l \in lines} |-> (CHOOSE l \in lines : l.id = i).made]

Written(f, content) == [dirs EXCEPT ![Len(dirs)].files = Over(@, Only(f, content))]

\* The tables, in an order of their own, from what was read; the working set
\* is exported after them.
WriteFile ==
    /\ task = "files" /\ UNCHANGED <<mind, working, read, before, saw, eased, shaken>>
    /\ LET tables == todo \ {"working_memory"}
           t == CHOOSE u \in tables : TRUE
       IN  IF tables # {}
           THEN dirs' = Written(t, Lines(read[t])) /\ todo' = todo \ {t} /\ UNCHANGED task
           ELSE /\ dirs' = Written("working_memory", working) /\ todo' = {}
                /\ task' = "manifest"

WriteManifest ==
    /\ task = "manifest"
    /\ dirs' = [dirs EXCEPT ![Len(dirs)].version = 2] /\ task' = "backed up"
    /\ UNCHANGED <<mind, working, read, todo, before, saw, eased, shaken>>

\* _restore_energy: persistence_confirmed if the stage came back with a path.
Confirm ==
    /\ task = "backed up" /\ task' = "idle"
    /\ eased' = eased \cup {Len(dirs)} /\ read' = Nothing
    /\ UNCHANGED <<mind, working, dirs, todo, before, saw, shaken>>

\* A full disk, Redis away, or the end of the process: the directory stays as
\* it is.
SnapshotFails ==
    /\ task \in {"files", "manifest", "backed up"} /\ task' = "idle"
    /\ read' = Nothing /\ todo' = {}
    /\ UNCHANGED <<mind, working, dirs, before, saw, eased, shaken>>

----------------------------------------------------------------------------
(* The restore.                                                            *)

\* A file that is absent reads as no rows.
File(d, f) == IF f \in DOMAIN dirs[d].files THEN dirs[d].files[f] ELSE {}

Restored(version) == IF version = 2 THEN Tables ELSE MemoryTables

\* A directory without a manifest raises, before anything is touched.
BeginRestore ==
    /\ Idle /\ task' = "rows"
    /\ \E d \in DOMAIN dirs, replace \in BOOLEAN :
           /\ dirs[d].version # 0
           /\ read' = [dir |-> d, version |-> dirs[d].version, replace |-> replace,
                       tables |-> [t \in Tables |-> Built(File(d, t))]]
           /\ todo' = dirs[d].files["working_memory"]
    /\ before' = rows
    /\ UNCHANGED <<mind, working, dirs, saw, eased, shaken>>

\* _clear: no table that the backup does not have.
Cleared(t) == read.replace /\ t \in Restored(read.version)

\* The rows as the transaction leaves them.
Loaded ==
    [t \in Tables |->
        Over(IF t \in Restored(read.version) THEN read.tables[t] ELSE Nothing,
             IF Cleared(t) THEN Nothing ELSE rows[t])]

\* A primary key that is there already.
Clash ==
    \E t \in Restored(read.version) :
        ~Cleared(t) /\ DOMAIN read.tables[t] \cap DOMAIN rows[t] # {}

Resynced_NotCalled(ids) == IF ids = {} THEN 1 ELSE Max(ids)

\* GREATEST(MAX(id), 1), called if there is a row.
Resynced(ids) == IF ids = {} THEN 1 ELSE Max(ids) + 1

Sequences(ts) ==
    [t \in Serial |-> IF t \in ts \cap Restored(read.version) THEN Resynced(DOMAIN Loaded[t]) ELSE next[t]]

\* setval shows at once, except where the table was truncated before it.
Loose == {t \in Serial : t = Mood \/ ~read.replace}

LoadRows ==
    /\ task = "rows" /\ ~Clash
    /\ next' = Sequences(Loose) /\ task' = "sequences"
    /\ UNCHANGED <<rows, thoughts, moment, working, dirs, read, todo, before, saw, eased, shaken>>

\* The foreign key of thought.mood_id: ON DELETE SET NULL.
Unlinked == {[th EXCEPT !.mood = 0] : th \in thoughts}

Kept_Truncated == IF Cleared(Mood) THEN {} ELSE thoughts

\* mood is deleted, not truncated: the thoughts stay.
Kept == IF Cleared(Mood) THEN Unlinked ELSE thoughts

CommitRows ==
    /\ task = "sequences"
    /\ rows' = Loaded /\ next' = Sequences(Serial) /\ thoughts' = Kept
    /\ task' = IF read.replace THEN "clear" ELSE "items"
    /\ shaken' = (shaken /\ read.version # 2)
    /\ UNCHANGED <<moment, working, dirs, read, todo, before, saw, eased>>

ClearWorking_Forgotten ==
    /\ task = "clear" /\ task' = "items"
    /\ UNCHANGED <<mind, working, dirs, read, todo, before, saw, eased, shaken>>

ClearWorking ==
    /\ task = "clear" /\ task' = "items"
    /\ working' = {}
    /\ UNCHANGED <<mind, dirs, read, todo, before, saw, eased, shaken>>

ImportItem ==
    /\ task = "items" /\ todo # {}
    /\ \E i \in todo : working' = working \cup {i} /\ todo' = todo \ {i}
    /\ UNCHANGED <<mind, dirs, task, read, before, saw, eased, shaken>>

EndRestore ==
    /\ task = "items" /\ todo = {} /\ task' = "restored"
    /\ UNCHANGED <<mind, working, dirs, read, todo, before, saw, eased, shaken>>

\* An error or the end of the process.  Before the commit everything is undone
\* but the loose sequences; after it the rows stay and the items are partly in.
RestoreFails ==
    /\ task \in {"rows", "sequences", "clear", "items"} /\ task' = "idle"
    /\ shaken' = (shaken \/ (task = "sequences" /\ Cleared(Mood)))
    /\ read' = Nothing /\ todo' = {} /\ before' = Nothing
    /\ UNCHANGED <<mind, working, dirs, saw, eased>>

Resume ==
    /\ task = "restored" /\ task' = "idle"
    /\ read' = Nothing /\ before' = Nothing
    /\ UNCHANGED <<mind, working, dirs, todo, saw, eased, shaken>>

\* A database with one row in every table and a backup of the first format.
SnapshotInit ==
    /\ rows = [t \in Tables |-> Only(1, 0)] /\ next = [t \in Serial |-> 2]
    /\ thoughts = {} /\ working = {0} /\ moment = 0
    /\ dirs = <<[version |-> 1,
                files |-> Over([f \in MemoryTables |-> Lines(Only(1, 0))], Only("working_memory", {0}))]>>
    /\ saw = <<Over(rows, Only("working_memory", {0}))>>
    /\ task = "idle" /\ read = Nothing /\ todo = {} /\ before = Nothing
    /\ eased = {} /\ shaken = FALSE

SnapshotNext ==
    \/ Mind
    \/ BeginSnapshot \/ WriteFile \/ WriteManifest \/ Confirm \/ SnapshotFails
    \/ BeginRestore \/ LoadRows \/ CommitRows
    \/ ClearWorking \/ ImportItem \/ EndRestore \/ RestoreFails \/ Resume

SnapshotSpec == SnapshotInit /\ [][SnapshotNext]_snapshotVars

----------------------------------------------------------------------------
(* Properties.                                                             *)

Whole(d) ==
    \A f \in DOMAIN dirs[d].files :
        dirs[d].files[f] = IF f \in Tables THEN Lines(saw[d][f]) ELSE saw[d][f]

\* What the stores should hold after a restore: the backup's rows where it has
\* the table, over the old ones if these were to stay.
Expected(t) ==
    IF t \in Restored(read.version)
    THEN Over(saw[read.dir][t], IF read.replace THEN Nothing ELSE before[t])
    ELSE before[t]

(* A restore gives back the stores as they were when the backup was made,  *)
(* touches no table that its format does not have, and can be repeated     *)
(* after any interruption; Continuity is eased only by a backup that can   *)
(* be restored (snapshot, restore, _restore_energy).                       *)
RestoreIsExact ==
    /\ SnapshotTypeOK
    /\ task = "restored" =>
           /\ \A t \in Tables : rows[t] = Expected(t)
           /\ saw[read.dir]["working_memory"] \subseteq working
           /\ read.replace => working = saw[read.dir]["working_memory"]
    /\ \A d \in eased : dirs[d].version = 2 /\ DOMAIN dirs[d].files = Files /\ Whole(d)

(* "So new inserts don't clash": a sequence is ahead of every id of its    *)
(* table, except that of mood between its setval and the commit, or after  *)
(* a restore that failed in between (_clear, _resync_sequences).           *)
IdsNeverClash ==
    \A t \in Serial : (t # Mood \/ ~(shaken \/ task = "sequences")) => \A i \in DOMAIN rows[t] : i < next[t]

Had == {th.made : th \in thoughts}

(* A restore never takes a thought away, and a thought that names a mood   *)
(* names the one it was had in, however the ids are used again (_clear).   *)
ThoughtsOutlive ==
    [][/\ Had \subseteq Had'
       /\ \A th \in thoughts' : th.mood # 0 =>
              th.mood \in DOMAIN rows[Mood]' /\ rows[Mood]'[th.mood] = th.made]_snapshotVars

=============================================================================
