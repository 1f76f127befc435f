----------------------------- MODULE Persistence ----------------------------
(***************************************************************************)
(* The module's bitmaps across a restart: RDB snapshots, the append-only   *)
(* file and its rewriting.  A forked child walks the keyspace of the fork  *)
(* key by key and calls rdb_save or aof_rewrite, while the parent goes on  *)
(* executing commands.  What surrounds the two callbacks is Redis's, as    *)
(* the module API documents it, with an append-only file that is synced    *)
(* before each reply.                                                      *)
(***************************************************************************)
EXTENDS Propagation

CONSTANTS
  Settings,      \* the server's settings in use: [appendOnly, preamble, savePoints]
  MaxTail        \* bound on the commands in the append-only file

ASSUME PersistenceAssumption ==
  /\ Settings \subseteq [appendOnly : BOOLEAN, preamble : BOOLEAN, savePoints : BOOLEAN]
  /\ MaxTail \in Nat

VARIABLES
  setting,   \* appendonly; aof-use-rdb-preamble: a rewrite calls rdb_save instead; save
  up,        \* the server runs
  db,        \* its keyspace
  rdb,       \* the last complete snapshot file
  aof,       \* the append-only file: a rewritten base, then commands
  child,     \* what the forked child does: "none", "save", "rewrite", or "sync"
             \* for a replica (Replication)
  forked,    \* the keyspace at the fork
  todo,      \* keys that the child has not written yet
  file,      \* the file it writes
  since,     \* commands since the fork
  promised   \* what clients may count on after a restart

AppendOnly == setting.appendOnly

disk    == <<rdb, aof>>
forkage == <<child, forked, todo, file, since>>
vars    == <<setting, up, db, disk, forkage, promised>>

EmptyLog == [base |-> NoFile, tail |-> <<>>]

Init ==
  /\ setting \in Settings
  /\ up = TRUE
  /\ db = NoKeys
  /\ rdb = NoFile
  /\ aof = EmptyLog
  /\ child = "none"
  /\ forked = NoKeys
  /\ todo = {}
  /\ file = NoFile
  /\ since = <<>>
  /\ promised = NoKeys

Execute(c) ==
  /\ up
  /\ IsPropagated(db, c)
  /\ Len(aof.tail) < MaxTail
  /\ db' = Apply(db, c)
  /\ aof' = IF AppendOnly THEN [aof EXCEPT !.tail = Append(@, c)] ELSE aof
  /\ since' = IF child = "rewrite" THEN Append(since, c) ELSE since
  /\ promised' = IF AppendOnly THEN db' ELSE promised
  /\ UNCHANGED <<setting, up, rdb, child, forked, todo, file>>

Fork(job) ==
  /\ up
  /\ child = "none"
  /\ job = "rewrite" => AppendOnly
  /\ job = "save" => setting.savePoints
  /\ child' = job
  /\ forked' = db
  /\ todo' = Key
  /\ file' = NoFile
  /\ since' = <<>>
  /\ UNCHANGED <<setting, up, db, disk, promised>>

\* RoaringRdbSave on the bitmap of one key.
RdbSave(b) == Serialize(b)

\* RoaringAofRewrite emits no command: the body is a TODO.
AofRewrite(b) == NoValue

ChildWrites(k) ==
  /\ k \in todo
  /\ file' = [file EXCEPT ![k] =
       IF IsEmpty(forked[k]) THEN NoValue
       ELSE IF child = "rewrite" /\ ~setting.preamble THEN AofRewrite(forked[k])
       ELSE RdbSave(forked[k])]
  /\ todo' = todo \ {k}
  /\ UNCHANGED <<setting, up, db, disk, child, forked, since, promised>>

ChildEnds ==
  /\ child' = "none"
  /\ forked' = NoKeys
  /\ todo' = {}
  /\ file' = NoFile
  /\ since' = <<>>

SaveDone ==
  /\ child = "save"
  /\ todo = {}
  /\ rdb' = file
  /\ promised' = IF AppendOnly THEN promised ELSE forked
  /\ ChildEnds
  /\ UNCHANGED <<setting, up, db, aof>>

\* The commands since the fork follow the rewritten part.
RewriteDone ==
  /\ child = "rewrite"
  /\ todo = {}
  /\ aof' = [base |-> file, tail |-> since]
  /\ ChildEnds
  /\ UNCHANGED <<setting, up, db, rdb, promised>>

\* Memory is lost, and the file that the child was writing with it.
Crash ==
  /\ up
  /\ up' = FALSE
  /\ db' = NoKeys
  /\ ChildEnds
  /\ UNCHANGED <<setting, disk, promised>>

Restart ==
  /\ ~up
  /\ up' = TRUE
  /\ db' = IF AppendOnly THEN Replay(LoadFile(aof.base), aof.tail) ELSE LoadFile(rdb)
  /\ UNCHANGED <<setting, disk, forkage, promised>>

Next ==
  \/ \E c \in Command : Execute(c)
  \/ \E job \in {"save", "rewrite"} : Fork(job)
  \/ \E k \in Key : ChildWrites(k)
  \/ SaveDone \/ RewriteDone
  \/ Crash \/ Restart

Spec == Init /\ [][Next]_vars

-----------------------------------------------------------------------------
(***************************************************************************)
(* Properties.                                                             *)
(***************************************************************************)

\* A restart at any moment, in the middle of a snapshot or a rewrite too, brings
\* back every key: as it was at the last write with an append-only file, and as
\* it was at the fork of the last complete snapshot without one.
RestartRestores == [][Restart => db' = promised]_vars

=============================================================================
