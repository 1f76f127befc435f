----------------------------- MODULE Propagation ----------------------------
(***************************************************************************)
(* The commands as the rest of the server sees them: one step on the       *)
(* keyspace, logged and sent to replicas word for word when the handler    *)
(* ends in RedisModule_ReplicateVerbatim.  RoaringCommands has the loops   *)
(* inside.  A key that holds an empty bitmap does not exist.               *)
(***************************************************************************)
EXTENDS Serialization

CONSTANTS
  Key,        \* key names
  MaxValues   \* bound on the values of a command

ASSUME PropagationAssumption == MaxValues \in Nat

Command ==
  [op : {"add", "remove"}, key : Key, vals : UNION {[1 .. n -> Value] : n \in 1 .. MaxValues}]

RemoveMany(b, s) ==
  LET rest[i \in 0 .. Len(s)] == IF i = 0 THEN b ELSE BitmapRemove(rest[i - 1], s[i])
  IN  rest[Len(s)]

NoKeys == [k \in Key |-> EmptyBitmap]

Apply(db, c) ==
  [db EXCEPT ![c.key] = IF c.op = "add" THEN AddMany(@, Len(c.vals), c.vals)
                        ELSE RemoveMany(@, c.vals)]

\* REMOVE of a key that does not exist returns before it would be replicated.
IsPropagated(db, c) == c.op = "add" \/ ~IsEmpty(db[c.key])

Replay(db, log) ==
  LET state[i \in 0 .. Len(log)] == IF i = 0 THEN db ELSE Apply(state[i - 1], log[i])
  IN  state[Len(log)]

\* A file with no value for a key.
NoValue == [format |-> "none"]

\* A snapshot file: what rdb_save has written for each key that exists.
NoFile == [k \in Key |-> NoValue]

LoadFile(file) ==
  [k \in Key |-> IF file[k] = NoValue THEN EmptyBitmap ELSE Deserialize(file[k])]

=============================================================================
