----------------------------- MODULE Replication ----------------------------
(***************************************************************************)
(* The persistent server with a replica: a full synchronisation sends what *)
(* rdb_save writes in a forked child, and from the fork on each write      *)
(* command is sent as the client gave it (RedisModule_ReplicateVerbatim).  *)
(* A crash of the server ends the synchronisation; the replica keeps what  *)
(* it has until the next one.  The transfer is Redis's, as the module API  *)
(* documents it.                                                           *)
(***************************************************************************)
EXTENDS Persistence

CONSTANT MaxLink   \* bound on the commands under way to the replica

ASSUME ReplicationAssumption == MaxLink \in Nat

VARIABLES
  sync,      \* "none", "saving" while the child writes, "online"
  replica,   \* keyspace of the replica
  link       \* commands that the replica has not executed yet

deployment == <<vars, sync, replica, link>>

DeploymentInit ==
  /\ Init
  /\ sync = "none"
  /\ replica = NoKeys
  /\ link = <<>>

\* A write command is logged by the server and sent to the replica.
Propagate(c) ==
  /\ Execute(c)
  /\ Len(link) < MaxLink
  /\ link' = IF sync = "none" THEN link ELSE Append(link, c)
  /\ UNCHANGED <<sync, replica>>

StartSync ==
  /\ sync = "none"
  /\ Fork("sync")
  /\ sync' = "saving"
  /\ link' = <<>>
  /\ UNCHANGED replica

\* What the replica held before is flushed.
Synchronised ==
  /\ sync = "saving" /\ todo = {}
  /\ ChildEnds
  /\ replica' = LoadFile(file)
  /\ sync' = "online"
  /\ UNCHANGED <<setting, up, db, disk, promised, link>>

\* The replica executes the command as if it came from a client.
Deliver ==
  /\ sync = "online" /\ link # <<>>
  /\ replica' = Apply(replica, Head(link))
  /\ link' = Tail(link)
  /\ UNCHANGED <<vars, sync>>

Unlinked == sync' = "none" /\ link' = <<>> /\ UNCHANGED replica

\* The connection breaks, and a child that wrote for the replica is killed.
Disconnect ==
  /\ sync # "none"
  /\ IF sync = "saving" THEN ChildEnds ELSE UNCHANGED forkage
  /\ Unlinked
  /\ UNCHANGED <<setting, up, db, disk, promised>>

ServerCrash == Crash /\ Unlinked

\* What the server does without the replica.
Alone ==
  /\ \/ \E job \in {"save", "rewrite"} : Fork(job)
     \/ \E k \in Key : ChildWrites(k)
     \/ SaveDone \/ RewriteDone \/ Restart
  /\ UNCHANGED <<sync, replica, link>>

DeploymentNext ==
  \/ \E c \in Command : Propagate(c)
  \/ StartSync \/ Synchronised \/ Deliver \/ Disconnect
  \/ ServerCrash \/ Alone

DeploymentSpec == DeploymentInit /\ [][DeploymentNext]_deployment

-----------------------------------------------------------------------------
(***************************************************************************)
(* Properties.                                                             *)
(***************************************************************************)

\* The replica will be what the server is once it has executed what is under way:
\* the same values in the same containers, although it rebuilt from the serialized
\* form what the server built command by command, or itself loaded from its files.
ReplicaAgrees == sync = "online" => Replay(replica, link) = db

=============================================================================
