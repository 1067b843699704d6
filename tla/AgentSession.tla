---------------------------- MODULE AgentSession ----------------------------
(***************************************************************************)
(* The durable sessions of the ds4-agent experiment                        *)
(* (q27_agent_persistence.c and its callers in q27_agent.c): agents that   *)
(* were started with the same --session file load it, save to it after     *)
(* each turn and discard it on `new'.                                      *)
(*                                                                         *)
(* A session is two directory entries: the manifest, which holds the       *)
(* transcript, and the snapshot of the engine's state that it names.  The  *)
(* manifest is replaced by rename under an advisory lock.  A directory     *)
(* entry survives a power loss once the directory was synced; until then   *)
(* a power loss keeps the operations up to any point (file systems order   *)
(* them; the contents of both files are synced before their renames).      *)
(* A snapshot is its number; what the agents say is left out.              *)
(***************************************************************************)
EXTENDS Integers, Sequences

CONSTANTS
  Agent,       \* agent processes that share the session file
  MaxSaves,    \* bound: snapshots named
  MaxDeaths,   \* bound: processes killed
  MaxLosses,   \* bound: power losses
  NoAgent

ASSUME SessionAssumption ==
  /\ NoAgent \notin Agent
  /\ MaxSaves \in Nat /\ MaxDeaths \in Nat /\ MaxLosses \in Nat

VARIABLES
  dir,         \* the directory as the processes see it
  disk,        \* what a power loss may leave: the directory at the last sync and since
  named,       \* snapshot names drawn
  parent,      \* parent[n]: the snapshot n's transcript continues
  exclusive,   \* who holds the lock file's flock exclusively
  shared,      \* who holds it shared
  apc,         \* apc[a]: where agent a is
  current,     \* current[a]: current_snapshot_name, 0 for none
  mine,        \* mine[a]: the snapshot a is saving or loading
  acked,       \* version of the last change that was reported as done
  deaths, losses

sessionVars ==
  <<dir, disk, named, parent, exclusive, shared, apc, current, mine, acked,
    deaths, losses>>
diskVars == <<dir, disk, acked>>
lockVars == <<exclusive, shared>>

(* manifest is the snapshot it names, 0 when there is none; version counts *)
(* the changes of the manifest.                                            *)
Empty == [manifest |-> 0, snaps |-> {}, version |-> 0]

SessionInit ==
  /\ dir = Empty /\ disk = <<Empty>>
  /\ named = 0 /\ parent = <<>>
  /\ exclusive = NoAgent /\ shared = {}
  /\ apc = [a \in Agent |-> "start"]
  /\ current = [a \in Agent |-> 0]
  /\ mine = [a \in Agent |-> 0]
  /\ acked = 0
  /\ deaths = 0 /\ losses = 0

Move(a, from, to) == apc[a] = from /\ apc' = [apc EXCEPT ![a] = to]

(* A directory operation, and a successful sync. *)
Write(d) == dir' = d /\ disk' = Append(disk, d)
SyncTo(d) == dir' = d /\ disk' = <<d>>

WithSnap(n) == [dir EXCEPT !.snaps = @ \cup {n}]
WithoutSnap(n) == [dir EXCEPT !.snaps = @ \ {n}]
Naming(n) == [dir EXCEPT !.manifest = n, !.version = @ + 1]

Unlock(a) ==
  /\ exclusive' = IF exclusive = a THEN NoAgent ELSE exclusive
  /\ shared' = shared \ {a}

-----------------------------------------------------------------------------
(* Loading *)

(* main looks for the manifest before it locks. *)
Inspect(a) ==
  /\ apc[a] = "start"
  /\ apc' = [apc EXCEPT ![a] = IF dir.manifest = 0 THEN "ready" ELSE "lock_shared"]
  /\ current' = [current EXCEPT ![a] = 0]
  /\ UNCHANGED <<diskVars, lockVars, named, parent, mine, deaths, losses>>

LockShared(a) ==
  /\ Move(a, "lock_shared", "read")
  /\ exclusive = NoAgent
  /\ shared' = shared \cup {a}
  /\ UNCHANGED <<diskVars, exclusive, named, parent, current, mine, deaths, losses>>

(* session_load: a manifest that has gone in between, or whose snapshot is *)
(* missing, ends the agent.  The lock stays with the loaded session.       *)
ReadManifest(a) ==
  /\ apc[a] = "read"
  /\ IF dir.manifest # 0 /\ dir.manifest \in dir.snaps
       THEN /\ apc' = [apc EXCEPT ![a] = "load"]
            /\ mine' = [mine EXCEPT ![a] = dir.manifest]
            /\ UNCHANGED lockVars
       ELSE /\ apc' = [apc EXCEPT ![a] = "gone"]
            /\ Unlock(a) /\ UNCHANGED mine
  /\ UNCHANGED <<diskVars, named, parent, current, deaths, losses>>

(* The worker's LOAD opens the snapshot; only then is the lock released.   *)
(* A session that does not match or does not load ends the agent.          *)
LoadSnapshot(a) ==
  /\ apc[a] = "load"
  /\ \/ /\ mine[a] \in dir.snaps
        /\ apc' = [apc EXCEPT ![a] = "ready"]
        /\ current' = [current EXCEPT ![a] = mine[a]]
     \/ /\ apc' = [apc EXCEPT ![a] = "gone"]
        /\ UNCHANGED current
  /\ mine' = [mine EXCEPT ![a] = 0]
  /\ Unlock(a)
  /\ UNCHANGED <<diskVars, named, parent, deaths, losses>>

-----------------------------------------------------------------------------
(* Saving *)

(* save_session_ex: a fresh name, and the worker's SAVE, which syncs its   *)
(* rename.  A SAVE that fails may have left the file.                      *)
WriteSnapshot(a) ==
  /\ apc[a] = "ready" /\ named < MaxSaves
  /\ named' = named + 1
  /\ parent' = Append(parent, current[a])
  /\ mine' = [mine EXCEPT ![a] = named']
  /\ \/ SyncTo(WithSnap(named')) /\ apc' = [apc EXCEPT ![a] = "lock"]
     \/ Write(WithSnap(named')) /\ apc' = [apc EXCEPT ![a] = "drop"]
     \/ UNCHANGED <<dir, disk>> /\ apc' = [apc EXCEPT ![a] = "drop"]
  /\ UNCHANGED <<lockVars, current, acked, deaths, losses>>

LockExclusive(a) ==
  /\ \/ Move(a, "lock", "compare")
     \/ Move(a, "lock_discard", "compare_discard")
  /\ exclusive = NoAgent /\ shared \subseteq {a}
  /\ exclusive' = a
  /\ UNCHANGED <<diskVars, shared, named, parent, current, mine, deaths, losses>>

(* Mutant: whatever the manifest is, it is replaced. *)
CompareNothing(a) ==
  /\ Move(a, "compare", "rename")
  /\ UNCHANGED <<diskVars, lockVars, named, parent, current, mine, deaths, losses>>

(* session_publish: the manifest must be the one this agent continues, or  *)
(* still be missing.                                                       *)
Compare(a) ==
  /\ apc[a] = "compare"
  /\ IF dir.manifest = current[a] /\ mine[a] \in dir.snaps
       THEN apc' = [apc EXCEPT ![a] = "rename"] /\ UNCHANGED lockVars
       ELSE apc' = [apc EXCEPT ![a] = "drop"] /\ Unlock(a)
  /\ UNCHANGED <<diskVars, named, parent, current, mine, deaths, losses>>

(* The manifest's temporary is written, synced and renamed. *)
RenameManifest(a) ==
  /\ apc[a] = "rename"
  /\ \/ /\ Write(Naming(mine[a]))
        /\ apc' = [apc EXCEPT ![a] = "sync"]
        /\ UNCHANGED lockVars
     \/ /\ UNCHANGED <<dir, disk>>
        /\ apc' = [apc EXCEPT ![a] = "drop"]
        /\ Unlock(a)
  /\ UNCHANGED <<acked, named, parent, current, mine, deaths, losses>>

(* Mutants: a failed sync takes the snapshot back, or is not noticed. *)
SyncFailureDrops(a) ==
  /\ apc[a] = "sync"
  /\ \/ SyncTo(dir) /\ apc' = [apc EXCEPT ![a] = "unlink"] /\ UNCHANGED lockVars
     \/ UNCHANGED <<dir, disk>> /\ apc' = [apc EXCEPT ![a] = "drop"] /\ Unlock(a)
  /\ UNCHANGED <<acked, named, parent, current, mine, deaths, losses>>

(* The directory is synced.  When that fails the new manifest may be there *)
(* or not: its snapshot stays, and the agent still continues the old one.  *)
SyncManifest(a) ==
  /\ apc[a] = "sync"
  /\ \/ /\ SyncTo(dir)
        /\ apc' = [apc EXCEPT ![a] = "unlink"]
        /\ UNCHANGED <<lockVars, mine>>
     \/ /\ UNCHANGED <<dir, disk>>
        /\ apc' = [apc EXCEPT ![a] = "ready"]
        /\ mine' = [mine EXCEPT ![a] = 0]
        /\ Unlock(a)
  /\ UNCHANGED <<acked, named, parent, current, deaths, losses>>

(* The snapshot of the manifest before is removed, best effort, and the    *)
(* save reported.                                                          *)
UnlinkOld(a) ==
  /\ Move(a, "unlink", "ready")
  /\ \/ current[a] # 0 /\ SyncTo(WithoutSnap(current[a]))
     \/ current[a] # 0 /\ Write(WithoutSnap(current[a]))
     \/ UNCHANGED <<dir, disk>>
  /\ current' = [current EXCEPT ![a] = mine[a]]
  /\ mine' = [mine EXCEPT ![a] = 0]
  /\ acked' = dir.version
  /\ Unlock(a)
  /\ UNCHANGED <<named, parent, deaths, losses>>

(* A save that failed removes its snapshot. *)
DropSnapshot(a) ==
  /\ Move(a, "drop", "ready")
  /\ Write(WithoutSnap(mine[a]))
  /\ mine' = [mine EXCEPT ![a] = 0]
  /\ UNCHANGED <<acked, lockVars, named, parent, current, deaths, losses>>

-----------------------------------------------------------------------------
(* Discarding *)

BeginDiscard(a) ==
  /\ Move(a, "ready", "lock_discard")
  /\ UNCHANGED <<diskVars, lockVars, named, parent, current, mine, deaths, losses>>

(* session_discard: with the manifest missing only the expected snapshot   *)
(* goes; another agent's manifest is left alone, and so is everything when *)
(* an unlink fails or there is nothing to remove.                          *)
CompareDiscard(a) ==
  /\ apc[a] = "compare_discard"
  /\ \/ /\ dir.manifest = 0 /\ current[a] # 0
        /\ Write(WithoutSnap(current[a]))
        /\ apc' = [apc EXCEPT ![a] = "sync_discard"]
        /\ UNCHANGED lockVars
     \/ /\ dir.manifest # 0 /\ dir.manifest = current[a]
        /\ Write(Naming(0))
        /\ apc' = [apc EXCEPT ![a] = "unlink_discard"]
        /\ UNCHANGED lockVars
     \/ /\ UNCHANGED <<dir, disk>>
        /\ apc' = [apc EXCEPT ![a] = "ready"]
        /\ Unlock(a)
  /\ UNCHANGED <<acked, named, parent, current, mine, deaths, losses>>

UnlinkDiscard(a) ==
  /\ apc[a] = "unlink_discard"
  /\ \/ /\ Write(WithoutSnap(current[a]))
        /\ apc' = [apc EXCEPT ![a] = "sync_discard"]
        /\ UNCHANGED <<lockVars, current>>
     \/ /\ UNCHANGED <<dir, disk>>
        /\ apc' = [apc EXCEPT ![a] = "ready"]
        /\ current' = [current EXCEPT ![a] = 0]
        /\ Unlock(a)
  /\ UNCHANGED <<acked, named, parent, mine, deaths, losses>>

(* The discard is reported as done, or as uncertain; either way the agent  *)
(* continues nothing.                                                      *)
SyncDiscard(a) ==
  /\ Move(a, "sync_discard", "ready")
  /\ \/ SyncTo(dir) /\ acked' = dir.version
     \/ UNCHANGED <<dir, disk, acked>>
  /\ current' = [current EXCEPT ![a] = 0]
  /\ Unlock(a)
  /\ UNCHANGED <<named, parent, mine, deaths, losses>>

-----------------------------------------------------------------------------
(* Crashes *)

(* A killed process drops its locks and its memory; it may come back. *)
Dies(a) ==
  /\ deaths < MaxDeaths /\ apc[a] # "gone"
  /\ deaths' = deaths + 1
  /\ apc' = [apc EXCEPT ![a] = "gone"]
  /\ mine' = [mine EXCEPT ![a] = 0]
  /\ current' = [current EXCEPT ![a] = 0]
  /\ Unlock(a)
  /\ UNCHANGED <<diskVars, named, parent, losses>>

Restarts(a) ==
  /\ Move(a, "gone", "start")
  /\ UNCHANGED <<diskVars, lockVars, named, parent, current, mine, deaths, losses>>

(* A power loss ends them all, and leaves what had been synced and the     *)
(* operations since up to some point.                                      *)
PowerLoss ==
  /\ losses < MaxLosses
  /\ losses' = losses + 1
  /\ \E i \in 1..Len(disk) : SyncTo(disk[i])
  /\ apc' = [a \in Agent |-> "gone"]
  /\ mine' = [a \in Agent |-> 0]
  /\ current' = [a \in Agent |-> 0]
  /\ exclusive' = NoAgent /\ shared' = {}
  /\ UNCHANGED <<acked, named, parent, deaths>>

Load(a) == Inspect(a) \/ LockShared(a) \/ ReadManifest(a) \/ LoadSnapshot(a)

Save(a) ==
  \/ WriteSnapshot(a) \/ LockExclusive(a) \/ Compare(a) \/ RenameManifest(a)
  \/ SyncManifest(a) \/ UnlinkOld(a) \/ DropSnapshot(a)

Discard(a) ==
  \/ BeginDiscard(a) \/ CompareDiscard(a) \/ UnlinkDiscard(a) \/ SyncDiscard(a)

SessionNext ==
  \/ \E a \in Agent : Load(a) \/ Save(a) \/ Discard(a) \/ Dies(a) \/ Restarts(a)
  \/ PowerLoss

SessionSpec == SessionInit /\ [][SessionNext]_sessionVars

-----------------------------------------------------------------------------
(* Properties *)

(* "never a committed manifest with a missing blob"                        *)
(* (session_publish's post-commit cleanup): neither the directory nor      *)
(* anything a power loss may make of it names a snapshot that is not       *)
(* there, and the snapshot an agent is loading stays until it is read.     *)
ManifestBacked ==
  /\ \A i \in 1..Len(disk) : disk[i].manifest # 0 => disk[i].manifest \in disk[i].snaps
  /\ dir.manifest # 0 => dir.manifest \in dir.snaps
  /\ \A a \in Agent : apc[a] = "load" => mine[a] \in dir.snaps

(* A save or a discard that was reported as done survives a power loss:    *)
(* the manifest it leaves is that one or a later one.                      *)
ReportedIsDurable == \A i \in 1..Len(disk) : disk[i].version >= acked

(* No completed turn is overwritten: a manifest is replaced only by one    *)
(* whose transcript continues it, however many agents save to the same     *)
(* file (the comparison under the lock in session_publish).                *)
ContinuesWhatItReplaces ==
  losses' = losses /\ dir'.manifest # dir.manifest /\ dir'.manifest # 0
    => parent[dir'.manifest] = dir.manifest

(* The agent's sessions survive death and power loss: no manifest without  *)
(* its snapshot, no reported save undone (q27_agent_persistence.c).        *)
SavesSurvive == ManifestBacked /\ ReportedIsDurable
=============================================================================
