----------------------------- MODULE AgentTools -----------------------------
(***************************************************************************)
(* The file tools of the ds4-agent experiment (q27_agent_tools.c): agents  *)
(* that work in the same directory edit, create and overwrite one file.    *)
(*                                                                         *)
(* A file is an inode, the target's name and each tool's temporary name    *)
(* one or none; a file's bytes are the transactions whose work they show,  *)
(* none while they are being written.  Only edits take the directory's     *)
(* lock, and they open the target before it.  Each system call that        *)
(* another process can tell apart is a step; every one may fail, and the   *)
(* callback that cancels a tool is polled before the swap.                 *)
(***************************************************************************)
EXTENDS Integers, Sequences

CONSTANTS
  Tool,        \* the callers, one tool each at a time
  NoTool,
  MaxTools     \* bound: tool calls

ASSUME ToolsAssumption == NoTool \notin Tool /\ MaxTools \in Nat

VARIABLES
  leaf,        \* the inode at the target's name, 0 for none
  temp,        \* temp[a]: the inode at a's temporary name
  bytes,       \* bytes[i]: what inode i holds
  dirlock,     \* who holds the flock of the parent directory
  tpc,         \* tpc[a]: where a's tool is
  fd,          \* fd[a]: the inode a's edit opened
  data,        \* data[a]: the bytes it read
  over,        \* over[a]: a's write is an overwrite
  made,        \* made[a]: the inode a's tool has written
  call,        \* call[a]: the number of a's call
  calls,       \* calls so far
  done, undone,\* calls reported as done, and as failed or cancelled
  kept,        \* calls whose work the target owes its readers
  preserved    \* originals left at a temporary name by a failed rollback

nameVars == <<leaf, temp, bytes>>
reportVars == <<done, undone>>
toolsVars ==
  <<nameVars, dirlock, tpc, fd, data, over, made, call, calls, reportVars, kept,
    preserved>>

ToolsInit ==
  /\ leaf \in {0, 1} /\ bytes = <<{0}>>
  /\ temp = [a \in Tool |-> 0]
  /\ dirlock = NoTool
  /\ tpc = [a \in Tool |-> "idle"]
  /\ fd = [a \in Tool |-> 0] /\ made = [a \in Tool |-> 0] /\ call = [a \in Tool |-> 0]
  /\ data = [a \in Tool |-> {}] /\ over = [a \in Tool |-> FALSE]
  /\ calls = 0
  /\ done = {} /\ undone = {} /\ kept = {} /\ preserved = {}

At(a, from, to) == tpc[a] = from /\ tpc' = [tpc EXCEPT ![a] = to]

(* The tool returns: its descriptors are closed and its lock is gone. *)
Returned(a) ==
  /\ tpc' = [tpc EXCEPT ![a] = "idle"]
  /\ fd' = [fd EXCEPT ![a] = 0] /\ made' = [made EXCEPT ![a] = 0]
  /\ data' = [data EXCEPT ![a] = {}] /\ over' = [over EXCEPT ![a] = FALSE]
  /\ call' = [call EXCEPT ![a] = 0]
  /\ dirlock' = IF dirlock = a THEN NoTool ELSE dirlock
  /\ UNCHANGED calls

Succeeds(a) == Returned(a) /\ done' = done \cup {call[a]} /\ UNCHANGED undone
Failed(a) == Returned(a) /\ undone' = undone \cup {call[a]} /\ UNCHANGED done

Unlinked(a) == temp' = [temp EXCEPT ![a] = 0]

Called(a) ==
  /\ calls < MaxTools
  /\ calls' = calls + 1
  /\ call' = [call EXCEPT ![a] = calls']

(* Cancelled, refused or out of luck before anything was published: the    *)
(* temporary file is removed.                                              *)
GivesUp(a) ==
  /\ tpc[a] \in {"lock", "read", "temp", "fill", "swap", "payload", "fill_payload", "publish"}
  /\ Failed(a)
  /\ Unlinked(a)
  /\ UNCHANGED <<leaf, bytes, kept, preserved>>

-----------------------------------------------------------------------------
(* run_edit *)

OpenEdit(a) ==
  /\ At(a, "idle", "lock") /\ leaf # 0
  /\ Called(a)
  /\ fd' = [fd EXCEPT ![a] = leaf]
  /\ UNCHANGED <<nameVars, dirlock, data, over, made, reportVars, kept, preserved>>

LockParent(a) ==
  /\ At(a, "lock", "read")
  /\ dirlock = NoTool /\ dirlock' = a
  /\ UNCHANGED <<nameVars, fd, data, made, call, calls, over, reportVars, kept, preserved>>

(* read_all and locate_edit_target: the old bytes are found once. *)
ReadTarget(a) ==
  /\ At(a, "read", "temp")
  /\ data' = [data EXCEPT ![a] = bytes[fd[a]]]
  /\ UNCHANGED <<nameVars, dirlock, fd, made, call, calls, over, reportVars, kept, preserved>>

(* A new file of the tool's own, then its bytes. *)
Creates(a) ==
  /\ bytes' = Append(bytes, {})
  /\ made' = [made EXCEPT ![a] = Len(bytes')]
  /\ temp' = [temp EXCEPT ![a] = Len(bytes')]

CreateTemp(a) ==
  /\ At(a, "temp", "fill")
  /\ Creates(a)
  /\ UNCHANGED <<leaf, dirlock, fd, data, call, calls, over, reportVars, kept, preserved>>

Updated(a) == data[a] \cup {call[a]}

FillTemp(a) ==
  /\ At(a, "fill", "swap")
  /\ bytes' = [bytes EXCEPT ![made[a]] = Updated(a)]
  /\ UNCHANGED <<leaf, temp, dirlock, fd, data, made, call, calls, over, reportVars, kept, preserved>>

(* atomic_swap_at *)
Swapped(a) == leaf' = temp[a] /\ temp' = [temp EXCEPT ![a] = leaf] /\ UNCHANGED bytes

SwapIn(a) ==
  /\ At(a, "swap", "verify") /\ leaf # 0
  /\ Swapped(a)
  /\ kept' = kept \cup {call[a]}
  /\ UNCHANGED <<dirlock, fd, data, made, call, calls, over, reportVars, preserved>>

(* An edit has swapped its file in and may still swap it back. *)
Displaced == \E a \in Tool : tpc[a] \in {"verify", "commit", "rollback"}

(* What was displaced must be what was opened, with the bytes that were    *)
(* read, and what is installed what was written.                           *)
IdentityOk(a) == temp[a] = fd[a] /\ leaf = made[a]
ContentOk(a) == bytes[fd[a]] = data[a] /\ bytes[made[a]] = Updated(a)

(* Mutant: the swap is trusted. *)
VerifyNothing(a) ==
  /\ At(a, "verify", "commit")
  /\ UNCHANGED <<nameVars, dirlock, fd, data, made, call, calls, over, reportVars, kept, preserved>>

Verify(a) ==
  /\ \/ At(a, "verify", "commit") /\ IdentityOk(a) /\ ContentOk(a)
     \/ At(a, "verify", "rollback")
  /\ UNCHANGED <<nameVars, dirlock, fd, data, made, call, calls, over, reportVars, kept, preserved>>

(* The displaced file is removed, and the edit done; the directory's sync  *)
(* may fail, which is reported with it.                                    *)
CommitEdit(a) ==
  \/ /\ tpc[a] = "commit"
     /\ Unlinked(a) /\ Succeeds(a)
     /\ UNCHANGED <<leaf, bytes, kept, preserved>>
  \/ /\ At(a, "commit", "rollback")
     /\ UNCHANGED <<nameVars, dirlock, fd, data, made, call, calls, over, reportVars, kept, preserved>>

(* The files are swapped back and the temporary one removed; when the swap *)
(* fails the original stays where it is.                                   *)
Rollback(a) ==
  /\ tpc[a] = "rollback"
  /\ \/ /\ leaf' = temp[a]
        /\ kept' = kept \ {call[a]}
        /\ UNCHANGED preserved
     \/ /\ preserved' = preserved \cup {temp[a]}
        /\ UNCHANGED <<leaf, kept>>
  /\ Unlinked(a) /\ Failed(a)
  /\ UNCHANGED bytes

-----------------------------------------------------------------------------
(* run_write *)

(* write wants the target missing, overwrite takes it as it is. *)
OpenWrite(a) ==
  /\ At(a, "idle", "payload")
  /\ Called(a)
  /\ \E o \in BOOLEAN :
       /\ o \/ leaf = 0
       /\ over' = [over EXCEPT ![a] = o]
  /\ UNCHANGED <<nameVars, dirlock, fd, data, made, reportVars, kept, preserved>>

(* The payload is written in a private directory and synced. *)
CreatePayload(a) ==
  /\ At(a, "payload", "fill_payload")
  /\ Creates(a)
  /\ UNCHANGED <<leaf, dirlock, fd, data, call, calls, over, reportVars, kept, preserved>>

FillPayload(a) ==
  /\ At(a, "fill_payload", "publish")
  /\ bytes' = [bytes EXCEPT ![made[a]] = {call[a]}]
  /\ UNCHANGED <<leaf, temp, dirlock, fd, data, made, call, calls, over, reportVars, kept,
                 preserved>>

(* atomic_create_between and atomic_replace_between.  What the target owed *)
(* is replaced by the payload; nothing is owed when it lands on an edit    *)
(* that may be undone, whose rollback removes it.                          *)
PublishFile(a) ==
  /\ At(a, "publish", "check")
  /\ over[a] \/ leaf = 0
  /\ leaf' = temp[a] /\ Unlinked(a)
  /\ kept' = IF Displaced THEN {} ELSE {call[a]}
  /\ UNCHANGED <<bytes, dirlock, fd, data, made, call, calls, over, reportVars, preserved>>

(* The target must be the payload; when it is not the call fails and says  *)
(* that what it did is uncertain.                                          *)
CheckPublished(a) ==
  /\ tpc[a] = "check"
  /\ IF leaf = made[a] THEN Succeeds(a) ELSE Returned(a) /\ UNCHANGED reportVars
  /\ UNCHANGED <<nameVars, kept, preserved>>

ToolsNext ==
  \E a \in Tool :
    \/ GivesUp(a)
    \/ OpenEdit(a) \/ LockParent(a) \/ ReadTarget(a) \/ CreateTemp(a) \/ FillTemp(a)
    \/ SwapIn(a) \/ Verify(a) \/ CommitEdit(a) \/ Rollback(a)
    \/ OpenWrite(a) \/ CreatePayload(a) \/ FillPayload(a) \/ PublishFile(a) \/ CheckPublished(a)

ToolsSpec == ToolsInit /\ [][ToolsNext]_toolsVars

-----------------------------------------------------------------------------
(* Properties *)

(* An edit stands in the target between its swap and its verdict. *)
InDoubt == \E a \in Tool : tpc[a] \in {"verify", "rollback"}

Shown == IF leaf = 0 THEN {} ELSE bytes[leaf]
Recoverable == UNION {bytes[i] : i \in preserved}

(* Work is not lost: whoever else edits, creates or overwrites the file,   *)
(* an edit or a write that was reported as done is in the target until a   *)
(* later write replaces it, or in an original that a failed rollback has   *)
(* preserved; an edit that finds another's write where its own file was    *)
(* puts it back.  The lock does not see to that alone: the target is       *)
(* opened before it, and neither write nor overwrite takes it.  Nothing is *)
(* claimed of a write that lands while an edit is displaced (1170-1219):   *)
(* if that edit is undone, the swap puts the older file over the write and *)
(* unlinks it.                                                             *)
WorkKept == ~InDoubt => kept \cap done \subseteq Shown \cup Recoverable

(* A call that was reported as failed has changed nothing: its bytes are   *)
(* not in the target, by itself or through an edit that read them while    *)
(* they were in doubt, unless a rollback failed and the original was       *)
(* preserved.  Neither is a file that is still being written.              *)
FailedIsUndone ==
  /\ ~InDoubt /\ preserved = {} => Shown \cap undone = {}
  /\ leaf # 0 => Shown # {}

(* The agent's file tools, among other programs that write the same file:  *)
(* what was reported done is there, unless it was written over an edit     *)
(* that was then undone, and what was reported failed is not               *)
(* (q27_agent_tools.c).                                                    *)
ReportsTrue == WorkKept /\ FailedIsUndone
=============================================================================
