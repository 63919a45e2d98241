----------------------------- MODULE ConfigStore -----------------------------
(***************************************************************************)
(* The configuration: load, dirty and save of src/supervisor.rs, the       *)
(* autosave of the monitor loop, and write_config and read_config of       *)
(* src/config.rs with their rotation of backups (config.json, json.1 ...). *)
(*                                                                         *)
(* A configuration is the number of the load that brought it.  File 0 is   *)
(* config.json, file n its backup json.n.  A name refers to an inode, so   *)
(* that a rename moves a file that is still being written.  tokio's File   *)
(* accepts the bytes of write_all and writes them in a blocking task; the  *)
(* code never flushes, so the write is a step of its own (pending).        *)
(*                                                                         *)
(* Bounds of the model: MaxLoads configurations are loaded, Depth backups  *)
(* are kept (five in the code), Inodes is the pool of file identities.     *)
(***************************************************************************)
EXTENDS Integers, FiniteSets

CONSTANTS
    Savers,    \* concurrent /save requests
    Monitor,   \* the monitor loop, which saves too
    MaxLoads,  \* how many configurations are loaded
    Depth,     \* how many backups are rotated
    Inodes,    \* file identities
    Crashes    \* whether the program may be killed and started again

ASSUME BoundsAssumption ==
    /\ MaxLoads \in Nat /\ Depth \in Nat \ {0} /\ Crashes \in BOOLEAN
    /\ Monitor \notin Savers /\ Inodes \subseteq Nat \ {0}

Procs == Savers \cup {Monitor}
Files == 0..Depth
NoFile == 0       \* a name without a file
Empty == 0        \* created and not yet written; also: no configuration loaded
Torn == -1        \* the longer tail of an older configuration follows a new one

VARIABLES
    running,      \* the program is up
    loads,        \* number of configurations loaded so far
    src_config,   \* Supervisor.src_config
    dirty,        \* Supervisor.dirty
    aged,         \* last_update is more than SAVE_PERIOD_SEC ago
    loader,       \* control point of the /load request
    pc, buf, idx, \* control point, configuration and loop index of a save
    file,         \* names -> inodes
    content,      \* inodes -> configurations
    handle,       \* the inode a save has opened
    pending,      \* writes that tokio has accepted and not done
    durable,      \* the last configuration written completely
    overlapped    \* two saves, up to their writes, have been under way at one time

memVars == <<src_config, dirty, aged, loader>>
procVars == <<pc, buf, idx, handle>>
diskVars == <<file, content>>
histVars == <<durable, overlapped>>
vars == <<running, loads, memVars, procVars, diskVars, pending, histVars>>

PCs == {"idle", "read", "exists", "found", "rename", "main", "create", "write", "clear"}

Init ==
    /\ running = TRUE
    /\ loads = 0
    /\ src_config = Empty /\ dirty = FALSE /\ aged = TRUE /\ loader = "idle"
    /\ pc = [p \in Procs |-> "idle"]
    /\ buf = [p \in Procs |-> Empty]
    /\ idx = [p \in Procs |-> 0]
    /\ handle = [p \in Procs |-> NoFile]
    /\ file = [n \in Files |-> NoFile]
    /\ content = [i \in Inodes |-> Empty]
    /\ pending = {}
    /\ durable = Empty
    /\ overlapped = FALSE

-----------------------------------------------------------------------------
(* /load: the configuration is replaced under the locks, then dirty() sets  *)
(* the flag, then the time of the update.                                   *)

Load ==
    /\ running /\ loader = "idle" /\ loads < MaxLoads
    /\ loads' = loads + 1
    /\ src_config' = loads + 1
    /\ loader' = "flag"
    /\ UNCHANGED <<running, dirty, aged, procVars, diskVars, pending, histVars>>

SetDirty ==
    /\ running /\ loader = "flag"
    /\ dirty' = TRUE
    /\ loader' = "stamp"
    /\ UNCHANGED <<running, loads, src_config, aged, procVars, diskVars, pending, histVars>>

SetLastUpdate ==
    /\ running /\ loader = "stamp"
    /\ aged' = FALSE
    /\ loader' = "idle"
    /\ UNCHANGED <<running, loads, src_config, dirty, procVars, diskVars, pending, histVars>>

\* The save period has elapsed since the last update.
Tick ==
    /\ running /\ ~aged
    /\ aged' = TRUE
    /\ UNCHANGED <<running, loads, src_config, dirty, loader, procVars, diskVars,
                   pending, histVars>>

-----------------------------------------------------------------------------
(* save and write_config                                                    *)

\* A save begins; history: whether another one was under way, or its write was.
Begin(p) ==
    /\ pc[p] = "idle"
    /\ pc' = [pc EXCEPT ![p] = "read"]
    /\ overlapped' = (overlapped \/ pending # {} \/ \E q \in Procs : pc[q] # "idle")

\* The monitor looks once a second; the blocking pool is taken to have done the
\* write of the previous save by then.
Autosave ==
    /\ running /\ dirty /\ aged
    /\ pending = {}
    /\ Begin(Monitor)
    /\ UNCHANGED <<running, loads, memVars, buf, idx, handle, diskVars, pending, durable>>

\* Bound: two writes wait at most when a request comes in.
RequestSave(p) ==
    /\ running /\ p \in Savers
    /\ Cardinality(pending) < 2
    /\ Begin(p)
    /\ UNCHANGED <<running, loads, memVars, buf, idx, handle, diskVars, pending, durable>>

\* p returns from save, whatever the result, and forgets its locals.
Return(p) ==
    /\ pc' = [pc EXCEPT ![p] = "idle"]
    /\ buf' = [buf EXCEPT ![p] = Empty]
    /\ idx' = [idx EXCEPT ![p] = 0]
    /\ handle' = [handle EXCEPT ![p] = NoFile]

\* save clones the source text; without a configuration it is an error.
ReadSource(p) ==
    /\ pc[p] = "read"
    /\ \/ src_config = Empty /\ Return(p)
       \/ /\ src_config # Empty
          /\ buf' = [buf EXCEPT ![p] = src_config]
          /\ pc' = [pc EXCEPT ![p] = "exists"]
          /\ UNCHANGED <<idx, handle>>
    /\ UNCHANGED <<running, loads, memVars, diskVars, pending, histVars>>

\* Mutant of MainExists: the file is overwritten in place.
MainExistsNoBackup(p) ==
    /\ pc[p] = "exists"
    /\ pc' = [pc EXCEPT ![p] = "create"]
    /\ UNCHANGED <<running, loads, memVars, buf, idx, handle, diskVars, pending, histVars>>

\* try_exists(config.json): the backups are rotated only if it is there.
MainExists(p) ==
    /\ pc[p] = "exists"
    /\ \/ /\ file[0] # NoFile
          /\ pc' = [pc EXCEPT ![p] = "found"]
          /\ idx' = [idx EXCEPT ![p] = Depth - 1]
       \/ /\ file[0] = NoFile
          /\ pc' = [pc EXCEPT ![p] = "create"]
          /\ UNCHANGED idx
    /\ UNCHANGED <<running, loads, memVars, buf, handle, diskVars, pending, histVars>>

\* The test of the loop over the backups, from the oldest to the newest.
BackupExists(p) ==
    /\ pc[p] = "found"
    /\ \/ /\ idx[p] = 0
          /\ pc' = [pc EXCEPT ![p] = "main"]
          /\ UNCHANGED idx
       \/ /\ idx[p] > 0 /\ file[idx[p]] # NoFile
          /\ pc' = [pc EXCEPT ![p] = "rename"]
          /\ UNCHANGED idx
       \/ /\ idx[p] > 0 /\ file[idx[p]] = NoFile
          /\ idx' = [idx EXCEPT ![p] = @ - 1]
          /\ UNCHANGED pc
    /\ UNCHANGED <<running, loads, memVars, buf, handle, diskVars, pending, histVars>>

\* Inodes that a name, an open handle or a pending write refers to.
Used(f) == {f[n] : n \in Files} \cup {handle[p] : p \in Procs} \cup {w[1] : w \in pending}

\* fs::rename: the file takes the place of whatever had the name, whose inode
\* goes once nobody has it open.
Rename(m, n) ==
    /\ file' = [file EXCEPT ![n] = file[m], ![m] = NoFile]
    /\ content' = [i \in Inodes |-> IF i \in Used(file') THEN content[i] ELSE Empty]

\* Mutant of RenameBackup: the loop runs from the newest to the oldest.
RenameBackupUp(p) ==
    LET i == Depth - idx[p]
    IN  /\ pc[p] = "rename"
        /\ IF file[i] # NoFile THEN Rename(i, i + 1) ELSE UNCHANGED diskVars
        /\ idx' = [idx EXCEPT ![p] = @ - 1]
        /\ pc' = [pc EXCEPT ![p] = "found"]
        /\ UNCHANGED <<running, loads, memVars, buf, handle, pending, histVars>>

\* json.i becomes json.i+1; another save may have moved it: then it is an error.
RenameBackup(p) ==
    /\ pc[p] = "rename"
    /\ \/ /\ file[idx[p]] # NoFile
          /\ Rename(idx[p], idx[p] + 1)
          /\ idx' = [idx EXCEPT ![p] = @ - 1]
          /\ pc' = [pc EXCEPT ![p] = "found"]
          /\ UNCHANGED <<buf, handle>>
       \/ /\ file[idx[p]] = NoFile
          /\ Return(p)
          /\ UNCHANGED diskVars
    /\ UNCHANGED <<running, loads, memVars, pending, histVars>>

\* config.json becomes json.1.
RenameMain(p) ==
    /\ pc[p] = "main"
    /\ \/ /\ file[0] # NoFile
          /\ Rename(0, 1)
          /\ pc' = [pc EXCEPT ![p] = "create"]
          /\ UNCHANGED <<buf, idx, handle>>
       \/ /\ file[0] = NoFile
          /\ Return(p)
          /\ UNCHANGED diskVars
    /\ UNCHANGED <<running, loads, memVars, pending, histVars>>

\* File::create: a new file, or the one there is, truncated.
Create(p) ==
    /\ pc[p] = "create"
    /\ \E i \in Inodes :
          /\ IF file[0] # NoFile THEN i = file[0]
             ELSE i \notin Used(file) /\ \A j \in Inodes \ Used(file) : i <= j
          /\ file' = [file EXCEPT ![0] = i]
          /\ content' = [content EXCEPT ![i] = Empty]
          /\ handle' = [handle EXCEPT ![p] = i]
    /\ pc' = [pc EXCEPT ![p] = "write"]
    /\ UNCHANGED <<running, loads, memVars, buf, idx, pending, histVars>>

\* write_all: tokio takes the bytes; the handle is dropped when write_config returns.
WriteAll(p) ==
    /\ pc[p] = "write"
    /\ pending' = pending \cup {<<handle[p], buf[p]>>}
    /\ pc' = [pc EXCEPT ![p] = "clear"]
    /\ UNCHANGED <<running, loads, memVars, buf, idx, handle, diskVars, histVars>>

\* Mutant of ClearDirty: save forgets to reset the flag.
ClearDirtyNot(p) ==
    /\ pc[p] = "clear"
    /\ Return(p)
    /\ UNCHANGED <<running, loads, memVars, diskVars, pending, histVars>>

\* The end of save: the flag is reset and the configuration reported as saved,
\* whether the blocking task has written it or not.
ClearDirty(p) ==
    /\ pc[p] = "clear"
    /\ dirty' = FALSE
    /\ Return(p)
    /\ UNCHANGED <<running, loads, src_config, aged, loader, diskVars, pending, histVars>>

\* tokio's blocking task writes the bytes; over another save's bytes they may
\* leave the tail of a longer text behind.
Flush ==
    /\ running
    /\ \E w \in pending :
          /\ pending' = pending \ {w}
          /\ \/ content' = [content EXCEPT ![w[1]] = w[2]] /\ durable' = w[2]
             \/ /\ content[w[1]] # Empty
                /\ content' = [content EXCEPT ![w[1]] = Torn]
                /\ UNCHANGED durable
    /\ UNCHANGED <<running, loads, memVars, procVars, file, overlapped>>

-----------------------------------------------------------------------------
(* The program is killed, and started again.                                *)

Crash ==
    /\ running /\ Crashes
    /\ running' = FALSE
    /\ src_config' = Empty /\ dirty' = FALSE /\ aged' = TRUE /\ loader' = "idle"
    /\ pc' = [p \in Procs |-> "idle"]
    /\ buf' = [p \in Procs |-> Empty]
    /\ idx' = [p \in Procs |-> 0]
    /\ handle' = [p \in Procs |-> NoFile]
    /\ pending' = {}
    /\ UNCHANGED <<loads, diskVars, histVars>>

\* run: a missing file is logged, a text that does not parse ends the program.
Boot ==
    /\ ~running
    /\ \/ file[0] = NoFile /\ UNCHANGED src_config
       \/ /\ file[0] # NoFile /\ content[file[0]] \notin {Empty, Torn}
          /\ src_config' = content[file[0]]
    /\ running' = TRUE
    /\ UNCHANGED <<loads, dirty, aged, loader, procVars, diskVars, pending, histVars>>

-----------------------------------------------------------------------------
Save(p) ==
    \/ ReadSource(p) \/ MainExists(p) \/ BackupExists(p) \/ RenameBackup(p)
    \/ RenameMain(p) \/ Create(p) \/ WriteAll(p) \/ ClearDirty(p)

Next ==
    \/ Load \/ SetDirty \/ SetLastUpdate \/ Tick \/ Autosave
    \/ \E p \in Savers : RequestSave(p)
    \/ \E p \in Procs : Save(p)
    \/ Flush \/ Crash \/ Boot

Spec == Init /\ [][Next]_vars

\* Requests that were accepted are carried out, time passes, the monitor loops,
\* and tokio's blocking pool runs what it was given.
Fairness ==
    /\ WF_vars(SetDirty) /\ WF_vars(SetLastUpdate) /\ WF_vars(Tick)
    /\ WF_vars(Autosave) /\ WF_vars(Flush)
    /\ \A p \in Procs : WF_vars(Save(p))

FairSpec == Spec /\ Fairness

-----------------------------------------------------------------------------
(* Properties                                                              *)

Configs == 1..MaxLoads
Text(n) == IF file[n] = NoFile THEN Empty ELSE content[file[n]]

\* Types; a save renames json.1 and up in the loop and config.json after it.
TypeOK ==
    /\ {running, overlapped, dirty, aged} \subseteq BOOLEAN
    /\ loads \in 0..MaxLoads
    /\ {src_config, durable} \subseteq Configs \cup {Empty}
    /\ loader \in {"idle", "flag", "stamp"}
    /\ pc \in [Procs -> PCs]
    /\ buf \in [Procs -> Configs \cup {Empty}]
    /\ idx \in [Procs -> 0..Depth]
    /\ handle \in [Procs -> Inodes \cup {NoFile}]
    /\ file \in [Files -> Inodes \cup {NoFile}]
    /\ content \in [Inodes -> Configs \cup {Empty, Torn}]
    /\ pending \subseteq Inodes \X Configs
    /\ \A p \in Procs : pc[p] \in {"rename", "main"} => (idx[p] = 0 <=> pc[p] = "main")

\* Wherever the program is killed inside a save, the last configuration that
\* was written completely is still in config.json or in a backup, unless two
\* saves have been under way at the same time.  A save is under way until its
\* bytes are on disk: a write that the blocking pool delays over Depth later
\* saves is done on a file that has left the rotation.
LastSaveSurvives ==
    ~overlapped /\ durable # Empty => \E n \in Files : Text(n) = durable

\* A save keeps the state in its types and the last configuration on disk.
StoreInv == TypeOK /\ LastSaveSurvives

\* The rotation loses no generation but the oldest: a configuration in
\* config.json or in a backup but the last is still in some file after a step,
\* as long as no two saves have been under way at the same time.
OnlyOldestLost ==
    [][~overlapped => \A n \in 0..(Depth - 1) : Text(n) \in Configs =>
          \E m \in Files : Text(m)' = Text(n)]_vars

\* The autosave succeeds some day: a dirty flag is reset even if saves that run
\* at the same time make each other fail.
DirtyIsSaved == dirty ~> ~dirty

-----------------------------------------------------------------------------
(* What the repository says and the code does not do                       *)

\* With the autosave running, the configuration that was loaded last reaches
\* the disk.
AutosaveReachesDisk == (loads = MaxLoads) ~> (Text(0) = MaxLoads)
=============================================================================
