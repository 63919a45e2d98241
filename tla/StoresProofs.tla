---------------------------- MODULE StoresProofs ----------------------------
(***************************************************************************)
(* Proofs about the configuration on disk, for any number of backups,      *)
(* configurations and saves, and about the viewers of an HTTP router.      *)
(***************************************************************************)
EXTENDS ConfigStore, Viewers, TLAPS

-----------------------------------------------------------------------------
(* The configuration store                                                 *)

\* Control points at which a save has its configuration and has not handed it over.
Writing == {"exists", "found", "rename", "main", "create", "write"}

\* The inductive form of TypeOK.
StoreTypes ==
    /\ running \in BOOLEAN /\ overlapped \in BOOLEAN /\ dirty \in BOOLEAN /\ aged \in BOOLEAN
    /\ loads \in 0..MaxLoads
    /\ src_config \in Configs \cup {Empty} /\ durable \in Configs \cup {Empty}
    /\ loader \in {"idle", "flag", "stamp"}
    /\ pc \in [Procs -> PCs]
    /\ buf \in [Procs -> Configs \cup {Empty}]
    /\ idx \in [Procs -> 0..(Depth - 1)]
    /\ handle \in [Procs -> Inodes \cup {NoFile}]
    /\ file \in [Files -> Inodes \cup {NoFile}]
    /\ content \in [Inodes -> Configs \cup {Empty, Torn}]
    /\ pending \subseteq Inodes \X Configs
    /\ \A p \in Procs :
          /\ pc[p] \in Writing => buf[p] # Empty
          /\ pc[p] = "write" => handle[p] # NoFile
          /\ pc[p] \in {"rename", "main"} => (idx[p] = 0 <=> pc[p] = "main")

\* No two names have one file.
OneName == \A m, n \in Files : file[m] = file[n] /\ file[m] # NoFile => m = n

\* One save at a time, which starts when the write of the last one is done, and
\* the file it writes is the new config.json.
OneSave ==
    /\ \A p, q \in Procs : pc[p] # "idle" /\ pc[q] # "idle" => p = q
    /\ \A p \in Procs : pc[p] \notin {"idle", "clear"} => pending = {}
    /\ \A w, x \in pending : w = x
    /\ \A w \in pending : w[1] = file[0] /\ content[w[1]] = Empty
    /\ \A p \in Procs : pc[p] = "write" => handle[p] = file[0] /\ content[file[0]] = Empty
    /\ ~running => pending = {} /\ \A p \in Procs : pc[p] = "idle"

\* Where a save is in its rotation: the name it moves a file to is free, unless
\* it is the oldest.
Rotation ==
    \A p \in Procs :
        /\ pc[p] = "create" => file[0] = NoFile
        /\ pc[p] \in {"found", "rename", "main"} =>
              file[0] # NoFile /\ (idx[p] + 1 < Depth => file[idx[p] + 1] = NoFile)

\* config.json is the last configuration written, or has not been written yet;
\* the last one written is config.json or the newest backup.
LastIsNewest ==
    /\ file[0] # NoFile => content[file[0]] \in {durable, Empty}
    /\ running /\ file[0] # NoFile /\ content[file[0]] = Empty =>
          pending # {} \/ \E p \in Procs : pc[p] = "write"
    /\ durable # Empty => Text(0) = durable \/ Text(1) = durable

StoreIInv ==
    /\ StoreTypes /\ OneName
    /\ ~overlapped => OneSave /\ Rotation /\ LastIsNewest

\* fs::rename moves one file; what is left on disk keeps its text.
LEMMA RenameFacts ==
    ASSUME StoreTypes, OneName, NEW m \in Files, NEW n \in Files, m # n,
           file[m] # NoFile, Rename(m, n)
    PROVE  /\ file' \in [Files -> Inodes \cup {NoFile}]
           /\ content' \in [Inodes -> Configs \cup {Empty, Torn}]
           /\ \A k \in Files :
                 file'[k] = IF k = n THEN file[m] ELSE IF k = m THEN NoFile ELSE file[k]
           /\ \A k \in Files : file'[k] # NoFile => content'[file'[k]] = content[file'[k]]
           /\ \A w \in pending : content'[w[1]] = content[w[1]]
           /\ OneName'
<1>1. file \in [Files -> Inodes \cup {NoFile}] /\ NoFile \notin Inodes
      /\ content \in [Inodes -> Configs \cup {Empty, Torn}] /\ pending \subseteq Inodes \X Configs
    BY BoundsAssumption DEF StoreTypes, NoFile
<1>2. \A k \in Files :
          file'[k] = IF k = n THEN file[m] ELSE IF k = m THEN NoFile ELSE file[k]
    BY <1>1 DEF Rename
<1>3. file' \in [Files -> Inodes \cup {NoFile}]
    BY <1>1 DEF Rename
<1>4. content' = [i \in Inodes |-> IF i \in Used(file') THEN content[i] ELSE Empty]
    BY DEF Rename
<1>5. \A k \in Files : file'[k] # NoFile => content'[file'[k]] = content[file'[k]]
  <2> SUFFICES ASSUME NEW k \in Files, file'[k] # NoFile
               PROVE  content'[file'[k]] = content[file'[k]]
      OBVIOUS
  <2>1. file'[k] \in Inodes /\ file'[k] \in Used(file')
      BY <1>3 DEF Used
  <2> QED
      BY <1>4, <2>1
<1>6. \A w \in pending : content'[w[1]] = content[w[1]]
  <2> SUFFICES ASSUME NEW w \in pending PROVE content'[w[1]] = content[w[1]]
      OBVIOUS
  <2>1. w[1] \in Inodes /\ w[1] \in Used(file')
      BY <1>1 DEF Used
  <2> QED
      BY <1>4, <2>1
<1>7. OneName'
    BY <1>1, <1>2 DEF OneName
<1>8. content' \in [Inodes -> Configs \cup {Empty, Torn}]
    BY <1>1, <1>4
<1> QED
    BY <1>2, <1>3, <1>5, <1>6, <1>7, <1>8

\* The types are preserved, whatever saves overlap.
LEMMA StoreTypesStep ==
    ASSUME StoreTypes, OneName, [Next]_vars
    PROVE  StoreTypes' /\ OneName'
<1> USE BoundsAssumption DEF StoreTypes, memVars, procVars, diskVars, histVars, Writing, PCs,
        Empty, NoFile, Configs
<1>1. CASE Load \/ SetDirty \/ SetLastUpdate \/ Tick
  <2>1. StoreTypes'
    <3>1. loads' \in 0..MaxLoads /\ src_config' \in Configs \cup {Empty}
        BY <1>1 DEF Load, SetDirty, SetLastUpdate, Tick
    <3>2. UNCHANGED <<running, overlapped, procVars, diskVars, pending, durable>>
        BY <1>1 DEF Load, SetDirty, SetLastUpdate, Tick
    <3>3. dirty' \in BOOLEAN /\ aged' \in BOOLEAN /\ loader' \in {"idle", "flag", "stamp"}
        BY <1>1 DEF Load, SetDirty, SetLastUpdate, Tick
    <3> QED
        BY <3>1, <3>2, <3>3
  <2>2. OneName'
      BY <1>1 DEF Load, SetDirty, SetLastUpdate, Tick, OneName
  <2> QED
      BY <2>1, <2>2
<1>2. ASSUME NEW p \in Procs, Begin(p), 
             UNCHANGED <<running, loads, memVars, buf, idx, handle, diskVars, pending, durable>>
      PROVE  StoreTypes' /\ OneName'
  <2>1. overlapped' \in BOOLEAN
    <3>1. (overlapped \/ pending # {} \/ \E q \in Procs : pc[q] # "idle") \in BOOLEAN
        BY Zenon
    <3> QED
        BY <1>2, <3>1 DEF Begin
  <2>2. pc' = [pc EXCEPT ![p] = "read"]
      BY <1>2 DEF Begin
  <2>3. pc' \in [Procs -> PCs]
      BY <2>2
  <2>4. \A q \in Procs : pc'[q] = IF q = p THEN "read" ELSE pc[q]
      BY <2>2
  <2>5. OneName'
      BY <1>2 DEF OneName
  <2> QED
      BY <1>2, <2>1, <2>3, <2>4, <2>5
<1>3. CASE Autosave \/ \E p \in Savers : RequestSave(p)
    BY <1>2, <1>3 DEF Autosave, RequestSave, Procs
<1>4. ASSUME NEW p \in Procs, Return(p) PROVE
             /\ pc' \in [Procs -> PCs] /\ buf' \in [Procs -> Configs \cup {Empty}]
             /\ idx' \in [Procs -> 0..(Depth - 1)]
             /\ handle' \in [Procs -> Inodes \cup {NoFile}]
             /\ \A q \in Procs :
                  /\ pc'[q] \in Writing => buf'[q] # Empty
                  /\ pc'[q] = "write" => handle'[q] # NoFile
                  /\ pc'[q] \in {"rename", "main"} => (idx'[q] = 0 <=> pc'[q] = "main")
    BY <1>4 DEF Return
<1>5. ASSUME NEW p \in Procs, ReadSource(p) PROVE StoreTypes' /\ OneName'
  <2>0. UNCHANGED <<running, loads, memVars, diskVars, pending, histVars>>
      BY <1>5 DEF ReadSource
  <2>1. OneName'
      BY <2>0 DEF OneName
  <2>2. CASE Return(p)
      BY <1>4, <2>0, <2>1, <2>2
  <2>3. CASE /\ src_config # Empty /\ buf' = [buf EXCEPT ![p] = src_config]
             /\ pc' = [pc EXCEPT ![p] = "exists"] /\ UNCHANGED <<idx, handle>>
      BY <2>0, <2>1, <2>3
  <2> QED
      BY <1>5, <2>2, <2>3 DEF ReadSource
<1>6. ASSUME NEW p \in Procs, MainExists(p) \/ BackupExists(p) PROVE StoreTypes' /\ OneName'
  <2>0. UNCHANGED <<running, loads, memVars, buf, handle, diskVars, pending, histVars>>
      BY <1>6 DEF MainExists, BackupExists
  <2>1. OneName'
      BY <2>0 DEF OneName
  <2>2. PICK l \in {"found", "main", "rename", "create"}, j \in 0..(Depth - 1) :
            /\ pc' = [pc EXCEPT ![p] = l] /\ idx' = [idx EXCEPT ![p] = j]
            /\ pc[p] \in Writing /\ l \in {"main", "rename"} => (j = 0 <=> l = "main")
    <3>1. CASE MainExists(p)
      <4>1. idx = [idx EXCEPT ![p] = idx[p]] /\ idx[p] \in 0..(Depth - 1)
          OBVIOUS
      <4>2. Depth - 1 \in 0..(Depth - 1)
          OBVIOUS
      <4> QED
          BY <3>1, <4>1, <4>2 DEF MainExists
    <3>2. CASE BackupExists(p)
      <4>1. idx = [idx EXCEPT ![p] = idx[p]] /\ idx[p] \in 0..(Depth - 1)
            /\ pc = [pc EXCEPT ![p] = pc[p]]
          OBVIOUS
      <4>2. idx[p] > 0 => idx[p] - 1 \in 0..(Depth - 1)
          BY <4>1
      <4> QED
          BY <3>2, <4>1, <4>2 DEF BackupExists
    <3> QED
        BY <1>6, <3>1, <3>2
  <2>3. pc' \in [Procs -> PCs] /\ idx' \in [Procs -> 0..(Depth - 1)]
      BY <2>2
  <2>4. \A q \in Procs : pc'[q] = IF q = p THEN l ELSE pc[q]
      BY <2>2
  <2>5. \A q \in Procs : idx'[q] = IF q = p THEN j ELSE idx[q]
      BY <2>2
  <2>6. pc[p] \in Writing
      BY <1>6 DEF MainExists, BackupExists
  <2> QED
      BY <2>0, <2>1, <2>2, <2>3, <2>4, <2>5, <2>6
<1>7. ASSUME NEW p \in Procs, RenameBackup(p) \/ RenameMain(p) PROVE StoreTypes' /\ OneName'
  <2>0. UNCHANGED <<running, loads, memVars, pending, histVars>>
      BY <1>7 DEF RenameBackup, RenameMain
  <2>1. CASE Return(p) /\ UNCHANGED diskVars
    <3>1. OneName'
        BY <2>1 DEF OneName
    <3> QED
        BY <1>4, <2>0, <2>1, <3>1
  <2>2. CASE RenameBackup(p) /\ ~(Return(p) /\ UNCHANGED diskVars)
    <3>1. /\ file[idx[p]] # NoFile /\ Rename(idx[p], idx[p] + 1)
          /\ idx' = [idx EXCEPT ![p] = @ - 1] /\ pc' = [pc EXCEPT ![p] = "found"]
          /\ UNCHANGED <<buf, handle>> /\ pc[p] = "rename"
        BY <2>2 DEF RenameBackup
    <3>2. idx[p] \in 1..(Depth - 1) /\ idx[p] \in Files /\ idx[p] + 1 \in Files
        BY <3>1 DEF Files
    <3>3. /\ file' \in [Files -> Inodes \cup {NoFile}] /\ OneName'
          /\ content' \in [Inodes -> Configs \cup {Empty, Torn}]
        BY <3>1, <3>2, RenameFacts
    <3> QED
        BY <2>0, <3>1, <3>2, <3>3
  <2>3. CASE RenameMain(p) /\ ~(Return(p) /\ UNCHANGED diskVars)
    <3>1. /\ file[0] # NoFile /\ Rename(0, 1) /\ pc' = [pc EXCEPT ![p] = "create"]
          /\ UNCHANGED <<buf, idx, handle>> /\ pc[p] = "main"
        BY <2>3 DEF RenameMain
    <3>2. 0 \in Files /\ 1 \in Files
        BY DEF Files
    <3>3. /\ file' \in [Files -> Inodes \cup {NoFile}] /\ OneName'
          /\ content' \in [Inodes -> Configs \cup {Empty, Torn}]
        BY <3>1, <3>2, RenameFacts
    <3> QED
        BY <2>0, <3>1, <3>3
  <2> QED
      BY <1>7, <2>1, <2>2, <2>3
<1>8. ASSUME NEW p \in Procs, Create(p) PROVE StoreTypes' /\ OneName'
  <2>1. PICK i \in Inodes :
            /\ IF file[0] # NoFile THEN i = file[0] ELSE i \notin Used(file)
            /\ file' = [file EXCEPT ![0] = i]
            /\ content' = [content EXCEPT ![i] = Empty]
            /\ handle' = [handle EXCEPT ![p] = i]
      BY <1>8 DEF Create
  <2>2. /\ pc[p] = "create" /\ pc' = [pc EXCEPT ![p] = "write"]
        /\ UNCHANGED <<running, loads, memVars, buf, idx, pending, histVars>>
      BY <1>8 DEF Create
  <2>3. i # NoFile /\ \A n \in Files : n # 0 => file[n] # i
      BY <2>1 DEF Used, OneName, Files
  <2>4. OneName'
      BY <2>1, <2>3 DEF OneName
  <2>5. StoreTypes'
      BY <2>1, <2>2, <2>3
  <2> QED
      BY <2>4, <2>5
<1>9. ASSUME NEW p \in Procs, WriteAll(p) PROVE StoreTypes' /\ OneName'
  <2>1. <<handle[p], buf[p]>> \in Inodes \X Configs
      BY <1>9 DEF WriteAll
  <2>2. OneName'
      BY <1>9 DEF WriteAll, OneName
  <2> QED
      BY <1>9, <2>1, <2>2 DEF WriteAll
<1>10. ASSUME NEW p \in Procs, ClearDirty(p) PROVE StoreTypes' /\ OneName'
  <2>1. Return(p) /\ dirty' = FALSE
        /\ UNCHANGED <<running, loads, src_config, aged, loader, diskVars, pending, histVars>>
      BY <1>10 DEF ClearDirty
  <2>2. OneName'
      BY <2>1 DEF OneName
  <2> QED
      BY <1>4, <2>1, <2>2
<1>11. CASE Flush
  <2>1. PICK w \in pending :
            /\ pending' = pending \ {w}
            /\ \/ content' = [content EXCEPT ![w[1]] = w[2]] /\ durable' = w[2]
               \/ content' = [content EXCEPT ![w[1]] = Torn] /\ UNCHANGED durable
      BY <1>11 DEF Flush
  <2>2. UNCHANGED <<running, loads, memVars, procVars, file, overlapped>>
      BY <1>11 DEF Flush
  <2>3. w[1] \in Inodes /\ w[2] \in Configs
      OBVIOUS
  <2>4. OneName'
      BY <2>2 DEF OneName
  <2>5. content' \in [Inodes -> Configs \cup {Empty, Torn}] /\ durable' \in Configs \cup {Empty}
      BY <2>1, <2>3
  <2> QED
      BY <2>1, <2>2, <2>4, <2>5
<1>12. CASE Crash
  <2>1. OneName'
      BY <1>12 DEF Crash, OneName
  <2>2. /\ pc' \in [Procs -> PCs] /\ buf' \in [Procs -> Configs \cup {Empty}]
        /\ idx' \in [Procs -> 0..(Depth - 1)] /\ handle' \in [Procs -> Inodes \cup {NoFile}]
        /\ \A q \in Procs : pc'[q] = "idle"
      BY <1>12 DEF Crash
  <2>3. UNCHANGED <<loads, diskVars, histVars>> /\ pending' = {} /\ running' = FALSE
        /\ src_config' = Empty /\ dirty' = FALSE /\ aged' = TRUE /\ loader' = "idle"
      BY <1>12 DEF Crash
  <2> QED
      BY <2>1, <2>2, <2>3
<1>13. CASE Boot
  <2>1. OneName'
      BY <1>13 DEF Boot, OneName
  <2>2. src_config' \in Configs \cup {Empty}
    <3>1. 0 \in Files
        BY DEF Files
    <3> QED
        BY <1>13, <3>1 DEF Boot
  <2> QED
      BY <1>13, <2>1, <2>2 DEF Boot
<1>14. CASE UNCHANGED vars
    BY <1>14 DEF vars, OneName
<1>15. ASSUME NEW p \in Procs, Save(p) PROVE StoreTypes' /\ OneName'
    BY ONLY <1>5, <1>6, <1>7, <1>8, <1>9, <1>10, <1>15 DEF Save
<1> QED
    BY ONLY <1>1, <1>3, <1>11, <1>12, <1>13, <1>14, <1>15, [Next]_vars DEF Next

SaveInv == OneSave /\ Rotation /\ LastIsNewest

\* While no two saves overlap, every step keeps the rotation in order and the
\* last configuration in config.json or in its newest backup.
LEMMA SaveInvStep ==
    ASSUME StoreTypes, OneName, ~overlapped, SaveInv, ~overlapped', [Next]_vars
    PROVE  SaveInv'
<1> USE BoundsAssumption DEF Empty, NoFile
<1>0. /\ pc \in [Procs -> PCs] /\ file \in [Files -> Inodes \cup {NoFile}]
      /\ idx \in [Procs -> 0..(Depth - 1)] /\ handle \in [Procs -> Inodes \cup {NoFile}]
      /\ content \in [Inodes -> Configs \cup {Empty, Torn}]
      /\ pending \subseteq Inodes \X Configs /\ durable \in Configs \cup {Empty}
      /\ 0 \in Files /\ 1 \in Files /\ Configs \subseteq Nat \ {0}
    BY DEF StoreTypes, Files, Configs
<1>1. ASSUME UNCHANGED <<running, procVars, diskVars, pending, histVars>> PROVE SaveInv'
    BY <1>1 DEF procVars, diskVars, histVars, SaveInv, OneSave, Rotation, LastIsNewest, Text
<1>2. CASE Load \/ SetDirty \/ SetLastUpdate \/ Tick \/ UNCHANGED vars
    BY <1>1, <1>2 DEF Load, SetDirty, SetLastUpdate, Tick, vars
\* A save that begins is alone.
<1>3. ASSUME NEW p \in Procs, Begin(p), running,
             UNCHANGED <<running, idx, handle, diskVars, pending, durable>>
      PROVE  SaveInv'
  <2>1. pending = {} /\ \A q \in Procs : pc[q] = "idle"
      BY <1>3 DEF Begin
  <2>2. \A q \in Procs : pc'[q] = IF q = p THEN "read" ELSE "idle"
      BY <1>0, <1>3, <2>1 DEF Begin
  <2>3. OneSave'
      BY <1>3, <2>1, <2>2 DEF OneSave
  <2>4. Rotation'
      BY <2>2 DEF Rotation
  <2>5. LastIsNewest'
      BY <1>3, <2>1, <2>2 DEF SaveInv, LastIsNewest, Text, diskVars
  <2> QED
      BY <2>3, <2>4, <2>5 DEF SaveInv
<1>4. CASE Autosave \/ \E p \in Savers : RequestSave(p)
    BY <1>3, <1>4 DEF Autosave, RequestSave, Procs, procVars
\* A step of p that changes no file: p is the only save, and nobody else moves.
<1>5. ASSUME NEW p \in Procs, NEW l \in PCs, pc' = [pc EXCEPT ![p] = l], pc[p] # "idle",
             UNCHANGED <<running, diskVars, pending, durable>>,
             pc[p] # "write", l # "write", l \in {"idle", "clear"} \/ pending = {},
             l = "create" => file[0] = NoFile,
             l \in {"found", "rename", "main"} =>
                 file[0] # NoFile /\ (idx'[p] + 1 < Depth => file[idx'[p] + 1] = NoFile)
      PROVE  SaveInv'
  <2>1. \A q \in Procs : pc'[q] = IF q = p THEN l ELSE pc[q]
      BY <1>0, <1>5
  <2>2. \A q \in Procs : q # p => pc[q] = "idle"
      BY <1>5 DEF SaveInv, OneSave
  <2>3. running
      BY <1>5 DEF SaveInv, OneSave
  <2>4. OneSave'
      BY <1>5, <2>1, <2>2, <2>3 DEF SaveInv, OneSave, diskVars
  <2>5. Rotation'
      BY <1>5, <2>1, <2>2 DEF SaveInv, Rotation, diskVars
  <2>6. LastIsNewest'
      BY <1>5, <2>1, <2>2 DEF SaveInv, LastIsNewest, Text, diskVars
  <2> QED
      BY <2>4, <2>5, <2>6 DEF SaveInv
<1>6. ASSUME NEW p \in Procs, ReadSource(p) PROVE SaveInv'
  <2>1. PICK l \in {"idle", "exists"} : pc' = [pc EXCEPT ![p] = l]
      BY <1>6 DEF ReadSource, Return
  <2>2. pc[p] = "read" /\ UNCHANGED <<running, diskVars, pending, durable>>
      BY <1>6 DEF ReadSource, histVars
  <2>3. pending = {}
      BY <2>2 DEF SaveInv, OneSave
  <2> QED
      BY <1>5, <2>1, <2>2, <2>3 DEF PCs
<1>7. ASSUME NEW p \in Procs, MainExists(p) PROVE SaveInv'
  <2>1. pc[p] = "exists" /\ UNCHANGED <<running, diskVars, pending, durable>>
      BY <1>7 DEF MainExists, histVars
  <2>2. pending = {}
      BY <2>1 DEF SaveInv, OneSave
  <2>3. CASE file[0] # NoFile
    <3>1. pc' = [pc EXCEPT ![p] = "found"] /\ idx'[p] = Depth - 1
        BY <1>0, <1>7, <2>3 DEF MainExists
    <3>2. ~(idx'[p] + 1 < Depth)
        BY <3>1
    <3> QED
        BY <1>5, <2>1, <2>2, <2>3, <3>1, <3>2 DEF PCs
  <2>4. CASE file[0] = NoFile
    <3>1. pc' = [pc EXCEPT ![p] = "create"]
        BY <1>7, <2>4 DEF MainExists
    <3> QED
        BY <1>5, <2>1, <2>2, <2>4, <3>1 DEF PCs
  <2> QED
      BY <2>3, <2>4
<1>8. ASSUME NEW p \in Procs, BackupExists(p) PROVE SaveInv'
  <2>1. /\ pc[p] = "found" /\ UNCHANGED <<running, diskVars, pending, durable>>
        /\ idx[p] \in 0..(Depth - 1)
      BY <1>0, <1>8 DEF BackupExists, histVars
  <2>2. pending = {} /\ file[0] # NoFile /\ (idx[p] + 1 < Depth => file[idx[p] + 1] = NoFile)
      BY <2>1 DEF SaveInv, OneSave, Rotation
  <2>3. CASE idx[p] = 0
    <3>1. pc' = [pc EXCEPT ![p] = "main"] /\ idx' = idx
        BY <1>8, <2>3 DEF BackupExists
    <3> QED
        BY <1>5, <2>1, <2>2, <3>1 DEF PCs
  <2>4. CASE idx[p] > 0 /\ file[idx[p]] # NoFile
    <3>1. pc' = [pc EXCEPT ![p] = "rename"] /\ idx' = idx
        BY <1>8, <2>4 DEF BackupExists
    <3> QED
        BY <1>5, <2>1, <2>2, <3>1 DEF PCs
  <2>5. CASE idx[p] > 0 /\ file[idx[p]] = NoFile
    <3>1. pc' = [pc EXCEPT ![p] = "found"] /\ idx'[p] = idx[p] - 1
        BY <1>0, <1>8, <2>1, <2>5 DEF BackupExists
    <3>2. idx'[p] + 1 = idx[p]
        BY <2>1, <3>1
    <3> QED
        BY <1>5, <2>1, <2>2, <2>5, <3>1, <3>2 DEF PCs
  <2> QED
      BY <2>1, <2>3, <2>4, <2>5
\* The loop moves json.i to json.i+1, which is free or the oldest.
<1>9. ASSUME NEW p \in Procs, RenameBackup(p) PROVE SaveInv'
  <2>1. /\ pc[p] = "rename" /\ UNCHANGED <<running, pending, durable>>
        /\ idx[p] \in 1..(Depth - 1) /\ idx[p] \in Files /\ idx[p] + 1 \in Files
      BY <1>0, <1>9 DEF RenameBackup, histVars, StoreTypes, Files
  <2>2. /\ pending = {} /\ file[0] # NoFile /\ (idx[p] + 1 < Depth => file[idx[p] + 1] = NoFile)
        /\ \A q \in Procs : q # p => pc[q] = "idle"
      BY <2>1 DEF SaveInv, OneSave, Rotation
  <2>3. CASE file[idx[p]] = NoFile
    <3>1. pc' = [pc EXCEPT ![p] = "idle"] /\ UNCHANGED diskVars
        BY <1>9, <2>3 DEF RenameBackup, Return
    <3> QED
        BY <1>5, <2>1, <2>2, <3>1 DEF PCs
  <2>4. CASE file[idx[p]] # NoFile
    <3>1. /\ Rename(idx[p], idx[p] + 1) /\ idx' = [idx EXCEPT ![p] = @ - 1]
          /\ pc' = [pc EXCEPT ![p] = "found"]
        BY <1>9, <2>4 DEF RenameBackup
    <3>2. /\ \A k \in Files : file'[k] = IF k = idx[p] + 1 THEN file[idx[p]]
                                         ELSE IF k = idx[p] THEN NoFile ELSE file[k]
          /\ \A k \in Files : file'[k] # NoFile => content'[file'[k]] = content[file'[k]]
        BY <2>1, <2>4, <3>1, RenameFacts
    <3>3. \A q \in Procs : pc'[q] = IF q = p THEN "found" ELSE "idle"
        BY <1>0, <2>2, <3>1
    <3>4. idx'[p] = idx[p] - 1
        BY <1>0, <3>1
    <3>5. file'[0] = file[0] /\ file'[idx[p]] = NoFile /\ content'[file'[0]] = content[file[0]]
        BY <1>0, <2>1, <2>2, <3>2
    <3>6. running
        BY <2>1 DEF SaveInv, OneSave
    <3>7. content[file[0]] = durable /\ durable # Empty
        BY <2>1, <2>2, <3>6 DEF SaveInv, LastIsNewest
    <3>8. OneSave'
        BY <2>1, <2>2, <3>3, <3>6 DEF OneSave
    <3>9. Rotation'
      <4>1. idx'[p] + 1 = idx[p]
          BY <2>1, <3>4
      <4> QED
          BY <2>2, <3>3, <3>5, <4>1 DEF Rotation
    <3>10. LastIsNewest'
        BY <2>1, <2>2, <3>3, <3>5, <3>7 DEF LastIsNewest, Text
    <3> QED
        BY <3>8, <3>9, <3>10 DEF SaveInv
  <2> QED
      BY <2>3, <2>4
<1>10. ASSUME NEW p \in Procs, RenameMain(p) PROVE SaveInv'
  <2>1. pc[p] = "main" /\ UNCHANGED <<running, pending, durable>>
      BY <1>10 DEF RenameMain, histVars
  <2>2. pending = {} /\ file[0] # NoFile /\ \A q \in Procs : q # p => pc[q] = "idle"
      BY <2>1 DEF SaveInv, OneSave, Rotation
  <2>3. Rename(0, 1) /\ pc' = [pc EXCEPT ![p] = "create"]
      BY <1>10, <2>2 DEF RenameMain
  <2>4. /\ \A k \in Files : file'[k] = IF k = 1 THEN file[0] ELSE IF k = 0 THEN NoFile ELSE file[k]
        /\ \A k \in Files : file'[k] # NoFile => content'[file'[k]] = content[file'[k]]
      BY <1>0, <2>2, <2>3, RenameFacts
  <2>5. \A q \in Procs : pc'[q] = IF q = p THEN "create" ELSE "idle"
      BY <1>0, <2>2, <2>3
  <2>6. running
      BY <2>1 DEF SaveInv, OneSave
  <2>7. content[file[0]] = durable
      BY <2>1, <2>2, <2>6 DEF SaveInv, LastIsNewest
  <2>8. file'[0] = NoFile /\ file'[1] = file[0] /\ content'[file'[1]] = durable
      BY <1>0, <2>2, <2>4, <2>7
  <2>9. OneSave'
      BY <2>1, <2>2, <2>5, <2>6 DEF OneSave
  <2>10. Rotation'
      BY <2>5, <2>8 DEF Rotation
  <2>11. LastIsNewest'
      BY <2>1, <2>2, <2>8 DEF LastIsNewest, Text
  <2> QED
      BY <2>9, <2>10, <2>11 DEF SaveInv
<1>11. ASSUME NEW p \in Procs, Create(p) PROVE SaveInv'
  <2>1. pc[p] = "create" /\ UNCHANGED <<running, pending, durable>>
        /\ pc' = [pc EXCEPT ![p] = "write"]
      BY <1>11 DEF Create, histVars
  <2>2. pending = {} /\ file[0] = NoFile /\ \A q \in Procs : q # p => pc[q] = "idle"
      BY <2>1 DEF SaveInv, OneSave, Rotation
  <2>3. PICK i \in Inodes :
            /\ i \notin Used(file) /\ file' = [file EXCEPT ![0] = i]
            /\ content' = [content EXCEPT ![i] = Empty] /\ handle' = [handle EXCEPT ![p] = i]
      BY <1>11, <2>2 DEF Create
  <2>4. \A n \in Files : file[n] # i
      BY <2>3 DEF Used
  <2>5. /\ file'[0] = i /\ content'[i] = Empty /\ handle'[p] = i /\ file'[1] = file[1]
        /\ (file[1] # NoFile => content'[file[1]] = content[file[1]])
      BY <1>0, <2>3, <2>4
  <2>6. \A q \in Procs : pc'[q] = IF q = p THEN "write" ELSE "idle"
      BY <1>0, <2>1, <2>2
  <2>7. running
      BY <2>1 DEF SaveInv, OneSave
  <2>8. OneSave'
      BY <2>1, <2>2, <2>5, <2>6, <2>7 DEF OneSave
  <2>9. Rotation'
      BY <2>6 DEF Rotation
  <2>10. LastIsNewest'
    <3>1. durable # Empty => Text(1) = durable
        BY <2>2 DEF SaveInv, LastIsNewest, Text
    <3>2. Text(1)' = Text(1)
        BY <2>5 DEF Text
    <3> QED
        BY <2>1, <2>5, <2>6, <3>1, <3>2 DEF LastIsNewest
  <2> QED
      BY <2>8, <2>9, <2>10 DEF SaveInv
<1>12. ASSUME NEW p \in Procs, WriteAll(p) PROVE SaveInv'
  <2>1. /\ pc[p] = "write" /\ UNCHANGED <<running, diskVars, durable, handle>>
        /\ pc' = [pc EXCEPT ![p] = "clear"]
        /\ pending' = pending \cup {<<handle[p], buf[p]>>}
      BY <1>12 DEF WriteAll, histVars
  <2>2. /\ pending = {} /\ handle[p] = file[0] /\ content[file[0]] = Empty
        /\ \A q \in Procs : q # p => pc[q] = "idle"
      BY <2>1 DEF SaveInv, OneSave
  <2>3. \A q \in Procs : pc'[q] = IF q = p THEN "clear" ELSE "idle"
      BY <1>0, <2>1, <2>2
  <2>4. pending' = {<<file[0], buf[p]>>}
      BY <2>1, <2>2
  <2>5. running
      BY <2>1 DEF SaveInv, OneSave
  <2>6. OneSave'
      BY <2>1, <2>2, <2>3, <2>4, <2>5 DEF OneSave, diskVars
  <2>7. Rotation'
      BY <2>3 DEF Rotation
  <2>8. LastIsNewest'
      BY <2>1, <2>4 DEF SaveInv, LastIsNewest, Text, diskVars
  <2> QED
      BY <2>6, <2>7, <2>8 DEF SaveInv
<1>13. ASSUME NEW p \in Procs, ClearDirty(p) PROVE SaveInv'
    BY <1>5, <1>13 DEF ClearDirty, Return, histVars, PCs
\* The write fills the config.json that the save has created.
<1>14. CASE Flush
  <2>1. PICK w \in pending :
            /\ pending' = pending \ {w}
            /\ \/ content' = [content EXCEPT ![w[1]] = w[2]] /\ durable' = w[2]
               \/ content[w[1]] # Empty
      BY <1>14 DEF Flush
  <2>2. UNCHANGED <<running, procVars, file>> /\ running
      BY <1>14 DEF Flush
  <2>3. w[1] = file[0] /\ content[w[1]] = Empty /\ w[1] \in Inodes /\ w[2] \in Configs
      BY <1>0 DEF SaveInv, OneSave
  <2>4. pending' = {}
      BY <2>1 DEF SaveInv, OneSave
  <2>5. content' = [content EXCEPT ![w[1]] = w[2]] /\ durable' = w[2]
      BY <2>1, <2>3
  <2>6. content'[file[0]] = durable' /\ durable' # Empty
      BY <1>0, <2>3, <2>5
  <2>7. \A p \in Procs : pc[p] \in {"idle", "clear"}
      BY <2>1 DEF SaveInv, OneSave
  <2>8. OneSave'
      BY <2>2, <2>4, <2>7 DEF SaveInv, OneSave, procVars
  <2>9. Rotation'
      BY <2>2, <2>7 DEF Rotation, procVars
  <2>10. LastIsNewest'
      BY <1>0, <2>2, <2>3, <2>6 DEF LastIsNewest, Text
  <2> QED
      BY <2>8, <2>9, <2>10 DEF SaveInv
<1>15. CASE Crash
  <2>1. /\ \A p \in Procs : pc'[p] = "idle"
        /\ pending' = {} /\ running' = FALSE /\ UNCHANGED <<file, content, durable>>
      BY <1>15 DEF Crash, diskVars, histVars
  <2>2. OneSave' /\ Rotation'
      BY <2>1 DEF OneSave, Rotation
  <2>3. LastIsNewest'
      BY <2>1 DEF SaveInv, LastIsNewest, Text
  <2> QED
      BY <2>2, <2>3 DEF SaveInv
<1>16. CASE Boot
  <2>1. /\ ~running /\ running' = TRUE /\ UNCHANGED <<file, content, durable, pc, idx, handle, pending>>
        /\ (file[0] # NoFile => content[file[0]] # Empty)
      BY <1>16 DEF Boot, diskVars, histVars, procVars
  <2>2. OneSave' /\ Rotation'
      BY <2>1 DEF SaveInv, OneSave, Rotation
  <2>3. LastIsNewest'
      BY <2>1 DEF SaveInv, LastIsNewest, Text
  <2> QED
      BY <2>2, <2>3 DEF SaveInv
<1>17. ASSUME NEW p \in Procs, Save(p) PROVE SaveInv'
    BY ONLY <1>6, <1>7, <1>8, <1>9, <1>10, <1>11, <1>12, <1>13, <1>17 DEF Save
<1> QED
    BY ONLY <1>2, <1>4, <1>14, <1>15, <1>16, <1>17, [Next]_vars DEF Next

\* Every step keeps the invariant: the types, the history of overlaps, and the two
\* parts that say where the last configuration is.
LEMMA StoreStep == StoreIInv /\ [Next]_vars => StoreIInv'
<1> SUFFICES ASSUME StoreIInv, [Next]_vars PROVE StoreIInv'
    OBVIOUS
<1>1. StoreTypes' /\ OneName'
    BY StoreTypesStep DEF StoreIInv
<1>2. overlapped => overlapped'
  <2>1. ASSUME NEW p, Begin(p), overlapped PROVE overlapped'
      BY <2>1 DEF Begin
  <2>2. CASE Autosave \/ \E p \in Savers : RequestSave(p)
      BY <2>1, <2>2 DEF Autosave, RequestSave
  <2>3. ASSUME NEW p \in Procs, Save(p) PROVE UNCHANGED overlapped
      BY <2>3 DEF Save, ReadSource, MainExists, BackupExists, RenameBackup, RenameMain, Create,
                  WriteAll, ClearDirty, histVars
  <2>4. CASE \/ Load \/ SetDirty \/ SetLastUpdate \/ Tick \/ Flush \/ Crash \/ Boot
             \/ UNCHANGED vars
      BY <2>4 DEF vars, Load, SetDirty, SetLastUpdate, Tick, Flush, Crash, Boot, histVars
  <2> QED
      BY <2>2, <2>3, <2>4 DEF Next
<1>3. ~overlapped' => SaveInv'
    BY <1>2, SaveInvStep DEF StoreIInv, SaveInv
<1> QED
    BY <1>1, <1>3 DEF StoreIInv, SaveInv

\* The first state: nothing is loaded, and there is no file.
LEMMA StoreStart == Init => StoreIInv
<1> SUFFICES ASSUME Init PROVE StoreIInv
    OBVIOUS
<1> USE BoundsAssumption DEF Init, Empty, NoFile
<1>0. 0 \in 0..(Depth - 1) /\ 0 \in 0..MaxLoads
    OBVIOUS
<1>1. StoreTypes
  <2>1. /\ running \in BOOLEAN /\ overlapped \in BOOLEAN /\ dirty \in BOOLEAN /\ aged \in BOOLEAN
        /\ pc \in [Procs -> PCs] /\ \A p \in Procs : pc[p] = "idle"
      BY DEF PCs
  <2>2. /\ idx \in [Procs -> 0..(Depth - 1)] /\ loads \in 0..MaxLoads
      BY <1>0
  <2> QED
      BY <2>1, <2>2 DEF StoreTypes, Writing
<1>2. OneName
    BY DEF OneName
<1>3. OneSave /\ Rotation
    BY DEF OneSave, Rotation
<1>4. 0 \in Files
    BY DEF Files
<1>5. LastIsNewest
    BY <1>4 DEF LastIsNewest
<1> QED
    BY <1>1, <1>2, <1>3, <1>5 DEF StoreIInv

\* Wherever the program is killed, and however saves and loads interleave, the
\* last configuration that was written completely is in a file, for any number
\* of backups and of saves, as long as no two saves are under way at once.
THEOREM LastSaveIsKept == Spec => []StoreInv
<1>1. StoreIInv => StoreInv
  <2> SUFFICES ASSUME StoreIInv PROVE StoreInv
      OBVIOUS
  <2>1. TypeOK
    <3>1. 0..(Depth - 1) \subseteq 0..Depth
        BY BoundsAssumption
    <3> QED
        BY <3>1 DEF StoreIInv, StoreTypes, TypeOK
  <2>2. LastSaveSurvives
    <3>1. 0 \in Files /\ 1 \in Files
        BY BoundsAssumption DEF Files
    <3> QED
        BY <3>1 DEF StoreIInv, LastIsNewest, LastSaveSurvives
  <2> QED
      BY <2>1, <2>2 DEF StoreInv
<1> QED
    BY <1>1, StoreStart, StoreStep, PTL DEF Spec

\* The action of OnlyOldestLost.
KeepsNewer ==
    \A n \in 0..(Depth - 1) : Text(n) \in Configs => \E m \in Files : Text(m)' = Text(n)

\* As long as no two saves have overlapped, a step leaves every complete
\* configuration but the one in the oldest backup in some file.
LEMMA KeepsNewerStep ==
    ASSUME StoreIInv, ~overlapped, [Next]_vars
    PROVE  KeepsNewer
<1> USE BoundsAssumption DEF Empty, NoFile
<1>0. /\ file \in [Files -> Inodes \cup {NoFile}]
      /\ idx \in [Procs -> 0..(Depth - 1)]
      /\ content \in [Inodes -> Configs \cup {Empty, Torn}]
      /\ pending \subseteq Inodes \X Configs /\ Configs \subseteq Nat \ {0}
      /\ \A n \in 0..(Depth - 1) : n \in Files /\ n + 1 \in Files
      /\ \A n \in 0..(Depth - 1) : n < Depth
    BY DEF StoreIInv, StoreTypes, Files, Configs
<1>1. ASSUME UNCHANGED diskVars PROVE KeepsNewer
    BY <1>0, <1>1 DEF KeepsNewer, Text, diskVars
\* A rename to a name that is free or the last.
<1>2. ASSUME NEW k \in 0..(Depth - 1), file[k] # NoFile, Rename(k, k + 1),
             k + 1 < Depth => file[k + 1] = NoFile
      PROVE  KeepsNewer
  <2>0. k \in Files /\ k + 1 \in Files /\ k # k + 1
      BY <1>0
  <2>1. /\ \A m \in Files : file'[m] = IF m = k + 1 THEN file[k]
                                       ELSE IF m = k THEN NoFile ELSE file[m]
        /\ \A m \in Files : file'[m] # NoFile => content'[file'[m]] = content[file'[m]]
      BY <1>2, <2>0, RenameFacts DEF StoreIInv
  <2> SUFFICES ASSUME NEW n \in 0..(Depth - 1), Text(n) \in Configs
               PROVE  \E m \in Files : Text(m)' = Text(n)
      BY DEF KeepsNewer
  <2>2. file[n] # NoFile /\ n \in Files
      BY <1>0 DEF Text
  <2>3. CASE n = k
    <3>1. file'[k + 1] = file[k]
        BY <2>0, <2>1
    <3>2. Text(k + 1)' = Text(n)
      <4>1. content'[file'[k + 1]] = content[file[k]]
          BY <1>2, <2>0, <2>1, <3>1
      <4> QED
          BY <1>2, <2>3, <3>1, <4>1 DEF Text
    <3> QED
        BY <2>0, <3>2
  <2>4. CASE n # k
    <3>1. n # k + 1
        BY <1>0, <1>2, <2>2
    <3>2. file'[n] = file[n] /\ content'[file[n]] = content[file[n]]
        BY <2>1, <2>2, <2>4, <3>1
    <3>3. Text(n)' = Text(n)
        BY <3>2 DEF Text
    <3> QED
        BY <2>2, <3>3
  <2> QED
      BY <2>3, <2>4
\* A step that writes to inode i, which no file but a new config.json has.
<1>3. ASSUME NEW i \in Inodes, NEW t, content' = [content EXCEPT ![i] = t],
             file' = file \/ (file[0] = NoFile /\ file' = [file EXCEPT ![0] = i]),
             \A n \in Files : file[n] = i => content[i] = Empty
      PROVE  KeepsNewer
  <2> SUFFICES ASSUME NEW n \in 0..(Depth - 1), Text(n) \in Configs
               PROVE  \E m \in Files : Text(m)' = Text(n)
      BY DEF KeepsNewer
  <2>1. file[n] # NoFile /\ n \in Files /\ Text(n) = content[file[n]]
      BY <1>0 DEF Text
  <2>2. file[n] # i /\ file[n] \in Inodes
      BY <1>0, <1>3, <2>1
  <2>3. content'[file[n]] = content[file[n]]
      BY <1>0, <1>3, <2>2
  <2>4. file'[n] = file[n]
      BY <1>0, <1>3, <2>1
  <2>5. Text(n)' = Text(n)
      BY <2>1, <2>3, <2>4 DEF Text
  <2> QED
      BY <2>1, <2>5
<1>4. ASSUME NEW p \in Procs, RenameBackup(p) PROVE KeepsNewer
  <2>1. CASE file[idx[p]] # NoFile
    <3>1. pc[p] = "rename" /\ Rename(idx[p], idx[p] + 1)
        BY <1>4, <2>1 DEF RenameBackup
    <3>2. idx[p] + 1 < Depth => file[idx[p] + 1] = NoFile
        BY <3>1 DEF StoreIInv, Rotation
    <3> QED
        BY <1>0, <1>2, <2>1, <3>1, <3>2
  <2>2. CASE file[idx[p]] = NoFile
      BY <1>1, <1>4, <2>2 DEF RenameBackup
  <2> QED
      BY <2>1, <2>2
<1>5. ASSUME NEW p \in Procs, RenameMain(p) PROVE KeepsNewer
  <2>1. pc[p] = "main" /\ idx[p] = 0
      BY <1>5 DEF RenameMain, StoreIInv, StoreTypes
  <2>2. file[0] # NoFile /\ (1 < Depth => file[1] = NoFile)
      BY <2>1 DEF StoreIInv, Rotation
  <2>3. Rename(0, 1)
      BY <1>5, <2>2 DEF RenameMain
  <2>4. 0 \in 0..(Depth - 1) /\ 0 + 1 = 1
      OBVIOUS
  <2> QED
      BY <1>2, <2>2, <2>3, <2>4
<1>6. ASSUME NEW p \in Procs, Create(p) PROVE KeepsNewer
  <2>1. file[0] = NoFile
      BY <1>6 DEF Create, StoreIInv, Rotation
  <2>2. PICK i \in Inodes :
            /\ i \notin Used(file) /\ file' = [file EXCEPT ![0] = i]
            /\ content' = [content EXCEPT ![i] = Empty]
      BY <1>6, <2>1 DEF Create
  <2>3. \A n \in Files : file[n] # i
      BY <2>2 DEF Used
  <2> QED
      BY <1>3, <2>1, <2>2, <2>3
<1>7. CASE Flush
  <2>1. PICK w \in pending : \E t : content' = [content EXCEPT ![w[1]] = t]
      BY <1>7 DEF Flush
  <2>2. w[1] \in Inodes /\ content[w[1]] = Empty /\ UNCHANGED file
      BY <1>0, <1>7 DEF Flush, StoreIInv, OneSave
  <2> QED
      BY <1>3, <2>1, <2>2
<1>8. ASSUME NEW p \in Procs, Save(p) PROVE KeepsNewer
    BY <1>1, <1>4, <1>5, <1>6, <1>8
       DEF Save, ReadSource, MainExists, BackupExists, WriteAll, ClearDirty
<1>9. CASE \/ Load \/ SetDirty \/ SetLastUpdate \/ Tick \/ Autosave \/ Crash \/ Boot
           \/ (\E p \in Savers : RequestSave(p)) \/ UNCHANGED vars
    BY <1>1, <1>9 DEF Load, SetDirty, SetLastUpdate, Tick, Autosave, Crash, Boot, RequestSave,
                      vars
<1> QED
    BY <1>7, <1>8, <1>9 DEF Next

\* The rotation loses no generation but the oldest, for any number of backups.
THEOREM RotationKeepsNewer == Spec => OnlyOldestLost
<1>1. StoreIInv /\ [Next]_vars => [~overlapped => KeepsNewer]_vars
    BY KeepsNewerStep
<1>2. [~overlapped => KeepsNewer]_vars =>
          [~overlapped => \A n \in 0..(Depth - 1) : Text(n) \in Configs =>
                            \E m \in Files : Text(m)' = Text(n)]_vars
    BY DEF KeepsNewer
<1> QED
    BY <1>1, <1>2, StoreStart, StoreStep, PTL DEF Spec, OnlyOldestLost

-----------------------------------------------------------------------------
(* Viewers                                                                 *)

ViewRecords ==
    [pc : {"none", "allowed", "found", "stream", "hand"}, key : Keys \cup {0},
     ch : Channels \cup {0}, waiting : 0..ViewRing, late : 0..1]

\* A viewer that was handed a frame without its key is past no check.
ViewIInv ==
    /\ keys \subseteq Keys /\ aliases_tx \in Channels \cup {0}
    /\ aborted \subseteq feeding /\ feeding \subseteq Channels
    /\ viewer \in [ViewerIds -> ViewRecords]
    /\ \A v \in ViewerIds :
          viewer[v].late # 0 => viewer[v].pc = "stream" /\ viewer[v].key \notin keys

\* The smaller of two.
LEMMA MinOfTwo ==
    ASSUME NEW a \in Nat, NEW b \in Nat
    PROVE  Min({a, b}) = IF a <= b THEN a ELSE b
<1> DEFINE m == IF a <= b THEN a ELSE b
<1>1. m \in {a, b} /\ \A y \in {a, b} : m <= y
    OBVIOUS
<1>2. \A x \in {a, b} : (\A y \in {a, b} : x <= y) => x = m
    OBVIOUS
<1> HIDE DEF m
<1>3. Min({a, b}) = m
    BY <1>1, <1>2 DEF Min
<1> QED
    BY <1>3 DEF m

\* A step that gives one viewer another record.
LEMMA SetViewerKeeps ==
    ASSUME ViewIInv, NEW v \in ViewerIds, NEW r \in ViewRecords, SetViewer(v, r),
           r.late # 0 => r.pc = "stream" /\ r.key \notin keys
    PROVE  ViewIInv'
BY DEF ViewIInv, SetViewer

\* Every step keeps the viewers' invariant.
LEMMA ViewStep == ViewIInv /\ [ViewNext]_viewVars => ViewIInv'
<1> SUFFICES ASSUME ViewIInv, [ViewNext]_viewVars PROVE ViewIInv'
    OBVIOUS
<1> USE ViewAssumption
<1>0. /\ \A v \in ViewerIds : viewer[v] \in ViewRecords
      /\ NoViewer \in ViewRecords /\ NoViewer.late = 0
    BY DEF ViewIInv, NoViewer, ViewRecords
<1>1. ASSUME NEW k \in Keys, AddKey(k) PROVE ViewIInv'
  <2>1. keys' = keys \cup {k} /\ UNCHANGED <<aliases_tx, feeding, aborted>>
      BY <1>1 DEF AddKey
  <2>2. ASSUME NEW v \in ViewerIds
        PROVE  /\ viewer'[v] \in ViewRecords
               /\ viewer'[v].late # 0 => viewer'[v].pc = "stream" /\ viewer'[v].key \notin keys'
    <3>1. viewer'[v] = IF viewer[v].key = k THEN [viewer[v] EXCEPT !.late = 0] ELSE viewer[v]
        BY <1>1 DEF AddKey
    <3>2. CASE viewer[v].key = k
      <4>1. [viewer[v] EXCEPT !.late = 0] \in ViewRecords
            /\ [viewer[v] EXCEPT !.late = 0].late = 0
          BY <1>0 DEF ViewRecords
      <4> QED
          BY <3>1, <3>2, <4>1
    <3>3. CASE viewer[v].key # k
        BY <1>0, <2>1, <3>1, <3>3 DEF ViewIInv
    <3> QED
        BY <3>2, <3>3
  <2>3. viewer' \in [ViewerIds -> ViewRecords]
      BY <1>1, <2>2 DEF AddKey
  <2> QED
      BY <2>1, <2>2, <2>3 DEF ViewIInv
<1>2. ASSUME NEW k \in Keys, RemoveKey(k) \/ \E op \in {"add", "rm"} : KeyRequest(op, k)
      PROVE  ViewIInv'
    BY <1>2 DEF RemoveKey, KeyRequest, ViewIInv
<1>3. CASE RemoveAlias(FALSE) \/ RemoveAlias(TRUE) \/ RouterCancelled
  <2>1. RemoveFeed \subseteq feeding
      BY DEF RemoveFeed, ViewIInv
  <2> QED
      BY <1>3, <2>1 DEF RemoveAlias, RouterCancelled, ViewIInv
<1>4. CASE InsertAlias
    BY <1>4 DEF InsertAlias, ViewIInv
<1>5. ASSUME NEW c \in Channels, FeedSends(c) PROVE ViewIInv'
  <2>1. ASSUME NEW v \in ViewerIds
        PROVE  /\ viewer'[v] \in ViewRecords /\ viewer'[v].late = viewer[v].late
               /\ viewer'[v].pc = viewer[v].pc /\ viewer'[v].key = viewer[v].key
    <3>1. \/ viewer'[v] = viewer[v]
          \/ viewer'[v] = [viewer[v] EXCEPT !.waiting = Min({viewer[v].waiting + 1, ViewRing})]
      <4>1. [viewer[v] EXCEPT !.waiting = Min({@ + 1, ViewRing})]
            = [viewer[v] EXCEPT !.waiting = Min({viewer[v].waiting + 1, ViewRing})]
          BY <1>0 DEF ViewRecords
      <4> QED
          BY <1>5, <4>1 DEF FeedSends
    <3>2. viewer[v].waiting \in 0..ViewRing
        BY <1>0 DEF ViewRecords
    <3>3. Min({viewer[v].waiting + 1, ViewRing}) \in 0..ViewRing
        BY <3>2, MinOfTwo
    <3> QED
        BY <1>0, <3>1, <3>3 DEF ViewRecords
  <2>2. viewer' \in [ViewerIds -> ViewRecords]
      BY <1>5, <2>1 DEF FeedSends
  <2>3. UNCHANGED <<keys, aliases_tx, feeding, aborted>>
      BY <1>5 DEF FeedSends
  <2> QED
      BY <2>1, <2>2, <2>3 DEF ViewIInv
<1>6. ASSUME NEW c \in Channels, FeedEnds(c) PROVE ViewIInv'
    BY <1>6 DEF FeedEnds, ViewIInv
<1>7. ASSUME NEW v \in ViewerIds, SetViewer(v, NoViewer) PROVE ViewIInv'
    BY <1>0, <1>7, SetViewerKeeps
<1>8. ASSUME NEW v \in ViewerIds, NEW k \in Keys, Ask(v, k) PROVE ViewIInv'
  <2>1. LET r == [NoViewer EXCEPT !.pc = "allowed", !.key = k]
        IN  r \in ViewRecords /\ r.late = 0
      BY <1>0 DEF ViewRecords
  <2> QED
      BY <1>8, <2>1, SetViewerKeeps DEF Ask
<1>9. ASSUME NEW v \in ViewerIds, Lookup(v) PROVE ViewIInv'
  <2>1. CASE aliases_tx = 0
      BY <1>7, <1>9, <2>1 DEF Lookup
  <2>2. CASE aliases_tx # 0
    <3>1. viewer[v].late = 0 /\ aliases_tx \in Channels
        BY <1>9, <2>2 DEF Lookup, ViewIInv
    <3>2. LET r == [viewer[v] EXCEPT !.pc = "found", !.ch = aliases_tx]
          IN  r \in ViewRecords /\ r.late = 0
        BY <1>0, <3>1 DEF ViewRecords
    <3> QED
        BY <1>9, <2>2, <3>2, SetViewerKeeps DEF Lookup
  <2> QED
      BY <2>1, <2>2
<1>10. ASSUME NEW v \in ViewerIds, Subscribe(v) PROVE ViewIInv'
  <2>1. viewer[v].late = 0
      BY <1>10 DEF Subscribe, ViewIInv
  <2>2. LET r == [viewer[v] EXCEPT !.pc = "stream"] IN r \in ViewRecords /\ r.late = 0
      BY <1>0, <2>1 DEF ViewRecords
  <2> QED
      BY <1>10, <2>2, SetViewerKeeps DEF Subscribe
<1>11. ASSUME NEW v \in ViewerIds, Poll(v) PROVE ViewIInv'
  <2>1. CASE SetViewer(v, NoViewer)
      BY <1>7, <2>1
  <2>2. CASE ~SetViewer(v, NoViewer)
    <3>1. /\ viewer[v].waiting > 0 /\ viewer[v].key \in keys
          /\ SetViewer(v, [viewer[v] EXCEPT !.pc = "hand", !.waiting = @ - 1])
        BY <1>11, <2>2 DEF Poll, has_key
    <3>2. viewer[v].late = 0
        BY <3>1 DEF ViewIInv
    <3>3. viewer[v].waiting - 1 \in 0..ViewRing
        BY <1>0, <3>1 DEF ViewRecords
    <3>4. LET r == [viewer[v] EXCEPT !.pc = "hand", !.waiting = @ - 1]
          IN  r \in ViewRecords /\ r.late = 0
        BY <1>0, <3>2, <3>3 DEF ViewRecords
    <3> QED
        BY <3>1, <3>4, SetViewerKeeps
  <2> QED
      BY <2>1, <2>2
<1>12. ASSUME NEW v \in ViewerIds, HandOn(v) PROVE ViewIInv'
  <2>1. viewer[v].late = 0
      BY <1>12 DEF HandOn, ViewIInv
  <2>2. Min({viewer[v].late + 1, 2}) = 1
      BY <2>1, MinOfTwo
  <2>3. PICK n \in 0..1 : /\ SetViewer(v, [viewer[v] EXCEPT !.pc = "stream", !.late = n])
                          /\ n # 0 => viewer[v].key \notin keys
    <3>1. [viewer[v] EXCEPT !.pc = "stream",
              !.late = IF has_key(viewer[v].key) THEN 0 ELSE Min({@ + 1, 2})]
          = [viewer[v] EXCEPT !.pc = "stream",
              !.late = IF has_key(viewer[v].key) THEN 0 ELSE 1]
        BY <1>0, <2>2 DEF ViewRecords
    <3>2. SetViewer(v, [viewer[v] EXCEPT !.pc = "stream",
                           !.late = IF has_key(viewer[v].key) THEN 0 ELSE 1])
        BY <1>12, <3>1 DEF HandOn
    <3>3. CASE has_key(viewer[v].key)
      <4>1. (IF has_key(viewer[v].key) THEN 0 ELSE 1) = 0
          BY <3>3
      <4>2. SetViewer(v, [viewer[v] EXCEPT !.pc = "stream", !.late = 0])
          BY <3>2, <4>1
      <4> QED
          BY <4>2
    <3>4. CASE ~has_key(viewer[v].key)
      <4>1. (IF has_key(viewer[v].key) THEN 0 ELSE 1) = 1
          BY <3>4
      <4>2. SetViewer(v, [viewer[v] EXCEPT !.pc = "stream", !.late = 1])
          BY <3>2, <4>1
      <4> QED
          BY <3>4, <4>2 DEF has_key
    <3> QED
        BY <3>3, <3>4
  <2>4. LET r == [viewer[v] EXCEPT !.pc = "stream", !.late = n]
        IN  r \in ViewRecords /\ r.late = n /\ r.pc = "stream" /\ r.key = viewer[v].key
      BY <1>0 DEF ViewRecords
  <2> QED
      BY <2>3, <2>4, SetViewerKeeps
<1>13. ASSUME NEW v \in ViewerIds, ClientLeaves(v) PROVE ViewIInv'
    BY <1>7, <1>13 DEF ClientLeaves
<1>14. CASE UNCHANGED viewVars
    BY <1>14 DEF viewVars, ViewIInv
<1> QED
    BY <1>1, <1>2, <1>3, <1>4, <1>5, <1>6, <1>8, <1>9, <1>10, <1>11, <1>12, <1>13, <1>14
       DEF ViewNext

\* A viewer whose key is removed is handed at most the frame that was past the
\* check, for any number of keys, viewers and channels of any capacity.
THEOREM RevokedGetsOneFrame == ViewSpec => []OneFrameAfterRemoval
<1>1. ViewInit => ViewIInv
    BY ViewAssumption DEF ViewInit, ViewIInv, NoViewer, ViewRecords
<1>2. ViewIInv => OneFrameAfterRemoval
    BY ViewAssumption DEF ViewIInv, OneFrameAfterRemoval, ViewRecords
<1> QED
    BY <1>1, <1>2, ViewStep, PTL DEF ViewSpec

=============================================================================
