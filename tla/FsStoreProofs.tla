---------------------------- MODULE FsStoreProofs -----------------------------
(***************************************************************************)
(* What the file-system store keeps through kills and power failures, for   *)
(* any number of writers, objects, directories and failures.                *)
(***************************************************************************)
EXTENDS FsStore, TLAPS

Putting == {"mkdir", "syncdir", "write", "link", "sync"}
Swapping == {"compare", "rename", "synchead", "unlock"}
HeadFile == [version : Nat, refs : SUBSET Objects]
Labels == {"idle", "put", "lock"} \cup Putting \cup Swapping
WriterState == [pc : Labels,
                todo : SUBSET Objects, object : SUBSET Objects,
                done : SUBSET Objects, expected : HeadFile]

TypeOK ==
    /\ dirs \in [Directories -> EntryState]
    /\ entry \in [Objects -> EntryState]
    /\ flushed \subseteq Objects
    /\ trusted \subseteq Objects
    /\ head \in HeadFile
    /\ onDisk \subseteq HeadFile
    /\ lock \in Writers \cup {Nobody}
    /\ wr \in [Writers -> WriterState]
    /\ acked \in Nat

\* Where the put of object k stands.
PutAt(w, k) ==
    /\ wr[w].object = {k}
    /\ wr[w].pc # "mkdir" => dirs[DirectoryOf[k]] # "absent"
    /\ wr[w].pc \in {"link", "sync"} => k \in flushed
    /\ wr[w].pc = "sync" => entry[k] # "absent"

PutInv == \A w \in Writers : wr[w].pc \in Putting => \E k \in Objects : PutAt(w, k)

\* An entry is linked in a directory that exists, after a flush, and is synced
\* together with its directory.
EntryInv ==
    \A k \in Objects :
        /\ entry[k] # "absent" => k \in flushed /\ dirs[DirectoryOf[k]] # "absent"
        /\ entry[k] = "durable" => dirs[DirectoryOf[k]] = "durable"

Kept(k) == Durable(k) \/ k \in trusted

\* All that a writer will refer to is kept.
KeptInv ==
    /\ HeadObjectsDurableOrTrusted
    /\ \A w \in Writers : \A k \in wr[w].done \cup wr[w].expected.refs : Kept(k)

\* A writer between compare and unlock has the lock and knows the head.
SwapInv ==
    /\ head \in onDisk
    /\ \A w \in Writers :
         /\ wr[w].pc \in Swapping => lock = w
         /\ wr[w].pc = "rename" => head = wr[w].expected
         /\ wr[w].pc \in {"synchead", "unlock"} => head = NextHead(w)
         /\ wr[w].pc = "unlock" => onDisk = {head}
    /\ AckedHeadSurvives

-----------------------------------------------------------------------------

\* Key names the object of a put in progress.
LEMMA KeyIs ==
    ASSUME NEW w, NEW k \in Objects, wr[w].object = {k}
    PROVE  Key(w) = k
BY Zenon DEF Key

\* The types hold at the start and no step breaks them.
LEMMA TypeInit == Init => TypeOK
BY FsAssumption DEF Init, TypeOK, NoHead, IdleWriter, EntryState, HeadFile, WriterState, Labels

\* A writer that only moves on.
LEMMA GotoStep ==
    ASSUME wr \in [Writers -> WriterState], NEW w \in Writers, NEW pc \in Labels, Goto(w, pc)
    PROVE  /\ wr' \in [Writers -> WriterState]
           /\ wr'[w] = [wr[w] EXCEPT !.pc = pc]
           /\ \A v \in Writers : v # w => wr'[v] = wr[v]
<1>1. [wr[w] EXCEPT !.pc = pc] \in WriterState
  BY Zenon DEF WriterState
<1>2. wr' = [wr EXCEPT ![w] = [wr[w] EXCEPT !.pc = pc]]
  BY Zenon DEF Goto
<1> QED BY Zenon, <1>1, <1>2

\* A writer that starts afresh.
LEMMA WriterStep ==
    ASSUME wr \in [Writers -> WriterState], NEW w \in Writers, NEW state \in WriterState,
           wr' = [wr EXCEPT ![w] = state]
    PROVE  /\ wr' \in [Writers -> WriterState]
           /\ wr'[w] = state
           /\ \A v \in Writers : v # w => wr'[v] = wr[v]
BY Zenon

\* The put of one object has returned.
LEMMA StoredStep ==
    ASSUME wr \in [Writers -> WriterState], NEW w \in Writers, Stored(w)
    PROVE  /\ wr' \in [Writers -> WriterState]
           /\ wr'[w].pc = "put" /\ wr'[w].expected = wr[w].expected
           /\ wr'[w].done = wr[w].done \cup wr[w].object
           /\ \A v \in Writers : v # w => wr'[v] = wr[v]
<1> DEFINE state == [wr[w] EXCEPT !.pc = "put", !.todo = @ \ wr[w].object,
                                  !.object = {}, !.done = @ \cup wr[w].object]
<1>1. state \in WriterState
  BY Zenon DEF WriterState, Labels
<1>2. wr' = [wr EXCEPT ![w] = state]
  BY Zenon DEF Stored
<1>3. wr'[w] = state
  BY Zenon, <1>2
<1>4. state.pc = "put" /\ state.expected = wr[w].expected /\ state.done = wr[w].done \cup wr[w].object
  BY Zenon DEF WriterState
<1> HIDE DEF state
<1> QED BY Zenon, <1>1, <1>2, <1>3, <1>4

\* A writer that ends leaves a well-typed record.
LEMMA IdleTyped == IdleWriter \in WriterState
BY Zenon DEF IdleWriter, WriterState, Labels, NoHead, HeadFile

\* It refers to nothing.
LEMMA IdleEmpty == IdleWriter.done = {} /\ IdleWriter.expected.refs = {}
<1>1. IdleWriter.done = {} /\ IdleWriter.expected = NoHead
  BY Zenon DEF IdleWriter
<1>2. NoHead.refs = {}
  BY Zenon DEF NoHead
<1> QED BY Zenon, <1>1, <1>2

\* No step breaks the types.
LEMMA TypeStep == TypeOK /\ PutInv /\ [Next]_vars => TypeOK'
<1> SUFFICES ASSUME TypeOK, PutInv, [Next]_vars PROVE TypeOK'
  BY Zenon
<1> USE FsAssumption DEF TypeOK
<1>l. Labels = {"idle", "put", "lock", "mkdir", "syncdir", "write", "link", "sync",
                "compare", "rename", "synchead", "unlock"}
  BY Zenon DEF Labels, Putting, Swapping
<1>s. SyncedDirs \in [Directories -> EntryState]
      /\ \A dir : SyncedEntries(dir) \in [Objects -> EntryState]
  BY Zenon DEF SyncedDirs, SyncedEntries, EntryState
<1>1. ASSUME NEW w \in Writers, NEW output \in SUBSET Objects \ {{}}, Begin(w, output) PROVE TypeOK'
  <2> DEFINE state == [pc |-> "put", todo |-> output, object |-> {}, done |-> {}, expected |-> head]
  <2>1. state \in WriterState
    BY Zenon, <1>l DEF WriterState
  <2>2. wr' \in [Writers -> WriterState]
    BY Zenon, <1>1, <2>1, WriterStep DEF Begin
  <2> QED BY Zenon, <1>1, <2>2 DEF Begin
<1>2. ASSUME NEW w \in Writers, NEW k \in Objects, PutExisting(w, k) PROVE TypeOK'
  <2> DEFINE state == [wr[w] EXCEPT !.todo = @ \ {k}, !.done = @ \cup {k}]
  <2>1. state \in WriterState
    BY ZenonT(30) DEF WriterState
  <2>2. wr' = [wr EXCEPT ![w] = state]
    BY Zenon, <1>2 DEF PutExisting
  <2>3. wr' \in [Writers -> WriterState]
    BY Zenon, <2>1, <2>2, WriterStep
  <2> QED BY Zenon, <1>2, <2>3 DEF PutExisting
<1>3. ASSUME NEW w \in Writers, NEW k \in Objects, PutNew(w, k) PROVE TypeOK'
  <2> DEFINE state == [wr[w] EXCEPT !.pc = "mkdir", !.object = {k}]
  <2>1. state \in WriterState
    BY ZenonT(30), <1>l DEF WriterState
  <2>2. wr' = [wr EXCEPT ![w] = state]
    BY Zenon, <1>3 DEF PutNew
  <2>3. wr' \in [Writers -> WriterState]
    BY Zenon, <2>1, <2>2, WriterStep
  <2> QED BY Zenon, <1>3, <2>3 DEF PutNew
<1>4. ASSUME NEW w \in Writers, PutMakeDirectory(w) PROVE TypeOK'
  <2>1. wr' \in [Writers -> WriterState]
    BY Zenon, <1>4, <1>l, GotoStep DEF PutMakeDirectory
  <2>2. dirs' \in [Directories -> EntryState]
    BY Zenon, <1>4 DEF PutMakeDirectory, EntryState
  <2> QED BY Zenon, <1>4, <2>1, <2>2 DEF PutMakeDirectory
<1>5. ASSUME NEW w \in Writers, PutSyncDirectory(w) PROVE TypeOK'
  <2>1. wr' \in [Writers -> WriterState]
    BY Zenon, <1>5, <1>l, GotoStep DEF PutSyncDirectory
  <2> QED BY Zenon, <1>5, <1>s, <2>1 DEF PutSyncDirectory, sync_path_directories
<1>6. ASSUME NEW w \in Writers, PutWrite(w) PROVE TypeOK'
  <2>1. PICK k \in Objects : PutAt(w, k)
    BY Zenon, <1>6 DEF PutInv, PutWrite, Putting
  <2>2. Key(w) = k
    BY Zenon, <2>1, KeyIs DEF PutAt
  <2>3. wr' \in [Writers -> WriterState]
    BY Zenon, <1>6, <1>l, GotoStep DEF PutWrite
  <2> QED BY Zenon, <1>6, <2>2, <2>3 DEF PutWrite
<1>7. ASSUME NEW w \in Writers, PutLink(w) PROVE TypeOK'
  <2>1. wr' \in [Writers -> WriterState]
    BY Zenon, <1>7, <1>l, GotoStep DEF PutLink
  <2>2. entry' \in [Objects -> EntryState]
    BY Zenon, <1>7 DEF PutLink, EntryState
  <2> QED BY Zenon, <1>7, <2>1, <2>2 DEF PutLink
<1>8. ASSUME NEW w \in Writers, PutSync(w) PROVE TypeOK'
  <2>1. wr' \in [Writers -> WriterState]
    BY Zenon, <1>8, StoredStep DEF PutSync
  <2> QED BY Zenon, <1>8, <1>s, <2>1 DEF PutSync, sync_path_directories
<1>9. ASSUME NEW w \in Writers, PutsDone(w) PROVE TypeOK'
  <2>1. wr' \in [Writers -> WriterState]
    BY Zenon, <1>9, <1>l, GotoStep DEF PutsDone
  <2> QED BY Zenon, <1>9, <2>1 DEF PutsDone
<1>10. ASSUME NEW w \in Writers, CasLock(w) PROVE TypeOK'
  <2>1. wr' \in [Writers -> WriterState]
    BY Zenon, <1>10, <1>l, GotoStep DEF CasLock
  <2> QED BY Zenon, <1>10, <1>s, <2>1 DEF CasLock
<1>11. ASSUME NEW w \in Writers, CasCompare(w) PROVE TypeOK'
  <2>1. wr' \in [Writers -> WriterState]
    BY Zenon, <1>11, <1>l, GotoStep DEF CasCompare
  <2> QED BY Zenon, <1>11, <2>1 DEF CasCompare
<1>12. ASSUME NEW w \in Writers, CasRefused(w) PROVE TypeOK'
  BY Zenon, <1>12, IdleTyped, WriterStep DEF CasRefused
<1>13. ASSUME NEW w \in Writers, CasRename(w) PROVE TypeOK'
  <2>1. NextHead(w) \in HeadFile
    BY DEF NextHead, HeadFile, WriterState
  <2>2. wr' \in [Writers -> WriterState]
    BY Zenon, <1>13, <1>l, GotoStep DEF CasRename
  <2> QED BY Zenon, <1>13, <2>1, <2>2 DEF CasRename
<1>14. ASSUME NEW w \in Writers, CasSync(w) PROVE TypeOK'
  <2>1. wr' \in [Writers -> WriterState]
    BY Zenon, <1>14, <1>l, GotoStep DEF CasSync
  <2> QED BY Zenon, <1>14, <2>1 DEF CasSync
<1>15. ASSUME NEW w \in Writers, CasUnlock(w) PROVE TypeOK'
  <2>1. NextHead(w).version \in Nat
    BY DEF NextHead, HeadFile, WriterState
  <2> QED BY Zenon, <1>15, <2>1, IdleTyped, WriterStep DEF CasUnlock
<1>16. ASSUME NEW w \in Writers, Kill(w) PROVE TypeOK'
  BY Zenon, <1>16, IdleTyped, WriterStep DEF Kill
<1>17. ASSUME NEW keptDirs, NEW keptEntries, NEW h \in onDisk, PowerFailure(keptDirs, keptEntries, h)
       PROVE TypeOK'
  BY Zenon, <1>17, IdleTyped DEF PowerFailure, EntryState
<1>18. CASE UNCHANGED vars
  BY Zenon, <1>18 DEF vars
<1> QED
  BY Zenon, <1>1, <1>2, <1>3, <1>4, <1>5, <1>6, <1>7, <1>8, <1>9, <1>10, <1>11, <1>12, <1>13, <1>14,
     <1>15, <1>16, <1>17, <1>18 DEF Next

\* What is on disk stays there, except in a power failure.
DiskGrows ==
    /\ \A d \in Directories :
          /\ dirs[d] # "absent" => dirs'[d] # "absent"
          /\ dirs[d] = "durable" => dirs'[d] = "durable"
    /\ \A k \in Objects :
          /\ entry[k] # "absent" => entry'[k] # "absent"
          /\ entry[k] = "durable" => entry'[k] = "durable"
    /\ flushed \subseteq flushed'
    /\ trusted \subseteq trusted'

\* Steps of one writer leave what is on disk, and the other writers, alone.
WriterSteps(w) ==
    \/ \E output \in SUBSET Objects \ {{}} : Begin(w, output)
    \/ \E k \in Objects : PutExisting(w, k) \/ PutNew(w, k)
    \/ PutMakeDirectory(w) \/ PutSyncDirectory(w) \/ PutWrite(w) \/ PutLink(w) \/ PutSync(w)
    \/ PutsDone(w) \/ CasLock(w) \/ CasCompare(w) \/ CasRefused(w) \/ CasRename(w)
    \/ CasSync(w) \/ CasUnlock(w) \/ Kill(w)

\* A step of one writer leaves the others alone and takes nothing off the disk.
LEMMA WriterFrame ==
    ASSUME TypeOK, NEW w \in Writers, WriterSteps(w)
    PROVE  DiskGrows /\ \A v \in Writers : v # w => wr'[v] = wr[v]
<1> USE FsAssumption DEF TypeOK, DiskGrows
<1>s. /\ \A d \in Directories :
            /\ dirs[d] # "absent" => SyncedDirs[d] # "absent"
            /\ dirs[d] = "durable" => SyncedDirs[d] = "durable"
      /\ \A dir : \A k \in Objects :
            /\ entry[k] # "absent" => SyncedEntries(dir)[k] # "absent"
            /\ entry[k] = "durable" => SyncedEntries(dir)[k] = "durable"
  BY Zenon DEF SyncedDirs, SyncedEntries, EntryState
<1>1. CASE \E output \in SUBSET Objects \ {{}} : Begin(w, output)
  BY Zenon, <1>1 DEF Begin
<1>2. CASE \E k \in Objects : PutExisting(w, k) \/ PutNew(w, k)
  BY Zenon, <1>2 DEF PutExisting, PutNew
<1>3. CASE PutMakeDirectory(w)
  BY Zenon, <1>3 DEF PutMakeDirectory, Goto, EntryState
<1>4. CASE PutSyncDirectory(w)
  BY Zenon, <1>4, <1>s DEF PutSyncDirectory, sync_path_directories, Goto
<1>5. CASE PutWrite(w)
  BY Zenon, <1>5 DEF PutWrite, Goto
<1>6. CASE PutLink(w)
  BY Zenon, <1>6 DEF PutLink, Goto, EntryState
<1>7. CASE PutSync(w)
  BY Zenon, <1>7, <1>s DEF PutSync, sync_path_directories, Stored
<1>8. CASE PutsDone(w) \/ CasCompare(w) \/ CasRename(w) \/ CasSync(w)
  BY Zenon, <1>8 DEF PutsDone, CasCompare, CasRename, CasSync, Goto
<1>9. CASE CasLock(w)
  BY Zenon, <1>9, <1>s DEF CasLock, Goto
<1>10. CASE CasRefused(w) \/ CasUnlock(w) \/ Kill(w)
  BY Zenon, <1>10 DEF CasRefused, CasUnlock, Kill
<1> QED
  BY Zenon, <1>1, <1>2, <1>3, <1>4, <1>5, <1>6, <1>7, <1>8, <1>9, <1>10 DEF WriterSteps

\* Next as steps of one writer, power failures and stutters.
LEMMA NextSplit ==
    ASSUME [Next]_vars
    PROVE  \/ \E w \in Writers : WriterSteps(w)
           \/ \E keptDirs \in SUBSET Directories, keptEntries \in SUBSET Objects, h \in onDisk :
                PowerFailure(keptDirs, keptEntries, h)
           \/ UNCHANGED vars
BY Zenon DEF Next, WriterSteps

\* A put in progress stays where it is when another writer moves.
LEMMA PutFrame ==
    ASSUME TypeOK, PutInv, DiskGrows, NEW w \in Writers,
           \A v \in Writers : v # w => wr'[v] = wr[v],
           wr'[w].pc \in Putting => \E k \in Objects : PutAt(w, k)'
    PROVE  PutInv'
<1> SUFFICES ASSUME NEW v \in Writers, v # w, wr'[v].pc \in Putting
             PROVE  \E k \in Objects : PutAt(v, k)'
  BY Zenon DEF PutInv
<1>1. wr'[v] = wr[v]
  BY Zenon
<1>2. PICK k \in Objects : PutAt(v, k)
  BY Zenon, <1>1 DEF PutInv
<1>3. DirectoryOf[k] \in Directories
  BY Zenon, FsAssumption
<1>4. PutAt(v, k)'
  <2>1. wr'[v].object = {k}
    BY Zenon, <1>1, <1>2 DEF PutAt
  <2>2. wr'[v].pc # "mkdir" => dirs'[DirectoryOf[k]] # "absent"
    BY Zenon, <1>1, <1>2, <1>3 DEF PutAt, DiskGrows
  <2>3. wr'[v].pc \in {"link", "sync"} => k \in flushed'
    BY Zenon, <1>1, <1>2 DEF PutAt, DiskGrows
  <2>4. wr'[v].pc = "sync" => entry'[k] # "absent"
    BY Zenon, <1>1, <1>2 DEF PutAt, DiskGrows
  <2> QED BY Zenon, <2>1, <2>2, <2>3, <2>4 DEF PutAt
<1> QED BY Zenon, <1>4

\* No step loses track of a put.
LEMMA PutStep == TypeOK /\ PutInv /\ [Next]_vars => PutInv'
<1> SUFFICES ASSUME TypeOK, PutInv, [Next]_vars PROVE PutInv'
  BY Zenon
<1>w. ASSUME NEW w \in Writers, WriterSteps(w) PROVE PutInv'
  <2>f. DiskGrows /\ \A v \in Writers : v # w => wr'[v] = wr[v]
    BY Zenon, <1>w, WriterFrame
  <2> SUFFICES ASSUME wr'[w].pc \in Putting PROVE \E k \in Objects : PutAt(w, k)'
    BY Zenon, <2>f, PutFrame
  <2>t. wr \in [Writers -> WriterState] /\ wr[w] \in WriterState
    BY Zenon DEF TypeOK
  <2>p. ASSUME wr[w].pc \in Putting
        PROVE  \E k \in Objects : PutAt(w, k) /\ Key(w) = k /\ DirectoryOf[k] \in Directories
    BY Zenon, <2>p, KeyIs, FsAssumption DEF PutInv, PutAt
  <2>1. CASE \E output \in SUBSET Objects \ {{}} : Begin(w, output)
    BY <2>1, <2>t DEF Begin, Putting
  <2>2. ASSUME NEW k \in Objects, PutExisting(w, k) PROVE FALSE
    BY Zenon, <2>2, <2>t DEF PutExisting, Putting, WriterState
  <2>3. ASSUME NEW k \in Objects, PutNew(w, k) PROVE PutAt(w, k)'
    BY Zenon, <2>3, <2>t DEF PutNew, PutAt, WriterState
  <2>4. CASE PutMakeDirectory(w)
    <3>1. PICK k \in Objects : PutAt(w, k) /\ Key(w) = k /\ DirectoryOf[k] \in Directories
      BY Zenon, <2>4, <2>p DEF PutMakeDirectory, Putting
    <3>2. wr'[w] = [wr[w] EXCEPT !.pc = "syncdir"]
      BY Zenon, <2>4, <2>t DEF PutMakeDirectory, Goto
    <3>3. wr'[w].pc = "syncdir" /\ wr'[w].object = {k}
      BY Zenon, <3>1, <3>2, <2>t DEF PutAt, WriterState
    <3>4. dirs'[DirectoryOf[k]] # "absent"
      BY Zenon, <2>4, <3>1 DEF PutMakeDirectory, TypeOK
    <3> QED BY Zenon, <3>3, <3>4 DEF PutAt
  <2>5. CASE PutSyncDirectory(w)
    <3>1. PICK k \in Objects : PutAt(w, k) /\ Key(w) = k /\ DirectoryOf[k] \in Directories
      BY Zenon, <2>5, <2>p DEF PutSyncDirectory, Putting
    <3>2. wr'[w] = [wr[w] EXCEPT !.pc = "write"]
      BY Zenon, <2>5, <2>t DEF PutSyncDirectory, Goto
    <3>3. wr'[w].pc = "write" /\ wr'[w].object = {k}
      BY Zenon, <3>1, <3>2, <2>t DEF PutAt, WriterState
    <3>4. dirs'[DirectoryOf[k]] # "absent"
      BY Zenon, <2>5, <3>1, <2>f DEF PutSyncDirectory, PutAt, DiskGrows
    <3> QED BY Zenon, <3>3, <3>4 DEF PutAt
  <2>6. CASE PutWrite(w)
    <3>1. PICK k \in Objects : PutAt(w, k) /\ Key(w) = k /\ DirectoryOf[k] \in Directories
      BY Zenon, <2>6, <2>p DEF PutWrite, Putting
    <3>2. wr'[w] = [wr[w] EXCEPT !.pc = "link"]
      BY Zenon, <2>6, <2>t DEF PutWrite, Goto
    <3>3. wr'[w].pc = "link" /\ wr'[w].object = {k}
      BY Zenon, <3>1, <3>2, <2>t DEF PutAt, WriterState
    <3>4. dirs'[DirectoryOf[k]] # "absent" /\ k \in flushed'
      BY Zenon, <2>6, <3>1 DEF PutWrite, PutAt
    <3> QED BY Zenon, <3>3, <3>4 DEF PutAt
  <2>7. CASE PutLink(w)
    <3>1. PICK k \in Objects : PutAt(w, k) /\ Key(w) = k /\ DirectoryOf[k] \in Directories
      BY Zenon, <2>7, <2>p DEF PutLink, Putting
    <3>2. wr'[w] = [wr[w] EXCEPT !.pc = "sync"]
      BY Zenon, <2>7, <2>t DEF PutLink, Goto
    <3>3. wr'[w].pc = "sync" /\ wr'[w].object = {k}
      BY Zenon, <3>1, <3>2, <2>t DEF PutAt, WriterState
    <3>4. dirs'[DirectoryOf[k]] # "absent" /\ k \in flushed'
      BY Zenon, <2>7, <3>1 DEF PutLink, PutAt
    <3>5. entry'[k] # "absent"
      BY Zenon, <2>7, <3>1 DEF PutLink, TypeOK
    <3> QED BY Zenon, <3>3, <3>4, <3>5 DEF PutAt
  <2>8. ASSUME PutSync(w) PROVE FALSE
    <3>1. wr'[w].pc = "put"
      BY Zenon, <2>8, <2>t, StoredStep DEF PutSync
    <3> QED BY Zenon, <3>1 DEF Putting
  <2>9. ASSUME PutsDone(w) \/ CasLock(w) \/ CasCompare(w) \/ CasRename(w) \/ CasSync(w) PROVE FALSE
    BY <2>9, <2>t DEF PutsDone, CasLock, CasCompare, CasRename, CasSync, Goto, Putting, WriterState
  <2>10. ASSUME CasRefused(w) \/ CasUnlock(w) \/ Kill(w) PROVE FALSE
    BY <2>10, <2>t DEF CasRefused, CasUnlock, Kill, IdleWriter, Putting
  <2> QED BY Zenon, <1>w, <2>1, <2>2, <2>3, <2>4, <2>5, <2>6, <2>7, <2>8, <2>9, <2>10 DEF WriterSteps
<1>p. ASSUME NEW keptDirs, NEW keptEntries, NEW h, PowerFailure(keptDirs, keptEntries, h) PROVE PutInv'
  BY Zenon, <1>p DEF PowerFailure, PutInv, IdleWriter, Putting
<1>u. CASE UNCHANGED vars
  BY Zenon, <1>u DEF vars, PutInv, PutAt
<1> QED BY Zenon, <1>w, <1>p, <1>u, NextSplit

\* No step breaks the order of flush, link and sync.
LEMMA EntryStep == TypeOK /\ PutInv /\ EntryInv /\ [Next]_vars => EntryInv'
<1> SUFFICES ASSUME TypeOK, PutInv, EntryInv, [Next]_vars PROVE EntryInv'
  BY Zenon
<1> USE FsAssumption
<1>w. ASSUME NEW w \in Writers, WriterSteps(w) PROVE EntryInv'
  <2>p. ASSUME wr[w].pc \in Putting
        PROVE  \E k \in Objects : PutAt(w, k) /\ Key(w) = k /\ DirectoryOf[k] \in Directories
    BY Zenon, <2>p, KeyIs DEF PutInv, PutAt
  <2>1. CASE UNCHANGED <<dirs, entry, flushed>>
    BY Zenon, <2>1 DEF EntryInv
  <2>2. CASE PutMakeDirectory(w)
    BY Zenon, <2>2 DEF PutMakeDirectory, EntryInv, TypeOK
  <2>3. CASE PutSyncDirectory(w) \/ PutSync(w)
    BY Zenon, <2>3 DEF PutSyncDirectory, PutSync, sync_path_directories, SyncedDirs, SyncedEntries, EntryInv, TypeOK
  <2>4. CASE PutWrite(w)
    BY Zenon, <2>4 DEF PutWrite, EntryInv
  <2>5. CASE PutLink(w)
    <3>1. PICK k \in Objects : PutAt(w, k) /\ Key(w) = k /\ DirectoryOf[k] \in Directories
      BY Zenon, <2>5, <2>p DEF PutLink, Putting
    <3>2. k \in flushed /\ dirs[DirectoryOf[k]] # "absent"
      BY Zenon, <2>5, <3>1 DEF PutLink, PutAt
    <3> QED BY Zenon, <2>5, <3>1, <3>2 DEF PutLink, EntryInv, TypeOK
  <2> QED BY Zenon, <1>w, <2>1, <2>2, <2>3, <2>4, <2>5
          DEF WriterSteps, Begin, PutExisting, PutNew, PutsDone, CasLock, CasCompare, CasRefused, CasRename,
              CasSync, CasUnlock, Kill
<1>p. ASSUME NEW keptDirs, NEW keptEntries \in SUBSET {k \in Objects : entry[k] = "volatile"},
             NEW h, PowerFailure(keptDirs, keptEntries, h)
      PROVE EntryInv'
  BY Zenon, <1>p DEF PowerFailure, EntryInv
<1>u. CASE UNCHANGED vars
  BY Zenon, <1>u DEF vars, EntryInv
<1> QED BY Zenon, <1>w, <1>p, <1>u DEF Next, WriterSteps

\* What is kept stays kept: a power failure spares durable entries in durable
\* directories.
LEMMA KeptStays ==
    ASSUME TypeOK, EntryInv, [Next]_vars, NEW k \in Objects, Kept(k)
    PROVE  Kept(k)'
<1> USE FsAssumption DEF Kept, Durable
<1>w. ASSUME NEW w \in Writers, WriterSteps(w) PROVE Kept(k)'
  BY Zenon, <1>w, WriterFrame DEF DiskGrows
<1>p. ASSUME NEW keptDirs, NEW keptEntries, NEW h, PowerFailure(keptDirs, keptEntries, h) PROVE Kept(k)'
  BY Zenon, <1>p DEF PowerFailure
<1>u. CASE UNCHANGED vars
  BY Zenon, <1>u DEF vars
<1> QED BY Zenon, <1>w, <1>p, <1>u, NextSplit

\* No head is renamed into place that refers to an object that may be lost.
LEMMA KeptStep ==
    TypeOK /\ PutInv /\ EntryInv /\ head \in onDisk /\ KeptInv /\ [Next]_vars => KeptInv'
<1> SUFFICES ASSUME TypeOK, PutInv, EntryInv, head \in onDisk, KeptInv, [Next]_vars PROVE KeptInv'
  BY Zenon
<1>k. \A k \in Objects : Kept(k) => Kept(k)'
  BY Zenon, KeptStays
<1>h. \A h \in onDisk : \A k \in h.refs : k \in Objects /\ Kept(k)
  BY Zenon DEF KeptInv, HeadObjectsDurableOrTrusted, Kept, TypeOK, HeadFile
<1>d. \A w \in Writers : \A k \in wr[w].done \cup wr[w].expected.refs : k \in Objects /\ Kept(k)
  BY Zenon DEF KeptInv, TypeOK, WriterState, HeadFile
<1> SUFFICES /\ \A h \in onDisk' : \A k \in h.refs : k \in Objects /\ (Kept(k) \/ Kept(k)')
             /\ \A w \in Writers : \A k \in wr'[w].done \cup wr'[w].expected.refs :
                    k \in Objects /\ (Kept(k) \/ Kept(k)')
  BY Zenon, <1>k DEF KeptInv, HeadObjectsDurableOrTrusted, Kept
<1>i. IdleWriter.done = {} /\ IdleWriter.expected.refs = {}
  BY Zenon, IdleEmpty
<1>w. ASSUME NEW w \in Writers, WriterSteps(w)
      PROVE  /\ \A h \in onDisk' : \A k \in h.refs : k \in Objects /\ (Kept(k) \/ Kept(k)')
             /\ \A k \in wr'[w].done \cup wr'[w].expected.refs : k \in Objects /\ (Kept(k) \/ Kept(k)')
  <2>t. wr \in [Writers -> WriterState] /\ wr[w] \in WriterState
    BY Zenon DEF TypeOK
  <2>1. ASSUME NEW output \in SUBSET Objects \ {{}}, Begin(w, output)
        PROVE  onDisk' = onDisk /\ wr'[w].done = {} /\ wr'[w].expected = head
    BY Zenon, <2>1, <2>t DEF Begin
  <2>2. ASSUME NEW k \in Objects, PutExisting(w, k)
        PROVE  /\ onDisk' = onDisk /\ wr'[w].done = wr[w].done \cup {k}
               /\ wr'[w].expected = wr[w].expected /\ Kept(k)'
    <3>1. /\ onDisk' = onDisk /\ wr'[w].done = wr[w].done \cup {k}
          /\ wr'[w].expected = wr[w].expected
      BY Zenon, <2>2, <2>t DEF PutExisting, WriterState
    <3>2. Kept(k)'
      BY Zenon, <2>2 DEF PutExisting, Kept, Durable, EntryInv, TypeOK, EntryState
    <3> QED BY Zenon, <3>1, <3>2
  <2>3. ASSUME \/ \E k \in Objects : PutNew(w, k)
               \/ PutMakeDirectory(w) \/ PutSyncDirectory(w) \/ PutWrite(w) \/ PutLink(w)
               \/ PutsDone(w) \/ CasLock(w) \/ CasCompare(w) \/ CasRename(w) \/ CasSync(w)
        PROVE  wr'[w].done = wr[w].done /\ wr'[w].expected = wr[w].expected
    BY <2>3, <2>t DEF PutNew, PutMakeDirectory, PutSyncDirectory, PutWrite, PutLink, PutsDone, CasLock,
       CasCompare, CasRename, CasSync, Goto, WriterState
  <2>4. ASSUME \/ \E k \in Objects : PutNew(w, k)
               \/ PutMakeDirectory(w) \/ PutSyncDirectory(w) \/ PutWrite(w) \/ PutLink(w)
               \/ PutsDone(w) \/ CasLock(w) \/ CasCompare(w)
        PROVE  onDisk' = onDisk
    BY Zenon, <2>4 DEF PutNew, PutMakeDirectory, PutSyncDirectory, PutWrite, PutLink, PutsDone, CasLock, CasCompare
  <2>5. ASSUME PutSync(w)
        PROVE  /\ onDisk' = onDisk /\ wr'[w].expected = wr[w].expected
               /\ \A k \in wr'[w].done : k \in Objects /\ (Kept(k) \/ Kept(k)')
    <3>1. PICK k \in Objects : PutAt(w, k) /\ Key(w) = k /\ DirectoryOf[k] \in Directories
      BY Zenon, <2>5, KeyIs, FsAssumption DEF PutInv, PutAt, PutSync, Putting
    <3>2. entry[k] # "absent" /\ dirs[DirectoryOf[k]] # "absent" /\ wr[w].object = {k}
      BY Zenon, <2>5, <3>1 DEF PutSync, PutAt
    <3>3. Kept(k)'
      BY Zenon, <2>5, <3>1, <3>2 DEF PutSync, sync_path_directories, SyncedDirs, SyncedEntries, Kept, Durable,
         TypeOK, EntryState
    <3>4. wr'[w].done = wr[w].done \cup {k} /\ wr'[w].expected = wr[w].expected
      BY Zenon, <2>5, <2>t, <3>2, StoredStep DEF PutSync
    <3>5. onDisk' = onDisk
      BY Zenon, <2>5 DEF PutSync
    <3> QED BY Zenon, <3>1, <3>3, <3>4, <3>5, <1>d
  <2>6. ASSUME CasRename(w)
        PROVE  \A h \in onDisk' : \A k \in h.refs : k \in Objects /\ Kept(k)
    <3>1. onDisk' = onDisk \cup {NextHead(w)}
      BY Zenon, <2>6 DEF CasRename
    <3>2. NextHead(w).refs = wr[w].expected.refs \cup wr[w].done
      BY Zenon DEF NextHead
    <3> QED BY Zenon, <3>1, <3>2, <1>h, <1>d
  <2>7. ASSUME CasSync(w) PROVE onDisk' = {head}
    BY Zenon, <2>7 DEF CasSync
  <2>8. ASSUME CasRefused(w) \/ CasUnlock(w) \/ Kill(w)
        PROVE  onDisk' = onDisk /\ wr'[w] = IdleWriter
    BY Zenon, <2>8, <2>t DEF CasRefused, CasUnlock, Kill
  <2>9. ASSUME onDisk' \subseteq onDisk
        PROVE  \A h \in onDisk' : \A k \in h.refs : k \in Objects /\ Kept(k)
    BY Zenon, <2>9, <1>h
  <2>10. ASSUME wr'[w].done = wr[w].done, wr'[w].expected = wr[w].expected
         PROVE  \A k \in wr'[w].done \cup wr'[w].expected.refs : k \in Objects /\ Kept(k)
    BY Zenon, <2>10, <1>d
  <2>a. CASE \E output \in SUBSET Objects \ {{}} : Begin(w, output)
    BY Zenon, <2>a, <2>1, <2>9, <1>h
  <2>b. CASE \E k \in Objects : PutExisting(w, k)
    BY <2>b, <2>2, <2>9, <1>d
  <2>c. CASE \/ \E k \in Objects : PutNew(w, k)
             \/ PutMakeDirectory(w) \/ PutSyncDirectory(w) \/ PutWrite(w) \/ PutLink(w)
             \/ PutsDone(w) \/ CasLock(w) \/ CasCompare(w)
    BY Zenon, <2>c, <2>3, <2>4, <2>9, <2>10
  <2>d. CASE PutSync(w)
    BY Zenon, <2>d, <2>5, <2>9, <1>d
  <2>e. CASE CasRename(w)
    BY Zenon, <2>e, <2>3, <2>6, <2>10
  <2>f. CASE CasSync(w)
    BY Zenon, <2>f, <2>3, <2>7, <2>9, <2>10
  <2>g. CASE CasRefused(w) \/ CasUnlock(w) \/ Kill(w)
    BY Zenon, <2>g, <2>8, <2>9, <1>i
  <2> QED BY Zenon, <1>w, <2>a, <2>b, <2>c, <2>d, <2>e, <2>f, <2>g DEF WriterSteps
<1>v. ASSUME NEW w \in Writers, WriterSteps(w), NEW v \in Writers, v # w PROVE wr'[v] = wr[v]
  BY Zenon, <1>v, WriterFrame
<1>p. ASSUME NEW keptDirs, NEW keptEntries, NEW h \in onDisk, PowerFailure(keptDirs, keptEntries, h)
      PROVE  onDisk' = {h} /\ \A w \in Writers : wr'[w] = IdleWriter
  BY Zenon, <1>p DEF PowerFailure
<1>u. ASSUME UNCHANGED vars PROVE onDisk' = onDisk /\ wr' = wr
  BY Zenon, <1>u DEF vars
<1>1. CASE \E w \in Writers : WriterSteps(w)
  BY Zenon, <1>1, <1>w, <1>v, <1>d
<1>2. CASE \E keptDirs \in SUBSET Directories, keptEntries \in SUBSET Objects, h \in onDisk :
              PowerFailure(keptDirs, keptEntries, h)
  BY <1>2, <1>p, <1>h, <1>i
<1>3. CASE UNCHANGED vars
  BY Zenon, <1>3, <1>u, <1>h, <1>d
<1> QED BY Zenon, <1>1, <1>2, <1>3, NextSplit

\* The lock keeps the head still from compare to unlock, and a swap is
\* acknowledged when its head is the only one a power failure can bring back.
LEMMA SwapStep == TypeOK /\ SwapInv /\ [Next]_vars => SwapInv'
<1> SUFFICES ASSUME TypeOK, SwapInv, [Next]_vars PROVE SwapInv'
  OBVIOUS
<1> USE FsAssumption
<1>w. ASSUME NEW w \in Writers, WriterSteps(w) PROVE SwapInv'
  <2>t. wr \in [Writers -> WriterState] /\ wr[w] \in WriterState
    BY Zenon DEF TypeOK
  <2>v. \A v \in Writers : v # w => wr'[v] = wr[v]
    BY Zenon, <1>w, WriterFrame
  <2>n. \A v \in Writers : wr[v].expected \in HeadFile
    BY Zenon DEF TypeOK, WriterState
  <2>1. CASE \/ \E output \in SUBSET Objects \ {{}} : Begin(w, output)
             \/ \E k \in Objects : PutExisting(w, k) \/ PutNew(w, k)
             \/ PutMakeDirectory(w) \/ PutSyncDirectory(w) \/ PutWrite(w) \/ PutLink(w)
             \/ PutSync(w) \/ PutsDone(w)
    <3>1. wr'[w].pc \notin Swapping
      <4>1. CASE \E output \in SUBSET Objects \ {{}} : Begin(w, output)
        BY <4>1, <2>t DEF Begin, Swapping
      <4>2. CASE \E k \in Objects : PutExisting(w, k) \/ PutNew(w, k)
        BY <4>2, <2>t DEF PutExisting, PutNew, Swapping, WriterState
      <4>3. CASE PutMakeDirectory(w) \/ PutSyncDirectory(w) \/ PutWrite(w) \/ PutLink(w) \/ PutsDone(w)
        BY <4>3, <2>t DEF PutMakeDirectory, PutSyncDirectory, PutWrite, PutLink, PutsDone, Goto,
           Swapping, WriterState
      <4>4. CASE PutSync(w)
        <5>1. wr'[w].pc = "put"
          BY Zenon, <4>4, <2>t, StoredStep DEF PutSync
        <5> QED BY Zenon, <5>1 DEF Swapping
      <4> QED BY Zenon, <2>1, <4>1, <4>2, <4>3, <4>4
    <3>2. UNCHANGED <<head, onDisk, lock, acked>>
      BY Zenon, <2>1 DEF Begin, PutExisting, PutNew, PutMakeDirectory, PutSyncDirectory, PutWrite, PutLink,
         PutSync, PutsDone
    <3> QED BY Zenon, <3>1, <3>2, <2>v DEF SwapInv, AckedHeadSurvives, NextHead, Swapping
  <2>2. CASE CasLock(w)
    <3>1. wr'[w].pc = "compare" /\ lock = Nobody /\ lock' = w /\ UNCHANGED <<head, onDisk, acked>>
      BY Zenon, <2>2, <2>t DEF CasLock, Goto, WriterState
    <3>2. \A v \in Writers : v # w => wr'[v] = wr[v] /\ wr[v].pc \notin Swapping
      BY Zenon, <2>v, <3>1 DEF SwapInv
    <3> QED BY Zenon, <3>1, <3>2 DEF SwapInv, AckedHeadSurvives, NextHead, Swapping
  <2>3. CASE CasCompare(w)
    <3>1. /\ wr'[w].pc = "rename" /\ wr'[w].expected = wr[w].expected /\ head = wr[w].expected
          /\ wr[w].pc = "compare" /\ UNCHANGED <<head, onDisk, lock, acked>>
      BY Zenon, <2>3, <2>t DEF CasCompare, Goto, WriterState
    <3> QED BY Zenon, <3>1, <2>v DEF SwapInv, AckedHeadSurvives, NextHead, Swapping
  <2>4. CASE CasRename(w)
    <3>1. /\ wr'[w].pc = "synchead" /\ wr'[w].expected = wr[w].expected /\ wr'[w].done = wr[w].done
          /\ wr[w].pc = "rename" /\ head' = NextHead(w) /\ onDisk' = onDisk \cup {NextHead(w)}
          /\ UNCHANGED <<lock, acked>>
      BY Zenon, <2>4, <2>t DEF CasRename, Goto, WriterState
    <3>2. lock = w /\ head = wr[w].expected
      BY Zenon, <3>1 DEF SwapInv, Swapping
    <3>3. \A v \in Writers : v # w => wr'[v] = wr[v] /\ wr[v].pc \notin Swapping
      BY Zenon, <2>v, <3>2 DEF SwapInv
    <3>4. NextHead(w)' = NextHead(w)
      BY Zenon, <3>1 DEF NextHead
    <3>5. NextHead(w).version >= acked
      <4>1. head.version >= acked /\ head.version \in Nat /\ acked \in Nat
        BY Zenon DEF SwapInv, AckedHeadSurvives, TypeOK, HeadFile
      <4>2. NextHead(w).version = head.version + 1
        BY Zenon, <3>2 DEF NextHead
      <4> QED BY <4>1, <4>2
    <3> QED BY Zenon, <3>1, <3>2, <3>3, <3>4, <3>5 DEF SwapInv, AckedHeadSurvives, Swapping
  <2>5. CASE CasSync(w)
    <3>1. /\ wr'[w].pc = "unlock" /\ wr'[w].expected = wr[w].expected /\ wr'[w].done = wr[w].done
          /\ wr[w].pc = "synchead" /\ onDisk' = {head} /\ UNCHANGED <<head, lock, acked>>
      BY Zenon, <2>5, <2>t DEF CasSync, Goto, WriterState
    <3>2. lock = w /\ head = NextHead(w)
      BY Zenon, <3>1 DEF SwapInv, Swapping
    <3>3. \A v \in Writers : v # w => wr'[v] = wr[v] /\ wr[v].pc \notin Swapping
      BY Zenon, <2>v, <3>2 DEF SwapInv
    <3>4. NextHead(w)' = NextHead(w)
      BY Zenon, <3>1 DEF NextHead
    <3> QED BY Zenon, <3>1, <3>2, <3>3, <3>4 DEF SwapInv, AckedHeadSurvives, Swapping
  <2>6. CASE CasUnlock(w)
    <3>1. /\ wr'[w].pc = "idle" /\ wr[w].pc = "unlock" /\ acked' = NextHead(w).version
          /\ UNCHANGED <<head, onDisk>>
      BY Zenon, <2>6, <2>t DEF CasUnlock, IdleWriter
    <3>2. lock = w /\ head = NextHead(w) /\ onDisk = {head}
      BY Zenon, <3>1 DEF SwapInv, Swapping
    <3>3. \A v \in Writers : v # w => wr'[v] = wr[v] /\ wr[v].pc \notin Swapping
      BY Zenon, <2>v, <3>2 DEF SwapInv
    <3>4. head.version \in Nat
      BY Zenon DEF TypeOK, HeadFile
    <3> QED BY <3>1, <3>2, <3>3, <3>4 DEF SwapInv, AckedHeadSurvives, Swapping
  <2>7. CASE CasRefused(w) \/ Kill(w)
    <3>1. wr'[w].pc = "idle" /\ UNCHANGED <<head, onDisk, acked>>
      BY <2>7, <2>t DEF CasRefused, Kill, IdleWriter
    <3>2. \A v \in Writers : v # w /\ wr[v].pc \in Swapping => lock' = v
      <4>1. \A v \in Writers : wr[v].pc \in Swapping => lock = v
        BY Zenon DEF SwapInv
      <4>2. CASE CasRefused(w)
        <5>1. wr[w].pc \in Swapping
          BY Zenon, <4>2 DEF CasRefused, Swapping
        <5> QED BY Zenon, <4>1, <5>1
      <4>3. CASE Kill(w)
        BY Zenon, <4>1, <4>3 DEF Kill
      <4> QED BY Zenon, <2>7, <4>2, <4>3
    <3> QED BY Zenon, <3>1, <3>2, <2>v DEF SwapInv, AckedHeadSurvives, NextHead, Swapping
  <2> QED BY Zenon, <1>w, <2>1, <2>2, <2>3, <2>4, <2>5, <2>6, <2>7 DEF WriterSteps
<1>p. ASSUME NEW keptDirs, NEW keptEntries, NEW h \in onDisk, PowerFailure(keptDirs, keptEntries, h)
      PROVE SwapInv'
  <2>1. head' = h /\ onDisk' = {h} /\ acked' = acked /\ \A w \in Writers : wr'[w] = IdleWriter
    BY Zenon, <1>p DEF PowerFailure
  <2>2. \A w \in Writers : wr'[w].pc = "idle"
    BY <2>1 DEF IdleWriter
  <2>3. \A w \in Writers : wr'[w].pc \notin Swapping /\ wr'[w].pc \notin {"rename", "synchead", "unlock"}
    BY Zenon, <2>2 DEF Swapping
  <2>4. AckedHeadSurvives'
    BY Zenon, <2>1, <1>p DEF SwapInv, AckedHeadSurvives
  <2> QED BY Zenon, <2>1, <2>3, <2>4 DEF SwapInv
<1>u. CASE UNCHANGED vars
  BY Zenon, <1>u DEF vars, SwapInv, AckedHeadSurvives, NextHead
<1> QED BY Zenon, <1>w, <1>p, <1>u, NextSplit

\* Contents are flushed before they get a name.
LEMMA TornStep == EntryInv /\ torn = {} /\ [Next]_vars => torn' = {}
<1> SUFFICES ASSUME EntryInv, torn = {}, [Next]_vars PROVE torn' = {}
  BY Zenon
<1>w. ASSUME NEW w \in Writers, WriterSteps(w) PROVE torn' = torn
  BY Zenon, <1>w DEF WriterSteps, Begin, PutExisting, PutNew, PutMakeDirectory, PutSyncDirectory, PutWrite,
     PutLink, PutSync, PutsDone, CasLock, CasCompare, CasRefused, CasRename, CasSync, CasUnlock, Kill
<1>p. ASSUME NEW keptDirs, NEW keptEntries \in SUBSET {k \in Objects : entry[k] = "volatile"},
             NEW h, PowerFailure(keptDirs, keptEntries, h)
      PROVE torn' = {}
  BY Zenon, <1>p DEF PowerFailure, EntryInv
<1>u. CASE UNCHANGED vars
  BY Zenon, <1>u DEF vars
<1> QED BY Zenon, <1>w, <1>p, <1>u DEF Next, WriterSteps

-----------------------------------------------------------------------------

IInv == TypeOK /\ PutInv /\ EntryInv /\ KeptInv /\ SwapInv /\ torn = {}

\* The invariant holds in every reachable state.
LEMMA Inductive == Spec => []IInv
<1>1. Init => IInv
  <2> SUFFICES ASSUME Init PROVE IInv
    BY Zenon
  <2>1. PutInv /\ EntryInv
    BY Zenon DEF Init, IdleWriter, PutInv, EntryInv, Putting
  <2>2. KeptInv
    BY DEF Init, IdleWriter, NoHead, KeptInv, HeadObjectsDurableOrTrusted
  <2>3. SwapInv
    BY DEF Init, IdleWriter, NoHead, SwapInv, AckedHeadSurvives, Swapping
  <2> QED BY Zenon, <2>1, <2>2, <2>3, TypeInit DEF IInv, Init
<1>2. IInv /\ [Next]_vars => IInv'
  BY Zenon, TypeStep, PutStep, EntryStep, KeptStep, SwapStep, TornStep DEF IInv, SwapInv
<1> QED BY <1>1, <1>2, PTL DEF Spec

\* Whatever head a power failure brings back, all objects it refers to come back,
\* but for those a put took for stored too early.
THEOREM ObjectsSurvive == Spec => []HeadObjectsDurableOrTrusted
<1>1. IInv => HeadObjectsDurableOrTrusted
  BY Zenon DEF IInv, KeptInv
<1> QED BY <1>1, Inductive, PTL

\* put_immutable never leaves torn contents under an object's name.
THEOREM NothingTorn == Spec => []NoTornObject
<1>1. IInv => NoTornObject
  BY Zenon DEF IInv, NoTornObject
<1> QED BY <1>1, Inductive, PTL

\* A swap that compare_and_swap reported as successful survives power failures and
\* every competing swap.
THEOREM AcknowledgedSurvives == Spec => []AckedHeadSurvives
<1>1. IInv => AckedHeadSurvives
  BY Zenon DEF IInv, SwapInv
<1> QED BY <1>1, Inductive, PTL

\* Heads follow each other one version at a time, and only power failures take
\* back unacknowledged ones.
THEOREM HeadsLinear == Spec => SwapsLinear
<1> DEFINE Linear == \/ head' = head
                     \/ head'.version = head.version + 1 /\ head.refs \subseteq head'.refs
                     \/ head' \in onDisk /\ head'.version >= acked
<1>1. IInv /\ [Next]_vars => [Linear]_vars
  <2> SUFFICES ASSUME IInv, [Next]_vars PROVE Linear
    BY Zenon
  <2>1. ASSUME NEW w \in Writers, CasRename(w) PROVE Linear
    <3>1. head = wr[w].expected /\ head' = NextHead(w)
      BY Zenon, <2>1 DEF CasRename, IInv, SwapInv
    <3> QED BY Zenon, <3>1 DEF NextHead
  <2>2. ASSUME NEW w \in Writers, WriterSteps(w), ~CasRename(w) PROVE Linear
    BY Zenon, <2>2 DEF WriterSteps, Begin, PutExisting, PutNew, PutMakeDirectory, PutSyncDirectory, PutWrite,
       PutLink, PutSync, PutsDone, CasLock, CasCompare, CasRefused, CasSync, CasUnlock, Kill
  <2>3. ASSUME NEW keptDirs, NEW keptEntries, NEW h \in onDisk, PowerFailure(keptDirs, keptEntries, h)
        PROVE Linear
    BY Zenon, <2>3 DEF PowerFailure, IInv, SwapInv, AckedHeadSurvives
  <2>4. CASE UNCHANGED vars
    BY Zenon, <2>4 DEF vars
  <2> QED BY Zenon, <2>1, <2>2, <2>3, <2>4, NextSplit
<1> QED BY <1>1, Inductive, PTL DEF Spec, SwapsLinear
===============================================================================
