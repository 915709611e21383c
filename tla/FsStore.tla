------------------------------- MODULE FsStore --------------------------------
(***************************************************************************)
(* The file-system store (src/store.rs FsArchiveStore) under process kills  *)
(* and power failures.  Writers put immutable objects, each a temporary     *)
(* file that is flushed and linked to its name, and then swap the head, a   *)
(* file replaced by rename under an exclusive lock.                         *)
(*                                                                         *)
(* A directory entry that was created but not yet synced is volatile: every *)
(* process sees it, and a power failure may or may not keep it.             *)
(***************************************************************************)
EXTENDS Integers, FiniteSets

CONSTANTS
    Objects,      \* keys of immutable objects; a key names its contents
    Directories,  \* the directories below the store root that hold them
    DirectoryOf,  \* the directory of each key
    Writers, Nobody,
    MaxVersion,   \* bound on head swaps
    MaxFailures   \* bound on kills and power failures

ASSUME FsAssumption ==
    /\ DirectoryOf \in [Objects -> Directories]
    /\ Nobody \notin Writers
    /\ MaxVersion \in Nat /\ MaxFailures \in Nat

VARIABLES
    dirs,      \* state of each directory's own entry
    entry,     \* state of each object's entry in its directory
    flushed,   \* objects whose contents were synced before they were linked
    torn,      \* objects a power failure left with incomplete contents
    head,      \* the head file: its version and the objects it refers to
    onDisk,    \* heads that a power failure now may bring back
    lock,      \* holder of .fossil-publish.lock
    wr,        \* each writer's calls
    acked,     \* version of the latest head whose swap returned Ok
    trusted,   \* objects taken for stored when their entry was still volatile
    failures

vars == <<dirs, entry, flushed, torn, head, onDisk, lock, wr, acked, trusted, failures>>

EntryState == {"absent", "volatile", "durable"}
HeadState == [version : 0 .. MaxVersion, refs : SUBSET Objects]
NoHead == [version |-> 0, refs |-> {}]
IdleWriter == [pc |-> "idle", todo |-> {}, object |-> {}, done |-> {},
               expected |-> NoHead]

Init ==
    /\ dirs = [d \in Directories |-> "absent"]
    /\ entry = [k \in Objects |-> "absent"]
    /\ flushed = {} /\ torn = {} /\ trusted = {}
    /\ head = NoHead
    /\ onDisk = {NoHead}
    /\ lock = Nobody
    /\ wr = [w \in Writers |-> IdleWriter]
    /\ acked = 0
    /\ failures = 0

-----------------------------------------------------------------------------
(* Writers put their objects one by one. *)

\* `object` holds the key of the put in progress, if any.
Key(w) == CHOOSE k \in Objects : wr[w].object = {k}

Goto(w, pc) == wr' = [wr EXCEPT ![w].pc = pc]

\* The put of one object has returned Ok.
Stored(w) ==
    wr' = [wr EXCEPT ![w].pc = "put", ![w].todo = @ \ wr[w].object,
                     ![w].object = {}, ![w].done = @ \cup wr[w].object]

\* Read the head that the new one will extend.
Begin(w, output) ==
    /\ wr[w].pc = "idle"
    /\ head.version < MaxVersion
    /\ wr' = [wr EXCEPT ![w] = [pc |-> "put", todo |-> output, object |-> {}, done |-> {},
                                expected |-> head]]
    /\ UNCHANGED <<dirs, entry, flushed, torn, head, onDisk, lock, acked, trusted, failures>>

\* put_immutable finds the path: equal contents are enough, nothing is synced.
\* Contents do agree, as a key is a digest and no object is torn (NoTornObject).
PutExisting(w, k) ==
    /\ wr[w].pc = "put" /\ k \in wr[w].todo
    /\ entry[k] # "absent"
    /\ wr' = [wr EXCEPT ![w].todo = @ \ {k}, ![w].done = @ \cup {k}]
    /\ trusted' = IF entry[k] = "volatile" THEN trusted \cup {k} ELSE trusted
    /\ UNCHANGED <<dirs, entry, flushed, torn, head, onDisk, lock, acked, failures>>

PutNew(w, k) ==
    /\ wr[w].pc = "put" /\ k \in wr[w].todo
    /\ entry[k] = "absent"
    /\ wr' = [wr EXCEPT ![w].pc = "mkdir", ![w].object = {k}]
    /\ UNCHANGED <<dirs, entry, flushed, torn, head, onDisk, lock, acked, trusted, failures>>

\* create_parent_directories: create_dir_all, ...
PutMakeDirectory(w) ==
    /\ wr[w].pc = "mkdir"
    /\ dirs' = [dirs EXCEPT ![DirectoryOf[Key(w)]] = IF @ = "absent" THEN "volatile" ELSE @]
    /\ Goto(w, "syncdir")
    /\ UNCHANGED <<entry, flushed, torn, head, onDisk, lock, acked, trusted, failures>>

\* ... then a sync of every directory from the root to the leaf: of those above
\* the object's, which hold the directories of all objects, and of its own.
SyncedDirs == [d \in Directories |-> IF dirs[d] = "absent" THEN "absent" ELSE "durable"]
SyncedEntries(dir) ==
    [k \in Objects |-> IF DirectoryOf[k] = dir /\ entry[k] = "volatile" THEN "durable"
                       ELSE entry[k]]

sync_path_directories(k) ==
    /\ dirs' = SyncedDirs
    /\ entry' = SyncedEntries(DirectoryOf[k])

PutSyncDirectory(w) ==
    /\ wr[w].pc = "syncdir"
    /\ sync_path_directories(Key(w))
    /\ Goto(w, "write")
    /\ UNCHANGED <<flushed, torn, head, onDisk, lock, acked, trusted, failures>>

\* Variant: the temporary file is not flushed.
PutWrite_Unflushed(w) ==
    /\ wr[w].pc = "write"
    /\ Goto(w, "link")
    /\ UNCHANGED <<dirs, entry, flushed, torn, head, onDisk, lock, acked, trusted, failures>>

\* Write the temporary file and flush its contents.
PutWrite(w) ==
    /\ wr[w].pc = "write"
    /\ Goto(w, "link")
    /\ flushed' = flushed \cup {Key(w)}
    /\ UNCHANGED <<dirs, entry, torn, head, onDisk, lock, acked, trusted, failures>>

\* persist_noclobber: link the name, or find that another writer has.
PutLink(w) ==
    /\ wr[w].pc = "link"
    /\ entry' = [entry EXCEPT ![Key(w)] = IF @ = "absent" THEN "volatile" ELSE @]
    /\ Goto(w, "sync")
    /\ UNCHANGED <<dirs, flushed, torn, head, onDisk, lock, acked, trusted, failures>>

\* Variant: the directories are not synced again after the link.
PutSync_Skipped(w) ==
    /\ wr[w].pc = "sync"
    /\ Stored(w)
    /\ UNCHANGED <<dirs, entry, flushed, torn, head, onDisk, lock, acked, trusted, failures>>

PutSync(w) ==
    /\ wr[w].pc = "sync"
    /\ sync_path_directories(Key(w))
    /\ Stored(w)
    /\ UNCHANGED <<flushed, torn, head, onDisk, lock, acked, trusted, failures>>

-----------------------------------------------------------------------------
(* compare_and_swap *)

PutsDone(w) ==
    /\ wr[w].pc = "put" /\ wr[w].todo = {}
    /\ Goto(w, "lock")
    /\ UNCHANGED <<dirs, entry, flushed, torn, head, onDisk, lock, acked, trusted, failures>>

\* Variant: a shared lock.
CasLock_Shared(w) ==
    /\ wr[w].pc = "lock"
    /\ lock' = w
    /\ Goto(w, "compare")
    /\ UNCHANGED <<dirs, entry, flushed, torn, head, onDisk, acked, trusted, failures>>

\* The lock file is created and the root synced before the lock is taken.  The
\* root holds no object's directory: those are deeper (`object_key`).
CasLock(w) ==
    /\ wr[w].pc = "lock"
    /\ lock = Nobody
    /\ lock' = w
    /\ Goto(w, "compare")
    /\ UNCHANGED <<dirs, entry, flushed, torn, head, onDisk, acked, trusted, failures>>

\* The version of a head is the digest of its contents.
CasCompare(w) ==
    /\ wr[w].pc = "compare"
    /\ head = wr[w].expected
    /\ Goto(w, "rename")
    /\ UNCHANGED <<dirs, entry, flushed, torn, head, onDisk, lock, acked, trusted, failures>>

CasRefused(w) ==
    /\ wr[w].pc = "compare"
    /\ head # wr[w].expected
    /\ lock' = Nobody
    /\ wr' = [wr EXCEPT ![w] = IdleWriter]
    /\ UNCHANGED <<dirs, entry, flushed, torn, head, onDisk, acked, trusted, failures>>

NextHead(w) == [version |-> wr[w].expected.version + 1,
                refs |-> wr[w].expected.refs \cup wr[w].done]

\* atomic_write: the head's directories are made and synced, and the new
\* file is flushed before it replaces the old one.
CasRename(w) ==
    /\ wr[w].pc = "rename"
    /\ head' = NextHead(w)
    /\ onDisk' = onDisk \cup {NextHead(w)}
    /\ Goto(w, "synchead")
    /\ UNCHANGED <<dirs, entry, flushed, torn, lock, acked, trusted, failures>>

\* Variant: no sync after the rename.
CasSync_Skipped(w) ==
    /\ wr[w].pc = "synchead"
    /\ Goto(w, "unlock")
    /\ UNCHANGED <<dirs, entry, flushed, torn, head, onDisk, lock, acked, trusted, failures>>

CasSync(w) ==
    /\ wr[w].pc = "synchead"
    /\ onDisk' = {head}
    /\ Goto(w, "unlock")
    /\ UNCHANGED <<dirs, entry, flushed, torn, head, lock, acked, trusted, failures>>

CasUnlock(w) ==
    /\ wr[w].pc = "unlock"
    /\ lock' = Nobody
    /\ acked' = NextHead(w).version
    /\ wr' = [wr EXCEPT ![w] = IdleWriter]
    /\ UNCHANGED <<dirs, entry, flushed, torn, head, onDisk, trusted, failures>>

-----------------------------------------------------------------------------
(* Failures *)

\* A writer is killed; the system releases its lock.
Kill(w) ==
    /\ failures < MaxFailures /\ failures' = failures + 1
    /\ wr[w].pc # "idle"
    /\ wr' = [wr EXCEPT ![w] = IdleWriter]
    /\ lock' = IF lock = w THEN Nobody ELSE lock
    /\ UNCHANGED <<dirs, entry, flushed, torn, head, onDisk, acked, trusted>>

\* Power fails: volatile entries survive or not, with their directory.
PowerFailure(keptDirs, keptEntries, h) ==
    LET alive == {d \in Directories : dirs[d] = "durable" \/ d \in keptDirs}
        left == {k \in Objects : /\ entry[k] = "durable" \/ k \in keptEntries
                                 /\ DirectoryOf[k] \in alive}
    IN
    /\ failures < MaxFailures /\ failures' = failures + 1
    /\ dirs' = [d \in Directories |-> IF d \in alive THEN "durable" ELSE "absent"]
    /\ entry' = [k \in Objects |-> IF k \in left THEN "durable" ELSE "absent"]
    /\ torn' = left \ flushed
    /\ flushed' = flushed \cap left
    /\ head' = h
    /\ onDisk' = {h}
    /\ lock' = Nobody
    /\ wr' = [w \in Writers |-> IdleWriter]
    /\ UNCHANGED <<acked, trusted>>

Next ==
    \/ \E w \in Writers :
         \/ \E output \in SUBSET Objects \ {{}} : Begin(w, output)
         \/ \E k \in Objects : PutExisting(w, k) \/ PutNew(w, k)
         \/ PutMakeDirectory(w)
         \/ PutSyncDirectory(w)
         \/ PutWrite(w)
         \/ PutLink(w)
         \/ PutSync(w)
         \/ PutsDone(w)
         \/ CasLock(w)
         \/ CasCompare(w)
         \/ CasRefused(w)
         \/ CasRename(w)
         \/ CasSync(w)
         \/ CasUnlock(w)
         \/ Kill(w)
    \/ \E keptDirs \in SUBSET {d \in Directories : dirs[d] = "volatile"} :
       \E keptEntries \in SUBSET {k \in Objects : entry[k] = "volatile"} :
       \E h \in onDisk : PowerFailure(keptDirs, keptEntries, h)

Spec == Init /\ [][Next]_vars

-----------------------------------------------------------------------------

Durable(k) == entry[k] = "durable" /\ dirs[DirectoryOf[k]] = "durable"

\* Whichever head a power failure brings back, its objects come back too: the
\* head is renamed only after every object it references is durable.  Excepted
\* are objects that some put took for stored because their path existed, before
\* the writer that linked it had synced the directory.
HeadObjectsDurableOrTrusted ==
    \A h \in onDisk : \A k \in h.refs : Durable(k) \/ k \in trusted

\* No power failure leaves an object with incomplete contents under its name.
NoTornObject == torn = {}

\* A head whose swap returned Ok is not rolled back by a power failure, nor by
\* a competing swap.
AckedHeadSurvives == \A h \in onDisk : h.version >= acked

\* The head changes by one version at a time, and only a power failure, before
\* the swap was acknowledged, takes it back.
SwapsLinear ==
    [][\/ head' = head
       \/ head'.version = head.version + 1 /\ head.refs \subseteq head'.refs
       \/ head' \in onDisk /\ head'.version >= acked]_vars
===============================================================================
