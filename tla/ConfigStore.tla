----------------------------- MODULE ConfigStore -----------------------------
(***************************************************************************)
(* The runtime configuration: RuntimeConfig (internal/config/runtime.go),  *)
(* its file, and the engine's copy of it, as the API handlers of           *)
(* internal/api/server.go and the SIGHUP loop of internal/app/app.go       *)
(* change them.                                                            *)
(*                                                                         *)
(* A configuration is the set of the edits it holds; making an edit again  *)
(* undoes it (an entry is added, then deleted).  rc.mu is modelled by its  *)
(* holders.  The file system is modelled by inodes, because WriteFile      *)
(* truncates and refills the file a path names at that moment and Rename   *)
(* moves the file, not its writers.                                        *)
(***************************************************************************)
EXTENDS Integers, FiniteSets

CONSTANTS
    Updaters,   \* API handler goroutines
    Edits,      \* what they may change
    EngineEdits,\* those of them that the routing engine reads
    Invalid,    \* the configurations validate refuses
    Inodes,     \* enough files for the path, the temp path and open writers
    Worlds,     \* what handlers may use and what may go wrong: see below
    None,       \* no holder, no file
    Partial     \* a file truncated or not filled yet: Load refuses it

OpNames == {"UpdateWithReconfigure", "TransactionalUpdate",
            "UpdateAndPersist", "Update"}

FaultNames == {"write", "rename", "undo", "build", "crash", "reload", "edit"}

WorldType == [ops : SUBSET OpNames, edits : SUBSET Edits,
              faults : SUBSET FaultNames]

ASSUME StoreAssumption ==
    /\ Worlds \subseteq WorldType
    /\ \A w \in Worlds : "edit" \in w.faults => "reload" \in w.faults
    /\ EngineEdits \subseteq Edits
    /\ Invalid \subseteq SUBSET Edits
    /\ {} \notin Invalid
    /\ None \notin Updaters \cup Inodes
    /\ \A c \in SUBSET Edits : c # Partial

(* There is always room for one more file. *)
ASSUME NewFileAssumption ==
    \A p, t \in Inodes \cup {None}, fd \in [Updaters -> Inodes \cup {None}] :
      \E i \in Inodes : i \notin {p, t} \cup {fd[u] : u \in Updaters}

VARIABLES
    memory,   \* rc.config
    engine,   \* the configuration the routing engine was given last
    path,     \* the inode of configPath
    tmp,      \* the inode of configPath + ".tmp", or None
    content,  \* what is in each inode
    writer,   \* holder of rc.mu for writing, or None
    readers,  \* holders of rc.mu for reading
    proc,     \* the handlers
    hup,      \* the SIGHUP loop
    up,       \* is the program running?
    world     \* [ops, edits, faults]: the RuntimeConfig methods that handlers
              \* use, what they change, and what may (still) go wrong; chosen
              \* at the start

files == <<path, tmp, content>>
lock == <<writer, readers>>
storeVars == <<memory, engine, path, tmp, content, writer, readers, proc, hup, up, world>>

Config == SUBSET Edits

Edited(c, e) == IF e \in c THEN c \ {e} ELSE c \cup {e}

UpdaterStages == {"idle", "persist", "open", "write", "rename", "apply",
                  "reconfigure", "undoOpen", "undoWrite", "undoRename"}

Resting == [pc |-> "idle", op |-> "none", old |-> {}, new |-> {}, fd |-> None]

StoreTypeOK ==
    /\ memory \in Config
    /\ engine \in Config
    /\ path \in Inodes
    /\ tmp \in Inodes \cup {None}
    /\ content \in [Inodes -> {Partial} \cup Config]
    /\ writer \in Updaters \cup {None}
    /\ readers \in SUBSET Updaters
    /\ proc \in [Updaters -> [pc : UpdaterStages, op : OpNames \cup {"none"},
                              old : Config, new : Config,
                              fd : Inodes \cup {None}]]
    /\ hup.cfg # Partial   \* Load refused it
    /\ hup \in [pc : {"idle", "swap", "get", "build"}, cfg : Config]
    /\ up \in BOOLEAN
    /\ world \in WorldType

StoreInit ==
    /\ memory = {} /\ engine = {}
    /\ path = (CHOOSE i \in Inodes : TRUE) /\ tmp = None
    /\ content = [i \in Inodes |-> IF i = path THEN {} ELSE Partial]
    /\ writer = None /\ readers = {}
    /\ proc = [u \in Updaters |-> Resting]
    /\ hup = [pc |-> "idle", cfg |-> {}]
    /\ up = TRUE
    /\ world \in Worlds

AlwaysUnlocked == TRUE \* mutant: the lock is not taken

Unlocked == writer = None /\ readers = {}

Return(u) == proc' = [proc EXCEPT ![u] = Resting]
Stage(u, pc) == proc' = [proc EXCEPT ![u].pc = pc]
Release(u) ==
    /\ writer' = IF writer = u THEN None ELSE writer
    /\ readers' = readers \ {u}

-----------------------------------------------------------------------------
(* The clone, edited, passes validate. *)
EditAccepted(e) == Edited(memory, e) \notin Invalid

(* UpdateWithReconfigure and TransactionalUpdate: clone, edit, validate,   *)
(* all under the write lock, which they keep to the end.  A refused edit   *)
(* returns at once.  Handlers that do not reconfigure the engine (the      *)
(* admin keys) edit nothing the engine reads.                              *)
BeginTransaction(u, op, e) ==
    /\ proc[u].pc = "idle" /\ Unlocked
    /\ op \in {"UpdateWithReconfigure", "TransactionalUpdate"}
    /\ op = "TransactionalUpdate" => e \notin EngineEdits
    /\ EditAccepted(e)
    /\ writer' = u
    /\ proc' = [proc EXCEPT ![u] = [Resting EXCEPT !.pc = "open", !.op = op,
                                      !.old = memory, !.new = Edited(memory, e)]]
    /\ UNCHANGED <<memory, engine, files, readers, hup, up, world>>

(* The first half of UpdateAndPersist, which releases the lock between the *)
(* halves.                                                                 *)
UpdateMemory(u, e) ==
    /\ proc[u].pc = "idle" /\ Unlocked
    /\ EditAccepted(e)
    /\ memory' = Edited(memory, e)
    /\ proc' = [proc EXCEPT ![u].pc = "persist", ![u].op = "UpdateAndPersist"]
    /\ UNCHANGED <<engine, files, lock, hup, up, world>>

(* The config import: Update replaces memory by what was sent, and only    *)
(* memory.                                                                 *)
Import(u, c) ==
    /\ proc[u].pc = "idle" /\ Unlocked
    /\ c \notin Invalid
    /\ memory' = c
    /\ UNCHANGED <<engine, files, lock, proc, hup, up, world>>

(* Persist takes the read lock only, so several may run at once. *)
BeginPersist(u) ==
    /\ proc[u].pc = "persist" /\ writer = None
    /\ readers' = readers \cup {u}
    /\ proc' = [proc EXCEPT ![u].pc = "open", ![u].new = memory]
    /\ UNCHANGED <<memory, engine, files, writer, hup, up, world>>

(* os.WriteFile(tempPath): open with O_TRUNC, creating the file if there   *)
(* is none, then fill it through the descriptor.                           *)
InUse == {path, tmp} \cup {proc[u].fd : u \in Updaters}
Fresh == CHOOSE i \in Inodes : i \notin InUse

\* What is in a file that no path names is of no interest any more.
Unlink(i) == content' = [content EXCEPT ![i] = Partial]

(* Mutant: the file is written in place. *)
OpenPath(u) ==
    /\ proc[u].pc \in {"open", "undoOpen"}
    /\ content' = [content EXCEPT ![path] = Partial]
    /\ proc' = [proc EXCEPT
                  ![u].fd = path,
                  ![u].pc = IF @ = "open" THEN "write" ELSE "undoWrite"]
    /\ UNCHANGED <<memory, engine, path, tmp, lock, hup, up, world>>

OpenTmp(u) ==
    /\ proc[u].pc \in {"open", "undoOpen"}
    /\ tmp' = IF tmp = None THEN Fresh ELSE tmp
    /\ content' = [content EXCEPT ![tmp'] = Partial]
    /\ proc' = [proc EXCEPT
                  ![u].fd = tmp',
                  ![u].pc = IF @ = "open" THEN "write" ELSE "undoWrite"]
    /\ UNCHANGED <<memory, engine, path, lock, hup, up, world>>

WriteTmp(u) ==
    LET undoing == proc[u].pc = "undoWrite"
        data == IF undoing THEN proc[u].old ELSE proc[u].new
    IN  /\ proc[u].pc \in {"write", "undoWrite"}
        /\ content' = [content EXCEPT ![proc[u].fd] = data]
        /\ proc' = [proc EXCEPT ![u].fd = None,
                                ![u].pc = IF undoing THEN "undoRename" ELSE "rename"]
        /\ UNCHANGED <<memory, engine, path, tmp, lock, hup, up, world>>

(* Mutant: the lock is kept. *)
FailWriteLocked(u) ==
    /\ \/ proc[u].pc = "write" /\ "write" \in world.faults
       \/ proc[u].pc = "undoWrite" /\ "undo" \in world.faults
    /\ Return(u)
    /\ UNCHANGED <<memory, engine, files, lock, hup, up, world>>

(* A failed write returns the error and leaves the temp file. *)
FailWrite(u) ==
    /\ \/ proc[u].pc = "write" /\ "write" \in world.faults
       \/ proc[u].pc = "undoWrite" /\ "undo" \in world.faults
    /\ Return(u) /\ Release(u)
    /\ UNCHANGED <<memory, engine, files, hup, up, world>>

AfterRenameReturn(u) == Return(u) /\ Release(u) \* mutant: memory is not set

(* What follows a rename depends on who renames. *)
AfterRename(u) ==
    IF proc[u].pc = "rename" /\ proc[u].op # "UpdateAndPersist"
    THEN Stage(u, "apply") /\ UNCHANGED lock
    ELSE Return(u) /\ Release(u)

RenameTmp(u) ==
    /\ proc[u].pc \in {"rename", "undoRename"}
    /\ tmp # None
    /\ path' = tmp /\ tmp' = None
    /\ Unlink(path)
    /\ AfterRename(u)
    /\ UNCHANGED <<memory, engine, hup, up, world>>

(* A rename fails when it may, or when another Persist has moved the temp  *)
(* file away; the temp file is removed.                                    *)
FailRename(u) ==
    /\ \/ proc[u].pc = "rename" /\ "rename" \in world.faults
       \/ proc[u].pc = "undoRename" /\ "undo" \in world.faults
       \/ proc[u].pc \in {"rename", "undoRename"} /\ tmp = None
    /\ tmp' = None
    /\ IF tmp = None THEN UNCHANGED content ELSE Unlink(tmp)
    /\ Return(u) /\ Release(u)
    /\ UNCHANGED <<memory, engine, path, hup, up, world>>

(* Only now does the new configuration become the one in memory. *)
Apply(u) ==
    /\ proc[u].pc = "apply"
    /\ memory' = proc[u].new
    /\ IF proc[u].op = "UpdateWithReconfigure"
       THEN Stage(u, "reconfigure") /\ UNCHANGED lock
       ELSE Return(u) /\ Release(u)
    /\ UNCHANGED <<engine, files, hup, up, world>>

(* reconfigureFromConfig builds a registry and hands it to the engine; it  *)
(* fails before it touches the engine.                                     *)
ReconfigureEngine(u) ==
    /\ proc[u].pc = "reconfigure"
    /\ engine' = proc[u].new
    /\ Return(u) /\ Release(u)
    /\ UNCHANGED <<memory, files, hup, up, world>>

(* Mutant: only memory is rolled back. *)
FailReconfigureInMemory(u) ==
    /\ "build" \in world.faults
    /\ proc[u].pc = "reconfigure"
    /\ memory' = proc[u].old
    /\ Return(u) /\ Release(u)
    /\ UNCHANGED <<engine, files, hup, up, world>>

FailReconfigure(u) ==
    /\ "build" \in world.faults
    /\ proc[u].pc = "reconfigure"
    /\ memory' = proc[u].old
    /\ Stage(u, "undoOpen")
    /\ UNCHANGED <<engine, files, lock, hup, up, world>>

-----------------------------------------------------------------------------
(* SIGHUP: Reload reads and validates the file without the lock, then      *)
(* swaps memory under it; the loop then gets memory back, builds a         *)
(* registry and reconfigures the engine, each on its own.                  *)
LoadFile ==
    /\ "reload" \in world.faults
    /\ hup.pc = "idle" /\ up
    /\ content[path] # Partial
    /\ hup' = [pc |-> "swap", cfg |-> content[path]]
    /\ UNCHANGED <<memory, engine, files, lock, proc, up, world>>

SwapMemory ==
    /\ hup.pc = "swap" /\ Unlocked
    /\ memory' = hup.cfg
    /\ hup' = [pc |-> "get", cfg |-> {}]
    /\ UNCHANGED <<engine, files, lock, proc, up, world>>

GetMemory ==
    /\ hup.pc = "get" /\ writer = None
    /\ hup' = [pc |-> "build", cfg |-> memory]
    /\ UNCHANGED <<memory, engine, files, lock, proc, up, world>>

ReloadEngine ==
    /\ hup.pc = "build"
    /\ engine' = hup.cfg
    /\ hup' = [pc |-> "idle", cfg |-> {}]
    /\ UNCHANGED <<memory, files, lock, proc, up, world>>

FailBuild ==
    /\ "build" \in world.faults
    /\ hup.pc = "build"
    /\ hup' = [pc |-> "idle", cfg |-> {}]
    /\ UNCHANGED <<memory, engine, files, lock, proc, up, world>>

-----------------------------------------------------------------------------
(* The environment: the program dies and is started again from the file;   *)
(* the user puts another valid file in its place (bound: once).            *)
Crash ==
    /\ "crash" \in world.faults /\ up
    /\ writer' = None /\ readers' = {}
    /\ proc' = [u \in Updaters |-> Resting]
    /\ hup' = [pc |-> "idle", cfg |-> {}]
    /\ up' = FALSE
    /\ UNCHANGED <<memory, engine, files, world>>

Restart ==
    /\ ~up
    /\ content[path] # Partial
    /\ memory' = content[path] /\ engine' = content[path]
    /\ up' = TRUE
    /\ UNCHANGED <<files, lock, proc, hup, world>>

EditFile(c) ==
    /\ "edit" \in world.faults
    /\ c \notin Invalid
    /\ path' = Fresh
    /\ content' = [content EXCEPT ![Fresh] = c, ![path] = Partial]
    /\ world' = [world EXCEPT !.faults = @ \ {"edit"}]
    /\ UNCHANGED <<memory, engine, tmp, lock, proc, hup, up>>

Start(u) ==
    /\ up
    /\ \/ \E op \in world.ops, e \in world.edits : BeginTransaction(u, op, e)
       \/ "UpdateAndPersist" \in world.ops /\ \E e \in world.edits : UpdateMemory(u, e)
       \/ "Update" \in world.ops /\ \E c \in SUBSET world.edits : Import(u, c)

Continue(u) ==
    \/ BeginPersist(u)
    \/ OpenTmp(u) \/ WriteTmp(u) \/ FailWrite(u)
    \/ RenameTmp(u) \/ FailRename(u)
    \/ Apply(u) \/ ReconfigureEngine(u) \/ FailReconfigure(u)

Reload == LoadFile \/ SwapMemory \/ GetMemory \/ ReloadEngine \/ FailBuild

StoreNext ==
    \/ \E u \in Updaters : Start(u) \/ Continue(u)
    \/ Reload
    \/ Crash \/ Restart
    \/ \E c \in SUBSET world.edits : EditFile(c)

StoreSpec == StoreInit /\ [][StoreNext]_storeVars

(* File operations return, the Go scheduler runs every goroutine, and a    *)
(* sync.RWMutex that is unlocked lets in the readers that were waiting.    *)
StoreFairSpec ==
    /\ StoreSpec
    /\ \A u \in Updaters : WF_storeVars(Continue(u)) /\ SF_storeVars(BeginPersist(u))

-----------------------------------------------------------------------------
Transactional == world.ops \subseteq {"UpdateWithReconfigure", "TransactionalUpdate"}

Undisturbed == world.faults \cap {"reload", "undo"} = {}

Settled == up /\ Unlocked /\ hup.pc = "idle"
              /\ \A u \in Updaters : proc[u].pc = "idle"

(* Once nothing is under way, memory, file and engine agree: no early      *)
(* return, no rollback and no crash leaves one of them behind.             *)
SettledAgree ==
    Transactional /\ Undisturbed /\ Settled =>
      /\ memory = content[path]
      /\ memory \cap EngineEdits = engine \cap EngineEdits

(* A crash in the middle of an update leaves the configuration before it   *)
(* or the one after it; a crash at any other time leaves the one in        *)
(* memory: what an API call has acknowledged is not lost by a restart.     *)
CrashIsAtomic ==
    [][Transactional /\ Undisturbed /\ Crash =>
         \/ content[path] = memory
         \/ \E u \in Updaters :
              writer = u /\ content[path] \in {proc[u].old, proc[u].new}]_storeVars

(* UpdateAndPersist "atomically updates config, validates, and persists".  *)
(* Refuted: memory keeps the edit that Persist then fails to write.        *)
PersistIsKept ==
    "Update" \notin world.ops /\ Undisturbed /\ Settled => memory = content[path]

(* No update waits for ever, and the lock is released on every path.       *)
UpdatesEnd == \A u \in Updaters : proc[u].pc # "idle" ~> proc[u].pc = "idle"

(* Persist writes "atomically (write to temp, then rename)": the file is a *)
(* whole configuration whatever handlers do.                               *)
PersistIsAtomic == content[path] # Partial

-----------------------------------------------------------------------------
(* What the readers of memory see while nobody holds the write lock.       *)
Visible == IF writer = None THEN memory ELSE proc[writer].old

(* Reloads and imports replace the configuration; so does a crash when     *)
(* there are handlers that save after they have answered, or not at all.   *)
Replaceable ==
    \/ "reload" \in world.faults
    \/ "Update" \in world.ops
    \/ "crash" \in world.faults /\ ~Transactional
    \/ "crash" \in world.faults /\ "undo" \in world.faults

Register == INSTANCE ConfigRegister WITH value <- Visible, loose <- Replaceable

(* A transactional update returns an error: memory, as its readers see it, *)
(* is what the update began from.  UpdateAndPersist is no such update: it  *)
(* "atomically updates config, validates, and persists" but keeps in memory *)
(* what Persist then fails to write.                                       *)
GivesUp(u) ==
    \/ FailWrite(u) \/ FailRename(u)
    \/ proc[u].pc = "undoRename" /\ RenameTmp(u)

FailuresUnseen ==
    [][\A u \in Updaters :
         proc[u].op # "UpdateAndPersist" /\ GivesUp(u) =>
           Visible' = proc[u].old]_storeVars

(* Seen by its readers, the configuration is a register that changes by    *)
(* one valid edit at a time: no update is lost or overwritten by another,  *)
(* and none of a transactional update that fails is ever seen.             *)
MemoryIsRegister == Register!Spec /\ FailuresUnseen

=============================================================================
