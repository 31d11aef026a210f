---------------------------- MODULE ServingProofs ----------------------------
(* What a request meets besides the engine: the configuration it reads,    *)
(* the relay of its answer and the tunnels it may arrive through.          *)
(*                                                                         *)
(* That the configuration is a register, that memory, file and engine      *)
(* agree, and that a crash is atomic: for any number of handlers, edits,   *)
(* files and refused configurations.  That a relay is faithful to the      *)
(* answer, as Delivery asks of it, and that a tunnel that was disabled     *)
(* leaves nothing behind.  The types of all parts, the bridges' included,  *)
(* and in the end all parts together.                                      *)
EXTENDS MCServing, SequenceTheorems, WellFoundedInduction, TLAPS

Sound(c) == c \in Config /\ c \notin Invalid

(* Every configuration that is held anywhere is one that validate accepts. *)
Typed ==
    /\ StoreTypeOK
    /\ tmp # path
    /\ Sound(memory) /\ Sound(hup.cfg)
    /\ \A u \in Updaters : Sound(proc[u].old) /\ Sound(proc[u].new)
    /\ \A i \in Inodes : content[i] = Partial \/ Sound(content[i])

Agrees(c, d) == c \cap EngineEdits = d \cap EngineEdits

IsEdit(c, d) == \E e \in Edits : d = Edited(c, e)

(* A transaction keeps the lock from its beginning to its end, and memory  *)
(* is new only while the engine is being reconfigured.                     *)
Changing(u) ==
    /\ proc[u].pc \notin {"idle", "persist"}
    /\ IsEdit(proc[u].old, proc[u].new)
    /\ proc[u].op = "TransactionalUpdate" =>
         /\ Agrees(proc[u].old, proc[u].new)
         /\ proc[u].pc \in {"open", "write", "rename", "apply"}
    /\ memory = IF proc[u].pc = "reconfigure" THEN proc[u].new ELSE proc[u].old

Holding ==
    /\ \A u \in Updaters :
         /\ proc[u].pc # "idle" => proc[u].op \in world.ops
         /\ proc[u].pc \in {"idle", "persist"} => writer # u
         /\ proc[u].pc # "idle" /\ proc[u].op # "UpdateAndPersist" => writer = u
         /\ proc[u].pc \in {"apply", "reconfigure", "undoOpen", "undoWrite",
                            "undoRename"} => proc[u].op # "UpdateAndPersist"
         /\ writer = u => proc[u].op # "UpdateAndPersist" /\ Changing(u)
    /\ ~up => /\ "crash" \in world.faults /\ writer = None
              /\ hup.pc = "idle" /\ \A u \in Updaters : proc[u].pc = "idle"
    /\ hup.pc # "idle" \/ "edit" \in world.faults => "reload" \in world.faults

(* Where a transaction has got to, the file shows: it is the old           *)
(* configuration until the rename, and the new one until it is undone.     *)
Halfway(u) ==
    /\ content[path] = IF proc[u].pc \in {"open", "write", "rename"}
                       THEN proc[u].old ELSE proc[u].new
    /\ proc[u].pc \in {"write", "undoWrite"} => tmp # None /\ tmp = proc[u].fd
    /\ proc[u].pc = "rename" => tmp # None /\ content[tmp] = proc[u].new
    /\ proc[u].pc = "undoRename" => tmp # None /\ content[tmp] = proc[u].old
    /\ Agrees(proc[u].old, engine)

OnDisk ==
    Transactional /\ Undisturbed =>
      /\ up /\ writer = None => content[path] = memory /\ Agrees(memory, engine)
      /\ ~up => content[path] = memory \/ IsEdit(memory, content[path])
      /\ \A u \in Updaters : writer = u => Halfway(u)

IInv == Typed /\ Holding /\ OnDisk

-----------------------------------------------------------------------------
ProcRecord == [pc : UpdaterStages, op : OpNames \cup {"none"},
               old : Config, new : Config, fd : Inodes \cup {None}]

Others(u) == \A v \in Updaters : v # u => proc'[v] = proc[v]

LEMMA EditedConfig ==
    ASSUME NEW c \in Config, NEW e \in Edits
    PROVE  Edited(c, e) \in Config
    BY DEF Config, Edited

LEMMA EditAgrees ==
    ASSUME NEW c \in Config, NEW e \in Edits, e \notin EngineEdits
    PROVE  Agrees(c, Edited(c, e))
    BY DEF Agrees, Edited

LEMMA NewFile ==
    ASSUME Typed
    PROVE  Fresh \in Inodes /\ Fresh # path /\ Fresh # tmp
<1> DEFINE fd == [u \in Updaters |-> proc[u].fd]
<1>1. path \in Inodes \cup {None} /\ tmp \in Inodes \cup {None}
    BY DEF Typed, StoreTypeOK
<1>2. fd \in [Updaters -> Inodes \cup {None}]
    BY DEF Typed, StoreTypeOK
<1>3. \E i \in Inodes : i \notin {path, tmp} \cup {fd[u] : u \in Updaters}
    <2> HIDE DEF fd
    <2> QED  BY <1>1, <1>2, NewFileAssumption, SMTT(30)
<1>4. \E i \in Inodes : i \notin InUse
    BY <1>3 DEF InUse
<1>5. Fresh \in Inodes /\ Fresh \notin InUse
    BY <1>4 DEF Fresh
<1> QED  BY <1>5 DEF InUse

(* What the moves of a handler do to its record. *)
LEMMA StageMoves ==
    ASSUME StoreTypeOK, NEW u \in Updaters, NEW pc \in UpdaterStages, Stage(u, pc)
    PROVE  /\ proc' \in [Updaters -> ProcRecord] /\ Others(u)
           /\ proc'[u].pc = pc
           /\ proc'[u].op = proc[u].op /\ proc'[u].old = proc[u].old
           /\ proc'[u].new = proc[u].new
    BY DEF StoreTypeOK, Stage, ProcRecord, Others

LEMMA ReturnMoves ==
    ASSUME StoreTypeOK, NEW u \in Updaters, Return(u)
    PROVE  /\ proc' \in [Updaters -> ProcRecord] /\ Others(u)
           /\ proc'[u].pc = "idle" /\ proc'[u].op = "none"
           /\ proc'[u].old = {} /\ proc'[u].new = {}
    BY DEF StoreTypeOK, Return, Resting, ProcRecord, Others, UpdaterStages, Config

LEMMA ReleaseMoves ==
    ASSUME StoreTypeOK, NEW u \in Updaters, Release(u)
    PROVE  /\ writer' \in Updaters \cup {None} /\ readers' \in SUBSET Updaters
           /\ writer' = IF writer = u THEN None ELSE writer
    BY DEF StoreTypeOK, Release

LEMMA EmptySound == Sound({})
    BY StoreAssumption DEF Sound, Config

-----------------------------------------------------------------------------
(* One lemma per action, or per pair of actions that move alike. *)

LEMMA BeginStep ==
    ASSUME IInv, NEW u \in Updaters, NEW op \in world.ops, NEW e \in world.edits,
           up, BeginTransaction(u, op, e)
    PROVE  IInv'
<1> DEFINE new == Edited(memory, e)
<1>1. /\ proc[u].pc = "idle" /\ writer = None /\ readers = {}
      /\ op \in {"UpdateWithReconfigure", "TransactionalUpdate"}
      /\ op = "TransactionalUpdate" => e \notin EngineEdits
      /\ writer' = u
      /\ proc' = [proc EXCEPT ![u] = [Resting EXCEPT !.pc = "open", !.op = op,
                                        !.old = memory, !.new = new]]
      /\ UNCHANGED <<memory, engine, files, readers, hup, up, world>>
    BY DEF BeginTransaction, Unlocked
<1>2. e \in Edits /\ Sound(memory) /\ new \in Config
    BY EditedConfig DEF IInv, Typed, StoreTypeOK, WorldType, Sound
<1>3. Sound(new)
    BY <1>2 DEF BeginTransaction, EditAccepted, Sound
<1>4. op = "TransactionalUpdate" => Agrees(memory, new)
    BY <1>1, <1>2, EditAgrees DEF Sound
<1>5. IsEdit(memory, new)
    BY <1>2 DEF IsEdit
<1> HIDE DEF new
<1>6. /\ proc' \in [Updaters -> ProcRecord] /\ Others(u)
      /\ proc'[u].pc = "open" /\ proc'[u].op = op
      /\ proc'[u].old = memory /\ proc'[u].new = new
    BY <1>1, <1>2, <1>3 DEF IInv, Typed, StoreTypeOK, ProcRecord, Others, Resting,
       UpdaterStages, OpNames, Sound
<1>7. Typed'
    BY <1>1, <1>2, <1>3, <1>6 DEF IInv, Typed, StoreTypeOK, ProcRecord, Others, files
<1>8. Holding'
    BY <1>1, <1>4, <1>5, <1>6, StoreAssumption
       DEF IInv, Typed, StoreTypeOK, Holding, Changing, Others
<1>9. OnDisk'
    BY <1>1, <1>4, <1>5, <1>6, StoreAssumption
       DEF IInv, Typed, StoreTypeOK, OnDisk, Halfway, Others, files, Agrees, Undisturbed, Transactional
<1> QED  BY <1>7, <1>8, <1>9 DEF IInv

LEMMA OpenStep ==
    ASSUME IInv, NEW u \in Updaters, OpenTmp(u)
    PROVE  IInv'
<1> DEFINE stage == IF proc[u].pc = "open" THEN "write" ELSE "undoWrite"
<1>1. /\ proc[u].pc \in {"open", "undoOpen"}
      /\ tmp' = IF tmp = None THEN Fresh ELSE tmp
      /\ content' = [content EXCEPT ![tmp'] = Partial]
      /\ proc' = [proc EXCEPT ![u].fd = tmp', ![u].pc = stage]
      /\ UNCHANGED <<memory, engine, path, writer, readers, hup, up, world>>
    BY DEF OpenTmp, lock
<1>2. tmp' \in Inodes /\ tmp' # path /\ tmp' # None
    BY <1>1, NewFile, StoreAssumption DEF IInv, Typed, StoreTypeOK
<1>3. /\ content' \in [Inodes -> {Partial} \cup Config]
      /\ \A i \in Inodes : content'[i] = Partial \/ content'[i] = content[i]
      /\ content'[path] = content[path]
    BY <1>1, <1>2 DEF IInv, Typed, StoreTypeOK
<1>4. /\ proc' \in [Updaters -> ProcRecord] /\ Others(u)
      /\ proc'[u].pc = stage /\ proc'[u].fd = tmp' /\ proc'[u].op = proc[u].op
      /\ proc'[u].old = proc[u].old /\ proc'[u].new = proc[u].new
    BY <1>1, <1>2 DEF IInv, Typed, StoreTypeOK, ProcRecord, Others, UpdaterStages
<1>5. Typed'
    BY <1>1, <1>2, <1>3, <1>4 DEF IInv, Typed, StoreTypeOK, ProcRecord, Others
<1>6. Holding'
    BY <1>1, <1>4 DEF IInv, Holding, Changing, Others
<1>7. OnDisk'
    <2> SUFFICES ASSUME Transactional, Undisturbed
                 PROVE  /\ writer = u
                        /\ up
                        /\ \A v \in Updaters : writer = v => Halfway(v)'
        BY <1>1, StoreAssumption DEF OnDisk, Undisturbed, Transactional
    <2>1. writer = u /\ up
        BY <1>1 DEF IInv, Holding, Transactional
    <2>2. Halfway(u)
        BY <2>1 DEF IInv, OnDisk
    <2> QED  BY <1>1, <1>2, <1>3, <1>4, <2>1, <2>2 DEF Halfway
<1> QED  BY <1>5, <1>6, <1>7 DEF IInv

LEMMA WriteStep ==
    ASSUME IInv, NEW u \in Updaters, WriteTmp(u)
    PROVE  IInv'
<1> DEFINE undoing == proc[u].pc = "undoWrite"
           data == IF undoing THEN proc[u].old ELSE proc[u].new
           stage == IF undoing THEN "undoRename" ELSE "rename"
<1>1. /\ proc[u].pc \in {"write", "undoWrite"}
      /\ content' = [content EXCEPT ![proc[u].fd] = data]
      /\ proc' = [proc EXCEPT ![u].fd = None, ![u].pc = stage]
      /\ UNCHANGED <<memory, engine, path, tmp, writer, readers, hup, up, world>>
    BY DEF WriteTmp, lock
<1>2. Sound(data)
    BY DEF IInv, Typed
<1>3. /\ content' \in [Inodes -> {Partial} \cup Config]
      /\ \A i \in Inodes : content'[i] = Partial \/ Sound(content'[i])
      /\ \A i \in Inodes : i # proc[u].fd => content'[i] = content[i]
      /\ proc[u].fd \in Inodes => content'[proc[u].fd] = data
    BY <1>1, <1>2 DEF IInv, Typed, StoreTypeOK, Sound
<1>4. /\ proc' \in [Updaters -> ProcRecord] /\ Others(u)
      /\ proc'[u].pc = stage /\ proc'[u].op = proc[u].op
      /\ proc'[u].old = proc[u].old /\ proc'[u].new = proc[u].new
    BY <1>1 DEF IInv, Typed, StoreTypeOK, ProcRecord, Others, UpdaterStages
<1>5. Typed'
    BY <1>1, <1>3, <1>4 DEF IInv, Typed, StoreTypeOK, ProcRecord, Others
<1>6. Holding'
    BY <1>1, <1>4 DEF IInv, Holding, Changing, Others
<1>7. OnDisk'
    <2> SUFFICES ASSUME Transactional, Undisturbed
                 PROVE  /\ writer = u
                        /\ up
                        /\ \A v \in Updaters : writer = v => Halfway(v)'
        BY <1>1, StoreAssumption DEF OnDisk, Undisturbed, Transactional
    <2>1. writer = u /\ up
        BY <1>1 DEF IInv, Holding, Transactional
    <2>2. Halfway(u)
        BY <2>1 DEF IInv, OnDisk
    <2>3. tmp \in Inodes /\ tmp # path /\ proc[u].fd = tmp /\ path \in Inodes
        BY <1>1, <2>2 DEF IInv, Typed, StoreTypeOK, Halfway
    <2> QED  BY <1>1, <1>3, <1>4, <2>1, <2>2, <2>3 DEF Halfway
<1> QED  BY <1>5, <1>6, <1>7 DEF IInv

(* A handler that returns early, its edit neither in memory nor on disk.   *)
LEMMA GiveUp ==
    ASSUME IInv, NEW u \in Updaters, Return(u), Release(u),
           proc[u].pc \in {"write", "rename", "undoWrite", "undoRename"},
           UNCHANGED <<memory, engine, path, hup, up, world>>,
           content' \in [Inodes -> {Partial} \cup Config],
           \A i \in Inodes : content'[i] = Partial \/ content'[i] = content[i],
           tmp' \in {tmp, None}, content'[path] = content[path],
           Transactional /\ Undisturbed => proc[u].pc \in {"write", "rename"}
    PROVE  IInv'
<1>1. StoreTypeOK /\ proc[u].pc # "idle"
    BY DEF IInv, Typed
<1>2. /\ proc' \in [Updaters -> ProcRecord] /\ Others(u)
      /\ proc'[u].pc = "idle" /\ proc'[u].op = "none"
      /\ proc'[u].old = {} /\ proc'[u].new = {}
    BY <1>1, ReturnMoves
<1>3. /\ writer' \in Updaters \cup {None} /\ readers' \in SUBSET Updaters
      /\ writer' = IF writer = u THEN None ELSE writer
    BY <1>1, ReleaseMoves
<1>4. Typed'
    BY <1>1, <1>2, <1>3, EmptySound, StoreAssumption, ZenonT(60)
       DEF IInv, Typed, StoreTypeOK, ProcRecord, Others
<1>5. Holding'
    BY <1>1, <1>2, <1>3, StoreAssumption DEF IInv, Holding, Changing, Others
<1>6. OnDisk'
    <2> SUFFICES ASSUME Transactional, Undisturbed
                 PROVE  /\ writer' = None /\ up
                        /\ content'[path] = memory /\ Agrees(memory, engine)
        BY <1>3, StoreAssumption DEF OnDisk, Undisturbed, Transactional
    <2>1. writer = u /\ up /\ Changing(u)
        BY <1>1 DEF IInv, Holding, Transactional
    <2>2. Halfway(u)
        BY <2>1 DEF IInv, OnDisk
    <2> QED  BY <1>3, <2>1, <2>2 DEF Halfway, Changing
<1> QED  BY <1>4, <1>5, <1>6 DEF IInv

LEMMA FailStep ==
    ASSUME IInv, NEW u \in Updaters, FailWrite(u) \/ FailRename(u)
    PROVE  IInv'
<1>1. /\ content \in [Inodes -> {Partial} \cup Config]
      /\ tmp # path /\ path \in Inodes
    BY DEF IInv, Typed, StoreTypeOK
<1>2. CASE FailWrite(u)
    BY <1>1, <1>2, GiveUp DEF FailWrite, files, Undisturbed
<1>3. CASE FailRename(u)
    <2>1. /\ content' \in [Inodes -> {Partial} \cup Config]
          /\ \A i \in Inodes : content'[i] = Partial \/ content'[i] = content[i]
          /\ content'[path] = content[path]
        BY <1>1, <1>3 DEF FailRename, Unlink
    <2>2. Transactional /\ Undisturbed => proc[u].pc \in {"write", "rename"}
        <3> SUFFICES ASSUME Transactional, Undisturbed, proc[u].pc = "undoRename"
                     PROVE  FALSE
            BY <1>3 DEF FailRename
        <3>1. writer = u
            BY DEF IInv, Holding, Transactional
        <3>2. tmp # None
            BY <3>1 DEF IInv, OnDisk, Halfway
        <3> QED  BY <1>3, <3>2 DEF FailRename, Undisturbed
    <2> QED  BY <1>3, <2>1, <2>2, GiveUp DEF FailRename
<1> QED  BY <1>2, <1>3

LEMMA RenameStep ==
    ASSUME IInv, NEW u \in Updaters, RenameTmp(u)
    PROVE  IInv'
<1>1. /\ proc[u].pc \in {"rename", "undoRename"}
      /\ tmp # None /\ path' = tmp /\ tmp' = None
      /\ content' = [content EXCEPT ![path] = Partial]
      /\ UNCHANGED <<memory, engine, hup, up, world>>
    BY DEF RenameTmp, Unlink
<1>2. StoreTypeOK /\ tmp \in Inodes /\ path \in Inodes /\ tmp # path
    BY <1>1 DEF IInv, Typed, StoreTypeOK
<1>3. /\ content' \in [Inodes -> {Partial} \cup Config]
      /\ \A i \in Inodes : content'[i] = Partial \/ content'[i] = content[i]
      /\ content'[path'] = content[tmp]
    BY <1>1, <1>2 DEF StoreTypeOK
<1>4. CASE proc[u].pc = "rename" /\ proc[u].op # "UpdateAndPersist"
    <2>1. Stage(u, "apply") /\ UNCHANGED <<writer, readers>> /\ writer = u
        BY <1>4 DEF RenameTmp, AfterRename, lock, IInv, Holding
    <2>2. /\ proc' \in [Updaters -> ProcRecord] /\ Others(u)
          /\ proc'[u].pc = "apply" /\ proc'[u].op = proc[u].op
          /\ proc'[u].old = proc[u].old /\ proc'[u].new = proc[u].new
        BY <1>2, <2>1, StageMoves DEF UpdaterStages
    <2>3. Typed'
        BY <1>1, <1>2, <1>3, <2>1, <2>2 DEF IInv, Typed, StoreTypeOK, ProcRecord, Others
    <2>4. Holding'
        BY <1>1, <1>4, <2>1, <2>2 DEF IInv, Holding, Changing, Others
    <2>5. OnDisk'
        <3> SUFFICES ASSUME Transactional, Undisturbed
                     PROVE  up /\ Halfway(u)'
            BY <1>1, <2>1, StoreAssumption DEF OnDisk, Undisturbed, Transactional
        <3>1. up /\ Halfway(u)
            BY <2>1 DEF IInv, Holding, OnDisk
        <3> QED  BY <1>1, <1>3, <1>4, <2>2, <3>1 DEF Halfway
    <2> QED  BY <2>3, <2>4, <2>5 DEF IInv
<1>5. CASE ~(proc[u].pc = "rename" /\ proc[u].op # "UpdateAndPersist")
    <2>1. Return(u) /\ Release(u)
        BY <1>5 DEF RenameTmp, AfterRename
    <2>2. /\ proc' \in [Updaters -> ProcRecord] /\ Others(u)
          /\ proc'[u].pc = "idle" /\ proc'[u].op = "none"
          /\ proc'[u].old = {} /\ proc'[u].new = {}
        BY <1>2, <2>1, ReturnMoves
    <2>3. /\ writer' \in Updaters \cup {None} /\ readers' \in SUBSET Updaters
          /\ writer' = IF writer = u THEN None ELSE writer
        BY <1>2, <2>1, ReleaseMoves
    <2>4. Typed'
        BY <1>1, <1>2, <1>3, <2>2, <2>3, EmptySound, StoreAssumption, ZenonT(60)
           DEF IInv, Typed, StoreTypeOK, ProcRecord, Others
    <2>5. Holding'
        BY <1>1, <2>2, <2>3, StoreAssumption DEF IInv, Holding, Changing, Others
    <2>6. OnDisk'
        <3> SUFFICES ASSUME Transactional, Undisturbed
                     PROVE  /\ writer' = None /\ up
                            /\ content'[path'] = memory /\ Agrees(memory, engine)
            BY <1>1, <2>3, StoreAssumption DEF OnDisk, Undisturbed, Transactional
        <3>1. writer = u /\ up /\ Changing(u) /\ proc[u].pc = "undoRename"
            BY <1>1, <1>5 DEF IInv, Holding, Transactional
        <3>2. Halfway(u)
            BY <3>1 DEF IInv, OnDisk
        <3> QED  BY <1>3, <2>3, <3>1, <3>2 DEF Halfway, Changing
    <2> QED  BY <2>4, <2>5, <2>6 DEF IInv
<1> QED  BY <1>4, <1>5

(* A handler that returns with its edit in memory and on disk, or that has *)
(* it in memory and goes on to the engine.                                 *)
LEMMA ApplyStep ==
    ASSUME IInv, NEW u \in Updaters, Apply(u)
    PROVE  IInv'
<1>1. /\ proc[u].pc = "apply" /\ memory' = proc[u].new
      /\ UNCHANGED <<engine, path, tmp, content, hup, up, world>>
    BY DEF Apply, files
<1>2. /\ StoreTypeOK /\ Sound(proc[u].new) /\ up
      /\ writer = u /\ Changing(u) /\ proc[u].op \in world.ops
      /\ proc[u].op # "UpdateAndPersist"
    BY <1>1 DEF IInv, Typed, Holding
<1>3. Transactional /\ Undisturbed => Halfway(u)
    BY <1>2 DEF IInv, OnDisk
<1>4. CASE proc[u].op = "UpdateWithReconfigure"
    <2>1. Stage(u, "reconfigure") /\ UNCHANGED <<writer, readers>>
        BY <1>4 DEF Apply, lock
    <2>2. /\ proc' \in [Updaters -> ProcRecord] /\ Others(u)
          /\ proc'[u].pc = "reconfigure" /\ proc'[u].op = proc[u].op
          /\ proc'[u].old = proc[u].old /\ proc'[u].new = proc[u].new
        BY <1>2, <2>1, StageMoves DEF UpdaterStages
    <2>3. Typed'
        BY <1>1, <1>2, <2>1, <2>2
           DEF IInv, Typed, StoreTypeOK, ProcRecord, Others, Sound
    <2>4. Holding'
        BY <1>1, <1>2, <1>4, <2>1, <2>2 DEF IInv, Holding, Changing, Others
    <2>5. OnDisk'
        BY <1>1, <1>2, <1>3, <2>1, <2>2, StoreAssumption
           DEF OnDisk, Undisturbed, Transactional, Halfway
    <2> QED  BY <2>3, <2>4, <2>5 DEF IInv
<1>5. CASE proc[u].op # "UpdateWithReconfigure"
    <2>1. Return(u) /\ Release(u)
        BY <1>5 DEF Apply
    <2>2. /\ proc' \in [Updaters -> ProcRecord] /\ Others(u)
          /\ proc'[u].pc = "idle" /\ proc'[u].op = "none"
          /\ proc'[u].old = {} /\ proc'[u].new = {}
        BY <1>2, <2>1, ReturnMoves
    <2>3. writer' = None /\ readers' \in SUBSET Updaters
        BY <1>2, <2>1, ReleaseMoves
    <2>4. Typed'
        BY <1>1, <1>2, <2>2, <2>3, EmptySound, ZenonT(60)
           DEF IInv, Typed, StoreTypeOK, ProcRecord, Others, Sound
    <2>5. Holding'
        BY <1>1, <1>2, <2>2, <2>3, StoreAssumption DEF IInv, Holding, Others
    <2>6. OnDisk'
        <3> SUFFICES ASSUME Transactional, Undisturbed
                     PROVE  content[path] = proc[u].new /\ Agrees(proc[u].new, engine)
            BY <1>1, <1>2, <2>3, StoreAssumption DEF OnDisk, Undisturbed, Transactional
        <3>1. proc[u].op = "TransactionalUpdate"
            BY <1>2, <1>5 DEF Transactional
        <3> QED  BY <1>1, <1>2, <1>3, <3>1 DEF Halfway, Changing, Agrees
    <2> QED  BY <2>4, <2>5, <2>6 DEF IInv
<1> QED  BY <1>4, <1>5

LEMMA ReconfigureStep ==
    ASSUME IInv, NEW u \in Updaters, ReconfigureEngine(u)
    PROVE  IInv'
<1>1. /\ proc[u].pc = "reconfigure" /\ engine' = proc[u].new
      /\ UNCHANGED <<memory, path, tmp, content, hup, up, world>>
      /\ Return(u) /\ Release(u)
    BY DEF ReconfigureEngine, files
<1>2. /\ StoreTypeOK /\ Sound(proc[u].new) /\ up
      /\ writer = u /\ memory = proc[u].new
    BY <1>1 DEF IInv, Typed, Holding, Changing
<1>3. Transactional /\ Undisturbed => content[path] = proc[u].new
    BY <1>1, <1>2 DEF IInv, OnDisk, Halfway
<1>4. /\ proc' \in [Updaters -> ProcRecord] /\ Others(u)
      /\ proc'[u].pc = "idle" /\ proc'[u].op = "none"
      /\ proc'[u].old = {} /\ proc'[u].new = {}
    BY <1>1, <1>2, ReturnMoves
<1>5. writer' = None /\ readers' \in SUBSET Updaters
    BY <1>1, <1>2, ReleaseMoves
<1>6. Typed'
    BY <1>1, <1>2, <1>4, <1>5, EmptySound, ZenonT(60)
       DEF IInv, Typed, StoreTypeOK, ProcRecord, Others, Sound
<1>7. Holding'
    BY <1>1, <1>2, <1>4, <1>5, StoreAssumption DEF IInv, Holding, Others
<1>8. OnDisk'
    BY <1>1, <1>2, <1>3, <1>5, StoreAssumption
       DEF OnDisk, Undisturbed, Transactional, Agrees
<1> QED  BY <1>6, <1>7, <1>8 DEF IInv

LEMMA RollBackStep ==
    ASSUME IInv, NEW u \in Updaters, FailReconfigure(u)
    PROVE  IInv'
<1>1. /\ proc[u].pc = "reconfigure" /\ memory' = proc[u].old
      /\ UNCHANGED <<engine, path, tmp, content, writer, readers, hup, up, world>>
      /\ Stage(u, "undoOpen")
    BY DEF FailReconfigure, files, lock
<1>2. /\ StoreTypeOK /\ Sound(proc[u].old) /\ up /\ writer = u
    BY <1>1 DEF IInv, Typed, Holding
<1>3. Transactional /\ Undisturbed => Halfway(u)
    BY <1>2 DEF IInv, OnDisk
<1>4. /\ proc' \in [Updaters -> ProcRecord] /\ Others(u)
      /\ proc'[u].pc = "undoOpen" /\ proc'[u].op = proc[u].op
      /\ proc'[u].old = proc[u].old /\ proc'[u].new = proc[u].new
    BY <1>1, <1>2, StageMoves DEF UpdaterStages
<1>5. Typed'
    BY <1>1, <1>2, <1>4 DEF IInv, Typed, StoreTypeOK, ProcRecord, Others, Sound
<1>6. Holding'
    BY <1>1, <1>2, <1>4 DEF IInv, Holding, Changing, Others
<1>7. OnDisk'
    BY <1>1, <1>2, <1>3, <1>4, StoreAssumption
       DEF OnDisk, Undisturbed, Transactional, Halfway
<1> QED  BY <1>5, <1>6, <1>7 DEF IInv

LEMMA UpdateStep ==
    ASSUME IInv, NEW u \in Updaters, NEW e \in world.edits, up,
           "UpdateAndPersist" \in world.ops, UpdateMemory(u, e)
    PROVE  IInv'
<1>1. /\ proc[u].pc = "idle" /\ writer = None /\ memory' = Edited(memory, e)
      /\ proc' = [proc EXCEPT ![u].pc = "persist", ![u].op = "UpdateAndPersist"]
      /\ UNCHANGED <<engine, path, tmp, content, writer, readers, hup, up, world>>
    BY DEF UpdateMemory, Unlocked, files, lock
<1>2. e \in Edits /\ memory \in Config /\ ~Transactional
    BY DEF IInv, Typed, StoreTypeOK, WorldType, Transactional
<1>3. Sound(memory')
    BY <1>1, <1>2, EditedConfig DEF UpdateMemory, EditAccepted, Sound
<1>4. /\ proc' \in [Updaters -> ProcRecord] /\ Others(u)
      /\ proc'[u].pc = "persist" /\ proc'[u].op = "UpdateAndPersist"
      /\ proc'[u].old = proc[u].old /\ proc'[u].new = proc[u].new
    BY <1>1, ZenonT(60) DEF IInv, Typed, StoreTypeOK, ProcRecord, Others, UpdaterStages, OpNames
<1>5. Typed'
    BY <1>1, <1>3, <1>4 DEF IInv, Typed, StoreTypeOK, ProcRecord, Others, Sound
<1>6. Holding'
    BY <1>1, <1>4, StoreAssumption DEF IInv, Holding, Others
<1>7. OnDisk'
    BY <1>1, <1>2 DEF OnDisk, Transactional
<1> QED  BY <1>5, <1>6, <1>7 DEF IInv

LEMMA ImportStep ==
    ASSUME IInv, NEW u \in Updaters, NEW c \in SUBSET world.edits,
           "Update" \in world.ops, Import(u, c)
    PROVE  IInv'
<1>1. /\ writer = None /\ memory' = c
      /\ UNCHANGED <<engine, path, tmp, content, writer, readers, proc, hup, up, world>>
    BY DEF Import, Unlocked, files, lock
<1>2. Sound(c) /\ ~Transactional
    BY DEF IInv, Typed, StoreTypeOK, WorldType, Import, Sound, Config, Transactional
<1>3. Typed'
    BY <1>1, <1>2 DEF IInv, Typed, StoreTypeOK, Sound
<1>4. Holding'
    BY <1>1, StoreAssumption DEF IInv, Holding
<1>5. OnDisk'
    BY <1>1, <1>2 DEF OnDisk, Transactional
<1> QED  BY <1>3, <1>4, <1>5 DEF IInv

LEMMA PersistStep ==
    ASSUME IInv, NEW u \in Updaters, BeginPersist(u)
    PROVE  IInv'
<1>1. /\ proc[u].pc = "persist" /\ writer = None
      /\ readers' = readers \cup {u}
      /\ proc' = [proc EXCEPT ![u].pc = "open", ![u].new = memory]
      /\ UNCHANGED <<memory, engine, path, tmp, content, writer, hup, up, world>>
    BY DEF BeginPersist, files
<1>2. Sound(memory) /\ proc[u].op = "UpdateAndPersist" /\ up
    BY <1>1, StoreAssumption DEF IInv, Typed, Holding
<1>3. /\ proc' \in [Updaters -> ProcRecord] /\ Others(u)
      /\ proc'[u].pc = "open" /\ proc'[u].op = "UpdateAndPersist"
      /\ proc'[u].old = proc[u].old /\ proc'[u].new = memory
    BY <1>1, <1>2, ZenonT(60) DEF IInv, Typed, StoreTypeOK, ProcRecord, Others, UpdaterStages, Sound
<1>4. Typed'
    BY <1>1, <1>2, <1>3 DEF IInv, Typed, StoreTypeOK, ProcRecord, Others
<1>5. Holding'
    BY <1>1, <1>2, <1>3, StoreAssumption DEF IInv, Holding, Others
<1>6. ~Transactional
    BY <1>1, <1>2 DEF IInv, Holding, Transactional
<1>7. OnDisk'
    BY <1>1, <1>6 DEF OnDisk, Transactional
<1> QED  BY <1>4, <1>5, <1>7 DEF IInv

(* SIGHUP. *)
LEMMA ReloadStep ==
    ASSUME IInv, Reload
    PROVE  IInv'
<1>1. CASE LoadFile
    <2>1. content[path] # Partial => Sound(content[path])
        BY DEF IInv, Typed, StoreTypeOK
    <2>2. Typed'
        BY <1>1, <2>1 DEF LoadFile, IInv, Typed, StoreTypeOK, Sound, files, lock
    <2>3. Holding' /\ OnDisk'
        BY <1>1 DEF LoadFile, IInv, Holding, Changing, OnDisk, Undisturbed, files, lock
    <2> QED  BY <2>2, <2>3 DEF IInv
<1>2. CASE SwapMemory
    <2>1. Typed'
        BY <1>2, EmptySound, StoreAssumption
           DEF SwapMemory, IInv, Typed, StoreTypeOK, Sound, Config, files, lock
    <2>2. Holding' /\ OnDisk'
        BY <1>2, StoreAssumption
           DEF SwapMemory, Unlocked, IInv, Holding, OnDisk, Undisturbed, files, lock
    <2> QED  BY <2>1, <2>2 DEF IInv
<1>3. CASE GetMemory
    <2>1. Typed'
        BY <1>3, StoreAssumption
           DEF GetMemory, IInv, Typed, StoreTypeOK, Sound, Config, files, lock
    <2>2. Holding' /\ OnDisk'
        BY <1>3 DEF GetMemory, IInv, Holding, Changing, OnDisk, Undisturbed, files, lock
    <2> QED  BY <2>1, <2>2 DEF IInv
<1>4. CASE ReloadEngine \/ FailBuild
    <2>1. Typed'
        <3>1. /\ hup' = [pc |-> "idle", cfg |-> {}]
              /\ engine' = engine \/ engine' = hup.cfg
              /\ UNCHANGED <<memory, path, tmp, content, writer, readers, proc, up, world>>
            BY <1>4 DEF ReloadEngine, FailBuild, files, lock
        <3>2. {} \in Config /\ {} # Partial /\ hup.cfg \in Config
            BY StoreAssumption DEF Config, IInv, Typed, StoreTypeOK
        <3> QED  BY <3>1, <3>2, EmptySound DEF IInv, Typed, StoreTypeOK, Sound
    <2>2. Holding' /\ OnDisk'
        BY <1>4 DEF ReloadEngine, FailBuild, IInv, Holding, Changing, OnDisk,
                    Undisturbed, files, lock
    <2> QED  BY <2>1, <2>2 DEF IInv
<1> QED  BY <1>1, <1>2, <1>3, <1>4 DEF Reload

LEMMA CrashStep ==
    ASSUME IInv, Crash
    PROVE  IInv'
<1>1. /\ "crash" \in world.faults /\ up /\ up' = FALSE
      /\ writer' = None /\ readers' = {}
      /\ proc' = [u \in Updaters |-> Resting] /\ hup' = [pc |-> "idle", cfg |-> {}]
      /\ UNCHANGED <<memory, engine, path, tmp, content, world>>
    BY DEF Crash, files
<1>2. proc' \in [Updaters -> ProcRecord]
    BY <1>1 DEF Resting, ProcRecord, UpdaterStages, Config
<1>3. \A u \in Updaters : /\ proc'[u].pc = "idle"
                          /\ proc'[u].old = {} /\ proc'[u].new = {}
    BY <1>1 DEF Resting
<1>4. Typed'
    BY <1>1, <1>2, <1>3, EmptySound, StoreAssumption, ZenonT(60)
       DEF IInv, Typed, StoreTypeOK, ProcRecord, Sound
<1>5. Holding'
    BY <1>1, <1>3, StoreAssumption DEF IInv, Holding
<1>6. OnDisk'
    <2> SUFFICES ASSUME Transactional, Undisturbed
                 PROVE  content[path] = memory \/ IsEdit(memory, content[path])
        BY <1>1, StoreAssumption DEF OnDisk, Undisturbed, Transactional, IsEdit
    <2>1. CASE writer = None
        BY <1>1, <2>1 DEF IInv, OnDisk
    <2>2. ASSUME NEW u \in Updaters, writer = u
          PROVE  content[path] = memory \/ IsEdit(memory, content[path])
        BY <2>2 DEF IInv, OnDisk, Holding, Changing, Halfway
    <2> QED  BY <2>1, <2>2 DEF IInv, Typed, StoreTypeOK
<1> QED  BY <1>4, <1>5, <1>6 DEF IInv

LEMMA RestartStep ==
    ASSUME IInv, Restart
    PROVE  IInv'
<1>1. /\ ~up /\ up' = TRUE /\ content[path] # Partial
      /\ memory' = content[path] /\ engine' = content[path]
      /\ UNCHANGED <<path, tmp, content, writer, readers, proc, hup, world>>
    BY DEF Restart, files, lock
<1>2. Sound(content[path])
    BY <1>1 DEF IInv, Typed, StoreTypeOK
<1>3. Typed'
    BY <1>1, <1>2 DEF IInv, Typed, StoreTypeOK, Sound
<1>4. Holding'
    BY <1>1, StoreAssumption DEF IInv, Holding
<1>5. OnDisk'
    BY <1>1, StoreAssumption DEF IInv, Holding, OnDisk, Agrees
<1> QED  BY <1>3, <1>4, <1>5 DEF IInv

LEMMA EditStep ==
    ASSUME IInv, NEW c \in SUBSET world.edits, EditFile(c)
    PROVE  IInv'
<1>1. /\ "edit" \in world.faults /\ c \notin Invalid /\ path' = Fresh
      /\ content' = [content EXCEPT ![Fresh] = c, ![path] = Partial]
      /\ world' = [world EXCEPT !.faults = @ \ {"edit"}]
      /\ UNCHANGED <<memory, engine, tmp, writer, readers, proc, hup, up>>
    BY DEF EditFile, lock
<1>2. Sound(c) /\ Fresh \in Inodes /\ Fresh # tmp
    BY <1>1, NewFile DEF IInv, Typed, StoreTypeOK, WorldType, Sound, Config
<1>3. /\ world' \in WorldType /\ world'.ops = world.ops
      /\ world'.faults = world.faults \ {"edit"}
    BY <1>1 DEF IInv, Typed, StoreTypeOK, WorldType
<1>4. "reload" \in world.faults /\ "reload" \in world'.faults
    BY <1>1, <1>3 DEF IInv, Holding
<1>5. /\ content' \in [Inodes -> {Partial} \cup Config]
      /\ \A i \in Inodes : content'[i] = Partial \/ Sound(content'[i])
    BY <1>1, <1>2 DEF IInv, Typed, StoreTypeOK, Sound
<1>6. Typed'
    BY <1>1, <1>2, <1>3, <1>5 DEF IInv, Typed, StoreTypeOK, Sound
<1>7. Holding'
    BY <1>1, <1>3, <1>4 DEF IInv, Holding, Changing
<1>8. OnDisk'
    BY <1>4 DEF OnDisk, Undisturbed
<1> QED  BY <1>6, <1>7, <1>8 DEF IInv

-----------------------------------------------------------------------------
LEMMA IInvInit == StoreInit => IInv
<1> SUFFICES ASSUME StoreInit PROVE IInv
    OBVIOUS
<1>1. \E i \in Inodes : TRUE
    <2> DEFINE fd == [u \in Updaters |-> None]
    <2>1. fd \in [Updaters -> Inodes \cup {None}] /\ None \in Inodes \cup {None}
        OBVIOUS
    <2> HIDE DEF fd
    <2> QED  BY <2>1, NewFileAssumption, Zenon
<1>2. path \in Inodes
    BY <1>1 DEF StoreInit
<1>3. proc \in [Updaters -> ProcRecord]
    BY DEF StoreInit, Resting, ProcRecord, UpdaterStages, Config
<1>4. \A u \in Updaters : /\ proc[u].pc = "idle" /\ proc[u].op = "none"
                          /\ proc[u].old = {} /\ proc[u].new = {}
    BY DEF StoreInit, Resting
<1>5. content \in [Inodes -> {Partial} \cup Config] /\ content[path] = {}
    BY <1>2 DEF StoreInit, Config
<1>6. Typed
    BY <1>2, <1>3, <1>4, <1>5, EmptySound, StoreAssumption
       DEF StoreInit, Typed, StoreTypeOK, ProcRecord, Sound, Config
<1>7. Holding
    BY <1>4, StoreAssumption DEF StoreInit, Holding
<1>8. OnDisk
    BY <1>5, StoreAssumption DEF StoreInit, OnDisk, Agrees
<1> QED  BY <1>6, <1>7, <1>8 DEF IInv

LEMMA IInvStep == IInv /\ [StoreNext]_storeVars => IInv'
<1>1. ASSUME IInv, UNCHANGED storeVars
      PROVE  IInv'
    BY <1>1 DEF IInv, Typed, StoreTypeOK, Holding, Changing, OnDisk, Halfway,
                Transactional, Undisturbed, storeVars
<1>2. ASSUME IInv, NEW u \in Updaters, Start(u)
      PROVE  IInv'
    BY <1>2, BeginStep, UpdateStep, ImportStep DEF Start
<1>3. ASSUME IInv, NEW u \in Updaters, Continue(u)
      PROVE  IInv'
    BY <1>3, PersistStep, OpenStep, WriteStep, FailStep, RenameStep, ApplyStep,
       ReconfigureStep, RollBackStep DEF Continue
<1> QED
    BY <1>1, <1>2, <1>3, ReloadStep, CrashStep, RestartStep, EditStep DEF StoreNext

LEMMA Invariant == StoreSpec => []IInv
    BY IInvInit, IInvStep, PTL DEF StoreSpec

(* Every reachable state is well typed. *)
THEOREM StoreTypeCorrect == StoreSpec => []StoreTypeOK
<1>1. IInv => StoreTypeOK
    BY DEF IInv, Typed
<1> QED  BY <1>1, Invariant, PTL

(* Once nothing is under way, memory, file and engine agree, whichever     *)
(* failures and crashes came before.                                       *)
THEOREM StoreSettles == StoreSpec => []SettledAgree
<1>1. IInv => SettledAgree
    BY DEF IInv, OnDisk, SettledAgree, Settled, Unlocked, Agrees
<1> QED  BY <1>1, Invariant, PTL

(* A crash leaves the configuration before an update or the one after it.  *)
THEOREM StoreCrashIsAtomic == StoreSpec => CrashIsAtomic
<1>1. IInv /\ Transactional /\ Undisturbed /\ Crash =>
        \/ content[path] = memory
        \/ \E u \in Updaters :
             writer = u /\ content[path] \in {proc[u].old, proc[u].new}
    <2> SUFFICES ASSUME IInv, Transactional, Undisturbed, up, content[path] # memory
                 PROVE  \E u \in Updaters :
                          writer = u /\ content[path] \in {proc[u].old, proc[u].new}
        BY DEF Crash
    <2>1. writer \in Updaters
        BY DEF IInv, Typed, StoreTypeOK, OnDisk
    <2> QED  BY <2>1 DEF IInv, OnDisk, Halfway
<1> QED  BY <1>1, Invariant, PTL DEF StoreSpec, CrashIsAtomic

-----------------------------------------------------------------------------
(* The configuration is a register. *)

Stepped == Visible' = Visible \/ IsEdit(Visible, Visible') \/ Replaceable

LEMMA SoundSteps ==
    ASSUME IInv', Stepped, Replaceable' = Replaceable
    PROVE  [Register!Next]_<<Visible, Replaceable>>
<1>1. Sound(Visible')
    BY DEF IInv, Typed, StoreTypeOK, Visible
<1>2. Register!Valid(Visible')
    BY <1>1 DEF Sound, Config, Register!Valid
<1> QED  BY <1>2 DEF Stepped, IsEdit, Edited, Register!Next, Register!Change, Register!Replace

(* The lock and what its holder began from stay. *)
LEMMA NotSeen ==
    ASSUME writer' = writer, memory' = memory,
           \A v \in Updaters : proc'[v].old = proc[v].old, IInv
    PROVE  Stepped
    BY DEF Stepped, Visible, IInv, Typed, StoreTypeOK

(* When its holder gives the lock back, its edit shows, or nothing does.   *)
LEMMA Shown ==
    ASSUME IInv, NEW u \in Updaters, memory' = memory, Return(u), Release(u)
    PROVE  Stepped
<1>1. StoreTypeOK
    BY DEF IInv, Typed
<1>2. Others(u) /\ writer' = IF writer = u THEN None ELSE writer
    BY <1>1, ReturnMoves, ReleaseMoves
<1>3. CASE writer = u
    BY <1>2, <1>3, StoreAssumption DEF Stepped, Visible, IInv, Holding, Changing
<1>4. CASE writer # u
    BY <1>1, <1>2, <1>4 DEF Stepped, Visible, Others, StoreTypeOK
<1> QED  BY <1>3, <1>4

LEMMA StartRefines ==
    ASSUME IInv, NEW u \in Updaters, Start(u)
    PROVE  Stepped
<1>1. ASSUME NEW op \in world.ops, NEW e \in world.edits, BeginTransaction(u, op, e)
      PROVE  Stepped
    <2>1. /\ writer = None /\ writer' = u
          /\ proc' = [proc EXCEPT ![u] = [Resting EXCEPT !.pc = "open", !.op = op,
                                            !.old = memory, !.new = Edited(memory, e)]]
        BY <1>1 DEF BeginTransaction, Unlocked
    <2>2. proc'[u].old = memory
        BY <2>1 DEF IInv, Typed, StoreTypeOK, Resting
    <2> QED  BY <2>1, <2>2, StoreAssumption DEF Stepped, Visible
<1>2. ASSUME NEW e \in world.edits, UpdateMemory(u, e)
      PROVE  Stepped
    <2>1. e \in Edits
        BY DEF IInv, Typed, StoreTypeOK, WorldType
    <2>2. IsEdit(memory, memory')
        BY <1>2, <2>1 DEF UpdateMemory, IsEdit
    <2> QED  BY <1>2, <2>2 DEF UpdateMemory, Unlocked, lock, Stepped, Visible
<1> QED  BY <1>1, <1>2 DEF Start, Stepped, Replaceable

LEMMA ContinueRefines ==
    ASSUME IInv, NEW u \in Updaters, Continue(u)
    PROVE  Stepped
<1>0. StoreTypeOK
    BY DEF IInv, Typed
<1>1. CASE BeginPersist(u) \/ OpenTmp(u) \/ WriteTmp(u)
    <2>1. writer' = writer /\ memory' = memory
        BY <1>1 DEF BeginPersist, OpenTmp, WriteTmp, lock
    <2>2. \A v \in Updaters : proc'[v].old = proc[v].old
        BY <1>0, <1>1 DEF BeginPersist, OpenTmp, WriteTmp, StoreTypeOK
    <2> QED  BY <2>1, <2>2, NotSeen
<1>2. CASE FailWrite(u) \/ FailRename(u) \/ ReconfigureEngine(u)
    BY <1>2, Shown DEF FailWrite, FailRename, ReconfigureEngine
<1>3. CASE RenameTmp(u)
    <2>1. CASE Stage(u, "apply") /\ UNCHANGED lock
        <3>1. \A v \in Updaters : proc'[v].old = proc[v].old
            BY <1>0, <2>1, StageMoves DEF UpdaterStages, Others
        <3> QED  BY <1>3, <2>1, <3>1, NotSeen DEF RenameTmp, lock
    <2>2. CASE Return(u) /\ Release(u)
        BY <1>3, <2>2, Shown DEF RenameTmp
    <2> QED  BY <1>3, <2>1, <2>2 DEF RenameTmp, AfterRename
<1>4. CASE Apply(u)
    <2>1. proc[u].pc = "apply" /\ memory' = proc[u].new
        BY <1>4 DEF Apply
    <2>2. writer = u /\ IsEdit(proc[u].old, proc[u].new)
        BY <2>1 DEF IInv, Holding, Changing
    <2>3. CASE Stage(u, "reconfigure") /\ UNCHANGED lock
        <3>1. proc'[u].old = proc[u].old
            BY <1>0, <2>3, StageMoves DEF UpdaterStages
        <3> QED  BY <2>2, <2>3, <3>1, StoreAssumption DEF Stepped, Visible, lock
    <2>4. CASE Return(u) /\ Release(u)
        <3>1. writer' = None
            BY <1>0, <2>2, <2>4, ReleaseMoves
        <3> QED  BY <2>1, <2>2, <3>1, StoreAssumption DEF Stepped, Visible
    <2> QED  BY <1>4, <2>3, <2>4 DEF Apply
<1>5. CASE FailReconfigure(u)
    <2>1. proc[u].pc = "reconfigure" /\ Stage(u, "undoOpen") /\ writer' = writer
        BY <1>5 DEF FailReconfigure, lock
    <2>2. writer = u
        BY <2>1 DEF IInv, Holding
    <2>3. proc'[u].old = proc[u].old
        BY <1>0, <2>1, StageMoves DEF UpdaterStages
    <2> QED  BY <2>1, <2>2, <2>3, StoreAssumption DEF Stepped, Visible
<1> QED  BY <1>1, <1>2, <1>3, <1>4, <1>5 DEF Continue

LEMMA ReloadRefines ==
    ASSUME IInv, Reload
    PROVE  Stepped
<1>1. CASE SwapMemory
    BY <1>1 DEF SwapMemory, IInv, Holding, Stepped, Replaceable
<1>2. CASE LoadFile \/ GetMemory \/ ReloadEngine \/ FailBuild
    BY <1>2 DEF LoadFile, GetMemory, ReloadEngine, FailBuild, lock, Stepped, Visible
<1> QED  BY <1>1, <1>2 DEF Reload

LEMMA CrashRefines ==
    ASSUME IInv, Crash
    PROVE  Stepped
<1>1. writer' = None /\ memory' = memory
    BY DEF Crash
<1>2. CASE writer = None
    BY <1>1, <1>2 DEF Stepped, Visible
<1>3. CASE writer # None
    <2>1. writer \in Updaters
        BY <1>3 DEF IInv, Typed, StoreTypeOK
    <2> QED  BY <1>1, <1>3, <2>1 DEF IInv, Holding, Changing, Stepped, Visible
<1> QED  BY <1>2, <1>3

LEMMA RestartRefines ==
    ASSUME IInv, Restart
    PROVE  Stepped
<1>1. /\ ~up /\ writer = None /\ writer' = None /\ memory' = content[path]
      /\ "crash" \in world.faults
    BY DEF Restart, lock, IInv, Holding
<1>2. CASE Transactional /\ Undisturbed
    BY <1>1, <1>2 DEF IInv, OnDisk, Stepped, Visible
<1>3. CASE ~(Transactional /\ Undisturbed)
    BY <1>1, <1>3 DEF Stepped, Replaceable, Undisturbed
<1> QED  BY <1>2, <1>3

LEMMA StepRefines ==
    ASSUME IInv, IInv', [StoreNext]_storeVars
    PROVE  [Register!Next]_<<Visible, Replaceable>>
<1>1. CASE UNCHANGED storeVars
    BY <1>1 DEF storeVars, Visible, Replaceable, Transactional
<1>2. ASSUME NEW c \in SUBSET world.edits, EditFile(c)
      PROVE  Stepped /\ Replaceable' = Replaceable
    <2>1. Stepped
        BY <1>2, NotSeen DEF EditFile, lock
    <2>2. world'.ops = world.ops /\ world'.faults = world.faults \ {"edit"}
        BY <1>2 DEF EditFile, IInv, Typed, StoreTypeOK, WorldType
    <2> QED  BY <2>1, <2>2 DEF Replaceable, Transactional
<1>3. ASSUME NEW u \in Updaters, Start(u) \/ Continue(u)
      PROVE  Stepped /\ world' = world
    <2>1. CASE Start(u)
        BY <2>1, StartRefines DEF Start, BeginTransaction, UpdateMemory, Import
    <2>2. CASE Continue(u)
        BY <2>2, ContinueRefines
           DEF Continue, BeginPersist, OpenTmp, WriteTmp, FailWrite, RenameTmp,
               FailRename, Apply, ReconfigureEngine, FailReconfigure
    <2> QED  BY <1>3, <2>1, <2>2
<1>4. ASSUME Reload \/ Crash \/ Restart
      PROVE  Stepped /\ world' = world
    BY <1>4, ReloadRefines, CrashRefines, RestartRefines
       DEF Reload, LoadFile, SwapMemory, GetMemory, ReloadEngine, FailBuild, Crash, Restart
<1>5. world' = world => Replaceable' = Replaceable
    BY DEF Replaceable, Transactional
<1> QED  BY <1>1, <1>2, <1>3, <1>4, <1>5, SoundSteps DEF StoreNext

(* Until it gives the lock back, readers see what a transaction began from; *)
(* on the ways out that are errors they go on doing so.                    *)
LEMMA FailuresShowNothing ==
    ASSUME IInv, NEW u \in Updaters, proc[u].op # "UpdateAndPersist", GivesUp(u)
    PROVE  Visible' = proc[u].old
<1>1. StoreTypeOK /\ proc[u].pc \in {"write", "undoWrite", "rename", "undoRename"}
    BY DEF IInv, Typed, GivesUp, FailWrite, FailRename
<1>2. writer = u /\ memory = proc[u].old
    BY <1>1 DEF IInv, Holding, Changing
<1>3. memory' = memory /\ Release(u)
    BY DEF GivesUp, FailWrite, FailRename, RenameTmp, AfterRename
<1>4. writer' = None
    BY <1>2, <1>3 DEF Release
<1> QED BY <1>2, <1>3, <1>4 DEF Visible

(* What readers of the configuration see changes by one valid edit at a    *)
(* time: no edit is lost, and none that a transactional update fails to    *)
(* bring to the file and the engine is seen.                               *)
THEOREM StoreIsRegister == StoreSpec => MemoryIsRegister
<1>1. StoreInit => Register!Init
    BY DEF StoreInit, Register!Init, Visible, Replaceable, Transactional
<1>2. IInv /\ [StoreNext]_storeVars =>
        [\A u \in Updaters :
           proc[u].op # "UpdateAndPersist" /\ GivesUp(u) => Visible' = proc[u].old]_storeVars
    BY FailuresShowNothing
<1> QED
    BY <1>1, <1>2, Invariant, StepRefines, PTL
    DEF StoreSpec, MemoryIsRegister, FailuresUnseen, Register!Spec

-----------------------------------------------------------------------------
(* The tunnels: DisableStops.                                               *)

(* What SetState writes keeps the form of a status.                        *)
LEMMA StatusOfFailure ==
  ASSUME NEW s \in Status, NEW b \in BOOLEAN, NEW c \in BOOLEAN
  PROVE  LET t == [s EXCEPT !.error = b, !.running = c] IN t \in Status /\ t.enabled = s.enabled
BY DEF Status

LEMMA StatusOfProcess ==
  ASSUME NEW s \in Status, NEW b \in BOOLEAN, NEW c \in BOOLEAN
  PROVE  LET t == [s EXCEPT !.running = b, !.error = c] IN t \in Status /\ t.enabled = s.enabled
BY DEF Status

LEMMA StatusOfStop ==
  ASSUME NEW s \in Status, NEW b \in BOOLEAN
  PROVE  LET t == [s EXCEPT !.running = b] IN t \in Status /\ t.enabled = s.enabled
BY DEF Status

LEMMA StatusOfAddress ==
  ASSUME NEW s \in Status, NEW u \in Tunnels
  PROVE  LET t == [s EXCEPT !.url = u] IN t \in Status /\ t.enabled = s.enabled
BY DEF Status

LEMMA StatusOfTailscale ==
  ASSUME NEW s \in Status, NEW b \in BOOLEAN
  PROVE  LET t == [s EXCEPT !.tailscale = b] IN t \in Status /\ t.enabled = s.enabled
BY DEF Status

LEMMA StatusOfEnable ==
  ASSUME NEW s \in Status
  PROVE  LET t == [s EXCEPT !.enabled = TRUE, !.error = FALSE] IN t \in Status /\ t.enabled = TRUE
BY DEF Status

LEMMA StatusOfDisable ==
  ASSUME NEW s \in Status
  PROVE  LET t == [s EXCEPT !.enabled = FALSE, !.running = FALSE] IN t \in Status /\ t.enabled = FALSE
BY DEF Status

Stages == {"none", "start", "born", "wait", "exit", "done"}
Lives == {"none", "alive", "exited", "reaped"}

(* A subprocess lives only while its Start waits for it or is about to;    *)
(* tunnels that no Enable has begun have none; and once the state says     *)
(* that the tunnel is off, all goroutines of Enable have ended.            *)
TunnelKept ==
    /\ enables \in 0..MaxEnables
    /\ runs \in [Tunnels -> Run] /\ child \in [Tunnels -> Lives]
    /\ mstate \in Status /\ saved \in Status
    /\ \A i \in Tunnels :
         /\ child[i] \in {"alive", "exited"} => runs[i].pc \in {"born", "wait"}
         /\ enables < i => runs[i].pc = "none"
    /\ mstate.enabled \/ Joined

LEMMA TunnelNumbers ==
  /\ 1..MaxEnables \subseteq Tunnels /\ 0 \in Tunnels
  /\ \A n \in 0..MaxEnables : n \in Int /\ 1..n \subseteq Tunnels
BY TunnelAssumption DEF Tunnels

(* A step of one goroutine that has begun and not ended.                   *)
LEMMA RunMoves ==
  ASSUME TunnelKept, NEW i \in Tunnels, NEW pc \in Stages, NEW life \in Lives,
         runs[i].pc \notin {"none", "done"}, Goto(i, pc),
         child' = [child EXCEPT ![i] = life], life \in {"alive", "exited"} => pc \in {"born", "wait"},
         pc # "none", enables' = enables, mstate' \in Status, saved' \in Status,
         mstate'.enabled = mstate.enabled
  PROVE  TunnelKept'
<1> DEFINE r == [runs[i] EXCEPT !.pc = pc]
<1>1. /\ runs \in [Tunnels -> Run] /\ child \in [Tunnels -> Lives]
      /\ enables \in 0..MaxEnables
  BY DEF TunnelKept
<1>2. r \in Run /\ r.pc = pc /\ runs' = [runs EXCEPT ![i] = r]
  BY <1>1 DEF Run, Stages, Goto
<1> HIDE DEF r
<1>3. /\ runs' \in [Tunnels -> Run] /\ runs'[i] = r
      /\ child' \in [Tunnels -> Lives] /\ child'[i] = life
      /\ \A k \in Tunnels : k # i => runs'[k] = runs[k] /\ child'[k] = child[k]
  BY <1>1, <1>2
<1>4. ASSUME NEW k \in Tunnels
      PROVE  /\ child'[k] \in {"alive", "exited"} => runs'[k].pc \in {"born", "wait"}
             /\ enables' < k => runs'[k].pc = "none"
  BY <1>2, <1>3 DEF TunnelKept
<1>5. mstate'.enabled \/ Joined'
  <2>1. CASE mstate.enabled
    BY <2>1
  <2>2. CASE Joined
    <3>1. i \notin 1..enables
      BY <2>2 DEF Joined
    <3>2. \A k \in 1..enables : runs'[k] = runs[k]
      BY <1>1, <1>3, <3>1, TunnelNumbers
    <3> QED BY <2>2, <3>2 DEF Joined
  <2> QED BY <2>1, <2>2 DEF TunnelKept
<1> QED BY <1>1, <1>3, <1>4, <1>5 DEF TunnelKept

LEMMA RunKeeps ==
  ASSUME TunnelKept, NEW i \in Tunnels, RunStep(i)
  PROVE  TunnelKept'
<1>1. /\ child \in [Tunnels -> Lives] /\ mstate \in Status /\ saved \in Status
      /\ child[i] \in Lives /\ child = [child EXCEPT ![i] = child[i]]
      /\ child[i] \in {"alive", "exited"} => runs[i].pc \in {"born", "wait"}
  BY DEF TunnelKept
<1>2. CASE RejectProvider(i)
  BY <1>1, <1>2, RunMoves DEF RejectProvider, At, manager, Stages
<1>3. CASE FailStart(i)
  <2>1. mstate' = [mstate EXCEPT !.error = TRUE, !.running = FALSE] /\ saved' = mstate'
    BY <1>3 DEF FailStart, SetState
  <2>2. mstate' \in Status /\ mstate'.enabled = mstate.enabled
    BY <1>1, <2>1, StatusOfFailure
  <2> QED BY <1>1, <1>3, <2>1, <2>2, RunMoves DEF FailStart, CanStart, At, Stages
<1>4. CASE StartChild(i)
  BY <1>1, <1>4, RunMoves DEF StartChild, CanStart, At, manager, Stages, Lives
<1>5. CASE setProcess(i)
  <2>1. mstate' = [mstate EXCEPT !.running = TRUE, !.error = FALSE] /\ saved' = mstate'
    BY <1>5 DEF setProcess, SetState
  <2>2. mstate' \in Status /\ mstate'.enabled = mstate.enabled
    BY <1>1, <2>1, StatusOfProcess
  <2> QED BY <1>1, <1>5, <2>1, <2>2, RunMoves DEF setProcess, At, Stages
<1>6. CASE WaitChild(i)
  <2>1. PICK pc \in {"exit", "done"} : Goto(i, pc)
    BY <1>6 DEF WaitChild
  <2>2. pc \in Stages /\ pc # "none" /\ "reaped" \in Lives
    BY DEF Stages, Lives
  <2> QED BY <1>1, <1>6, <2>1, <2>2, RunMoves DEF WaitChild, At, manager
<1>7. CASE setStopped(i)
  <2>1. PICK error \in BOOLEAN :
          mstate' = [mstate EXCEPT !.running = FALSE, !.error = error] /\ saved' = mstate'
    BY <1>7 DEF setStopped, SetState
  <2>2. mstate' \in Status /\ mstate'.enabled = mstate.enabled
    BY <1>1, <2>1, StatusOfProcess
  <2> QED BY <1>1, <1>7, <2>1, <2>2, RunMoves DEF setStopped, At, Stages
<1> QED BY <1>2, <1>3, <1>4, <1>5, <1>6, <1>7 DEF RunStep

(* Subprocesses, their logs and the check of tailscale.                    *)
LEMMA ChildKeeps ==
  ASSUME TunnelKept, NEW i \in Tunnels,
         ChildExits(i) \/ scanOutput(i) \/ watchProcessLogs(i)
  PROVE  TunnelKept'
<1>1. CASE ChildExits(i)
  <2>1. /\ child[i] = "alive" /\ child' = [child EXCEPT ![i] = "exited"]
        /\ UNCHANGED <<runs, enables, mstate, saved>>
    BY <1>1 DEF ChildExits, manager
  <2>2. child' \in [Tunnels -> Lives]
        /\ \A k \in Tunnels : child'[k] \in {"alive", "exited"} => child[k] \in {"alive", "exited"}
    BY <2>1 DEF TunnelKept, Lives
  <2> QED BY <2>1, <2>2 DEF TunnelKept, Joined
<1>2. CASE scanOutput(i)
  BY <1>2 DEF scanOutput, manager, TunnelKept, Joined
<1>3. CASE watchProcessLogs(i)
  <2>1. mstate \in Status /\ mstate' = [mstate EXCEPT !.url = i] /\ saved' = mstate'
    BY <1>3 DEF watchProcessLogs, SetState, TunnelKept
  <2>2. mstate' \in Status /\ mstate'.enabled = mstate.enabled
    BY <2>1, StatusOfAddress
  <2> QED BY <1>3, <2>1, <2>2 DEF watchProcessLogs, TunnelKept, Joined
<1> QED BY <1>1, <1>2, <1>3

LEMMA EnableKeeps ==
  ASSUME TunnelKept, NEW p, handleTunnelEnable(p)
  PROVE  TunnelKept'
<1> DEFINE i == enables + 1
           r == [NoRun EXCEPT !.pc = "start"]
<1>1. /\ enables < MaxEnables /\ enables' = i /\ runs' = [runs EXCEPT ![i] = r]
      /\ mstate' = [mstate EXCEPT !.enabled = TRUE, !.error = FALSE] /\ saved' = mstate'
      /\ child' = child
  BY DEF handleTunnelEnable, SetState
<1>2. i \in 0..MaxEnables /\ i \in Tunnels /\ enables \in Int
  BY <1>1, TunnelAssumption DEF TunnelKept, Tunnels
<1>3. r \in Run /\ r.pc = "start"
  BY DEF NoRun, Run
<1> HIDE DEF r
<1>4. mstate' \in Status /\ mstate'.enabled = TRUE
  <2>1. mstate \in Status
    BY DEF TunnelKept
  <2> QED BY <1>1, <2>1, StatusOfEnable
<1>5. runs[i].pc = "none"
  <2>1. enables < i
    BY <1>2
  <2> QED BY <1>2, <2>1 DEF TunnelKept
<1>6. /\ runs' \in [Tunnels -> Run] /\ runs'[i] = r
      /\ \A k \in Tunnels : k # i => runs'[k] = runs[k]
  BY <1>1, <1>2, <1>3 DEF TunnelKept
<1>7. \A k \in Tunnels : enables' < k => enables < k /\ k # i
  BY <1>1, <1>2 DEF Tunnels
<1> HIDE DEF i
<1>8. ASSUME NEW k \in Tunnels
      PROVE  /\ child'[k] \in {"alive", "exited"} => runs'[k].pc \in {"born", "wait"}
             /\ enables' < k => runs'[k].pc = "none"
  BY <1>1, <1>5, <1>6, <1>7 DEF TunnelKept
<1> QED BY <1>1, <1>2, <1>4, <1>6, <1>8 DEF TunnelKept

LEMMA StopKeeps ==
  ASSUME TunnelKept, Stop \/ StopStep
  PROVE  TunnelKept'
<1>1. CASE Stop
  <2>1. /\ mstate \in Status /\ mstate' = [mstate EXCEPT !.running = FALSE]
        /\ saved' = mstate'
    BY <1>1 DEF Stop, SetState, TunnelKept
  <2>2. mstate' \in Status /\ mstate'.enabled = mstate.enabled
    BY <2>1, StatusOfStop
  <2> QED BY <1>1, <2>1, <2>2 DEF Stop, TunnelKept, Joined
<1>2. CASE CancelAndKill
  <2>1. /\ runs' = [k \in Tunnels |-> IF k = stopping.cancel
                      THEN [runs[k] EXCEPT !.cancelled = TRUE] ELSE runs[k]]
        /\ child' = [k \in Tunnels |-> IF k = stopping.proc /\ child[k] = "alive"
                       THEN "exited" ELSE child[k]]
        /\ UNCHANGED <<enables, mstate, saved>>
    BY <1>2 DEF CancelAndKill, manager
  <2>2. \A k \in Tunnels : runs[k] \in Run /\ child[k] \in Lives
    BY DEF TunnelKept
  <2>3. \A k \in Tunnels : [runs[k] EXCEPT !.cancelled = TRUE] \in Run
                           /\ [runs[k] EXCEPT !.cancelled = TRUE].pc = runs[k].pc
    BY <2>2 DEF Run
  <2>4. runs' \in [Tunnels -> Run] /\ \A k \in Tunnels : runs'[k].pc = runs[k].pc
    BY <2>1, <2>2, <2>3
  <2>5. child' \in [Tunnels -> Lives]
        /\ \A k \in Tunnels : child'[k] \in {"alive", "exited"} => child[k] \in {"alive", "exited"}
    BY <2>1, <2>2 DEF Lives
  <2>6. Joined => Joined'
    BY <2>1, <2>4, TunnelNumbers DEF Joined, TunnelKept
  <2> QED BY <2>1, <2>4, <2>5, <2>6 DEF TunnelKept
<1>3. CASE Disable
  <2>1. /\ Joined /\ mstate' = [mstate EXCEPT !.enabled = FALSE, !.running = FALSE]
        /\ saved' = mstate' /\ mstate \in Status /\ UNCHANGED <<runs, child, enables>>
    BY <1>3 DEF Disable, SetState, TunnelKept
  <2>2. mstate' \in Status
    BY <2>1, StatusOfDisable
  <2> QED BY <2>1, <2>2 DEF TunnelKept, Joined
<1>4. CASE handleTunnelDisable
  BY <1>4 DEF handleTunnelDisable, manager, TunnelKept, Joined
<1> QED BY <1>1, <1>2, <1>3, <1>4 DEF StopStep

LEMMA TunnelStep == TunnelKept /\ [TunnelNext]_tunnelVars => TunnelKept'
<1> SUFFICES ASSUME TunnelKept, [TunnelNext]_tunnelVars PROVE TunnelKept'
  OBVIOUS
<1>1. CASE UNCHANGED tunnelVars
  BY <1>1 DEF tunnelVars, TunnelKept, Joined
<1>2. ASSUME NEW running \in BOOLEAN, CheckTailscale(running) PROVE TunnelKept'
  <2>1. /\ mstate \in Status /\ mstate' = [mstate EXCEPT !.tailscale = running]
        /\ saved' = mstate'
    BY <1>2 DEF CheckTailscale, SetState, TunnelKept
  <2>2. mstate' \in Status /\ mstate'.enabled = mstate.enabled
    BY <2>1, StatusOfTailscale
  <2> QED BY <1>2, <2>1, <2>2 DEF CheckTailscale, TunnelKept, Joined
<1>3. CASE NewManager
  <2>1. /\ runs' = [i \in Tunnels |-> [NoRun EXCEPT
                      !.pc = IF i = 0 /\ tconfig THEN "start" ELSE "none"]]
        /\ child' = [i \in Tunnels |-> "none"] /\ enables' = 0
        /\ mstate' = saved /\ saved' = saved
    BY <1>3 DEF NewManager
  <2>2. \A pc \in {"start", "none"} : [NoRun EXCEPT !.pc = pc] \in Run
                                      /\ [NoRun EXCEPT !.pc = pc].pc = pc
    BY DEF NoRun, Run
  <2>3. \A i \in Tunnels : runs'[i] \in Run /\ (i # 0 => runs'[i].pc = "none")
    BY <2>1, <2>2
  <2>4. runs' \in [Tunnels -> Run] /\ child' \in [Tunnels -> Lives]
    BY <2>1, <2>3 DEF Lives
  <2>5. \A i \in Tunnels : child'[i] = "none" /\ (enables' < i => runs'[i].pc = "none")
    BY <2>1, <2>3 DEF Tunnels
  <2>6. Joined' /\ 0 \in 0..MaxEnables
    BY <2>1, TunnelAssumption DEF Joined
  <2> QED BY <2>1, <2>4, <2>5, <2>6 DEF TunnelKept
<1> QED BY <1>1, <1>2, <1>3, RunKeeps, ChildKeeps, EnableKeeps, StopKeeps DEF TunnelNext

LEMMA TunnelStarts == TunnelInit => TunnelKept
<1> SUFFICES ASSUME TunnelInit PROVE TunnelKept
  OBVIOUS
<1>1. PICK on \in BOOLEAN :
        /\ runs = [i \in Tunnels |->
                     IF i = 0 /\ on THEN [NoRun EXCEPT !.pc = "start"] ELSE NoRun]
        /\ mstate = [FreshStatus EXCEPT !.enabled = on]
  BY DEF TunnelInit
<1>2. saved = mstate /\ child = [i \in Tunnels |-> "none"] /\ enables = 0
  BY DEF TunnelInit
<1>3. FreshStatus \in Status
  BY DEF FreshStatus, Status
<1>4. mstate \in Status
  BY <1>1, <1>3 DEF Status
<1>5. /\ NoRun \in Run /\ NoRun.pc = "none" /\ [NoRun EXCEPT !.pc = "start"] \in Run
  BY DEF NoRun, Run
<1>6. \A i \in Tunnels : runs[i] \in Run /\ (i # 0 => runs[i].pc = "none")
  BY <1>1, <1>5
<1>7. runs \in [Tunnels -> Run] /\ child \in [Tunnels -> Lives]
  BY <1>1, <1>2, <1>6 DEF Lives
<1>8. \A i \in Tunnels : child[i] = "none" /\ (enables < i => runs[i].pc = "none")
  BY <1>2, <1>6 DEF Tunnels
<1>9. Joined /\ 0 \in 0..MaxEnables
  BY <1>2, TunnelAssumption DEF Joined
<1> QED BY <1>2, <1>4, <1>7, <1>8, <1>9 DEF TunnelKept

LEMMA TunnelInvariant == TunnelSpec => []TunnelKept
BY TunnelStarts, TunnelStep, PTL DEF TunnelSpec

(* However the goroutines of Enable, their subprocesses and a disable      *)
(* request interleave, for any number of enables: once the disable has     *)
(* said that the tunnel is off, no process that an Enable started is left  *)
(* (DisableStops).                                                         *)
THEOREM DisableLeavesNone == TunnelSpec => []DisableStops
<1>1. ASSUME TunnelKept, ~mstate.enabled, NEW i \in 1..MaxEnables PROVE child[i] # "alive"
  <2>1. i \in Tunnels /\ i \in Int /\ enables \in Int /\ i >= 1
    BY <1>1, TunnelNumbers DEF TunnelKept
  <2>2. runs[i].pc \in {"none", "done"}
    <3>1. CASE i <= enables
      BY <1>1, <2>1, <3>1 DEF TunnelKept, Joined
    <3>2. CASE enables < i
      BY <1>1, <2>1, <3>2 DEF TunnelKept
    <3> QED BY <2>1, <3>1, <3>2
  <2> QED BY <1>1, <2>1, <2>2 DEF TunnelKept
<1>2. TunnelKept => DisableStops
  BY <1>1 DEF DisableStops
<1> QED BY <1>2, TunnelInvariant, PTL

-----------------------------------------------------------------------------
(* The stream relay: RelayIsFaithful.                                       *)

(* Induction over the natural numbers, for a set.                          *)
LEMMA NatSet ==
  ASSUME NEW S \in SUBSET Nat, 0 \in S, \A n \in S : n + 1 \in S
  PROVE  S = Nat
<1> SUFFICES ASSUME Nat \ S # {} PROVE FALSE
  OBVIOUS
<1> DEFINE R == OpToRel(<, Nat)
<1>1. PICK n \in Nat \ S : \A m \in Nat \ S : <<m, n>> \notin R
  <2>1. IsWellFoundedOn(R, Nat)
    BY NatLessThanWellFounded
  <2>2. Nat \ S \subseteq Nat /\ Nat \ S # {}
    OBVIOUS
  <2> HIDE DEF R
  <2> QED BY <2>1, <2>2, WFMin
<1>2. \A m \in Nat \ S : ~(m < n)
  BY <1>1 DEF OpToRel
<1>3. n # 0
  OBVIOUS
<1>4. n - 1 \in Nat /\ n - 1 < n /\ (n - 1) + 1 = n
  BY <1>3
<1>5. n - 1 \in S
  BY <1>2, <1>4
<1> QED BY <1>4, <1>5

(* The recursive definition of ChunksUpTo defines a function: for each n   *)
(* there is one that follows it up to n.                                   *)
NextChunks(s, F, n) == IF IsChunk(s[n]) THEN Append(F[n - 1], s[n]) ELSE F[n - 1]

FollowsUpTo(s, F, n) ==
    /\ F \in [0..n -> Seq(Int)] /\ F[0] = << >>
    /\ \A k \in 1..n : F[k] = NextChunks(s, F, k)

LEMMA FollowersExist ==
  ASSUME NEW s \in Seq(Int), NEW n \in 0..Len(s)
  PROVE  \E F : FollowsUpTo(s, F, n)
<1> DEFINE S == {k \in Nat : k <= Len(s) => \E F : FollowsUpTo(s, F, k)}
<1>1. 0 \in S
  <2> DEFINE F == [k \in 0..0 |-> << >>]
  <2>1. F \in [0..0 -> Seq(Int)] /\ F[0] = << >>
    OBVIOUS
  <2>2. FollowsUpTo(s, F, 0)
    BY <2>1 DEF FollowsUpTo
  <2> QED BY <2>2
<1>2. ASSUME NEW k \in S PROVE k + 1 \in S
  <2> SUFFICES ASSUME k + 1 <= Len(s) PROVE \E F : FollowsUpTo(s, F, k + 1)
    OBVIOUS
  <2>1. k \in Nat /\ k + 1 \in 1..Len(s) /\ k <= Len(s)
    OBVIOUS
  <2>2. PICK F : FollowsUpTo(s, F, k)
    BY <2>1
  <2> DEFINE x == IF IsChunk(s[k + 1]) THEN Append(F[k], s[k + 1]) ELSE F[k]
             G == [i \in 0..(k + 1) |-> IF i <= k THEN F[i] ELSE x]
  <2>3. F[k] \in Seq(Int) /\ s[k + 1] \in Int
    BY <2>1, <2>2, ElementOfSeq DEF FollowsUpTo
  <2>4. x \in Seq(Int)
    BY <2>3, AppendProperties
  <2> HIDE DEF x
  <2>5. \A i \in 0..(k + 1) : i \in 0..k \/ (i = k + 1 /\ ~(i <= k))
    BY <2>1
  <2>6. G \in [0..(k + 1) -> Seq(Int)]
    BY <2>2, <2>4, <2>5 DEF FollowsUpTo
  <2>7. /\ \A i \in 0..k : G[i] = F[i]
        /\ G[k + 1] = x
    BY <2>1
  <2> HIDE DEF G
  <2>8. G[0] = << >>
    <3>1. 0 \in 0..k /\ F[0] = << >>
      BY <2>1, <2>2 DEF FollowsUpTo
    <3> QED BY <2>7, <3>1
  <2>9. ASSUME NEW i \in 1..(k + 1) PROVE G[i] = NextChunks(s, G, i)
    <3>1. CASE i = k + 1
      <4>1. (k + 1) - 1 = k /\ G[k] = F[k]
        BY <2>1, <2>7
      <4> QED BY <2>7, <3>1, <4>1 DEF NextChunks, x
    <3>2. CASE i # k + 1
      <4>1. i \in 1..k /\ i \in 0..k /\ i - 1 \in 0..k
        BY <2>1, <3>2
      <4>2. G[i] = F[i] /\ G[i - 1] = F[i - 1] /\ F[i] = NextChunks(s, F, i)
        BY <2>2, <2>7, <4>1 DEF FollowsUpTo
      <4> QED BY <4>2 DEF NextChunks
    <3> QED BY <3>1, <3>2
  <2> QED BY <2>6, <2>8, <2>9 DEF FollowsUpTo
<1> HIDE DEF S
<1>3. S = Nat
  <2>1. S \in SUBSET Nat
    BY DEF S
  <2> QED BY <1>1, <1>2, <2>1, NatSet
<1> QED BY <1>3 DEF S

LEMMA ChunksFollow ==
  ASSUME NEW s \in Seq(Int)
  PROVE  FollowsUpTo(s, ChunksUpTo(s), Len(s))
<1> DEFINE Fits(F) ==
      F = [n \in 0..Len(s) |->
             IF n = 0 THEN << >>
             ELSE IF IsChunk(s[n]) THEN Append(F[n - 1], s[n]) ELSE F[n - 1]]
<1>1. Len(s) \in 0..Len(s) /\ Len(s) \in Nat
  OBVIOUS
<1>2. PICK F : FollowsUpTo(s, F, Len(s))
  BY <1>1, FollowersExist
<1>3. Fits(F)
  <2>1. \A n \in 0..Len(s) : n = 0 \/ n \in 1..Len(s)
    OBVIOUS
  <2>2. F \in [0..Len(s) -> Seq(Int)]
    BY <1>2 DEF FollowsUpTo
  <2>3. \A n \in 0..Len(s) : F[n] = IF n = 0 THEN << >>
           ELSE IF IsChunk(s[n]) THEN Append(F[n - 1], s[n]) ELSE F[n - 1]
    BY <1>2, <2>1 DEF FollowsUpTo, NextChunks
  <2> QED BY <2>2, <2>3
<1> DEFINE C == ChunksUpTo(s)
<1>4. C = CHOOSE G : Fits(G)
  BY DEF ChunksUpTo
<1>5. Fits(C)
  <2> HIDE DEF Fits
  <2> QED BY <1>3, <1>4
<1> HIDE DEF C
<1>6. DOMAIN C = 0..Len(s) /\ C[0] = << >>
      /\ \A n \in 1..Len(s) : C[n] = NextChunks(s, C, n)
  <2>1. DOMAIN C = 0..Len(s)
    BY <1>5
  <2>2. \A n \in 0..Len(s) : C[n] = IF n = 0 THEN << >>
          ELSE IF IsChunk(s[n]) THEN Append(C[n - 1], s[n]) ELSE C[n - 1]
    BY <1>5
  <2>3. 0 \in 0..Len(s) /\ \A n \in 1..Len(s) : n \in 0..Len(s) /\ n # 0
    BY <1>1
  <2> QED BY <2>1, <2>2, <2>3 DEF NextChunks
<1> DEFINE S == {n \in Nat : n <= Len(s) => C[n] \in Seq(Int)}
<1>7. 0 \in S
  <2>1. C[0] \in Seq(Int)
    BY <1>6
  <2> QED BY <2>1
<1>8. ASSUME NEW n \in S PROVE n + 1 \in S
  <2> SUFFICES ASSUME n + 1 <= Len(s) PROVE C[n + 1] \in Seq(Int)
    OBVIOUS
  <2>1. n + 1 \in 1..Len(s) /\ (n + 1) - 1 = n /\ C[n] \in Seq(Int)
    OBVIOUS
  <2>2. C[n + 1] = IF IsChunk(s[n + 1]) THEN Append(C[n], s[n + 1]) ELSE C[n]
    BY <1>6, <2>1 DEF NextChunks
  <2>3. s[n + 1] \in Int
    BY <2>1, ElementOfSeq
  <2> QED BY <2>1, <2>2, <2>3, AppendProperties
<1>9. \A n \in 0..Len(s) : C[n] \in Seq(Int)
  <2>1. S \in SUBSET Nat
    OBVIOUS
  <2> HIDE DEF S
  <2>2. S = Nat
    BY <1>7, <1>8, <2>1, NatSet
  <2> QED BY <2>2 DEF S
<1>10. C \in [0..Len(s) -> Seq(Int)]
  BY <1>5, <1>6, <1>9
<1> QED BY <1>6, <1>10 DEF FollowsUpTo, C

(* One more line adds its chunk, if it is one.                             *)
LEMMA ChunksAdvance ==
  ASSUME NEW s \in Seq(Int)
  PROVE  LET C == ChunksUpTo(s) IN
         /\ \A n \in 0..Len(s) : C[n] \in Seq(Int)
         /\ C[0] = << >> /\ C[Len(s)] = ChunksOf(s)
         /\ \A n \in 0..(Len(s) - 1) :
              C[n + 1] = IF IsChunk(s[n + 1]) THEN Append(C[n], s[n + 1]) ELSE C[n]
<1>1. FollowsUpTo(s, ChunksUpTo(s), Len(s))
  BY ChunksFollow
<1>2. \A n \in 0..(Len(s) - 1) : n + 1 \in 1..Len(s) /\ (n + 1) - 1 = n
  OBVIOUS
<1> QED BY <1>1, <1>2 DEF FollowsUpTo, NextChunks, ChunksOf

LEMMA JoinAt ==
  ASSUME NEW S, NEW x \in S, NEW c \in Seq(S), NEW e \in Seq(S)
  PROVE  /\ Append(c, x) \o e = c \o (<<x>> \o e)
         /\ <<x>> \o e \in Seq(S)
<1> DEFINE y == <<x>>
<1>1. y \in Seq(S) /\ Append(c, x) = c \o y
  BY AppendIsConcat
<1> HIDE DEF y
<1>2. (c \o y) \o e = c \o (y \o e)
  BY <1>1, ConcatAssociative
<1>3. y \o e \in Seq(S)
  BY <1>1, ConcatProperties
<1> QED BY <1>1, <1>2, <1>3 DEF y

(* The chunks of the first lines are those that all lines begin with, and  *)
(* all there are when no other line is a chunk.                            *)
LEMMA ChunksRemain ==
  ASSUME NEW s \in Seq(Int), NEW n \in 0..Len(s)
  PROVE  \E e \in Seq(Int) :
           /\ ChunksOf(s) = ChunksUpTo(s)[n] \o e
           /\ (\A i \in (n + 1)..Len(s) : ~IsChunk(s[i])) => e = << >>
<1> DEFINE C == ChunksUpTo(s)
           Rest(k, e) == /\ C[Len(s)] = C[Len(s) - k] \o e
                         /\ (\A i \in (Len(s) - k + 1)..Len(s) : ~IsChunk(s[i])) => e = << >>
           S == {k \in Nat : k <= Len(s) => \E e \in Seq(Int) : Rest(k, e)}
<1>1. /\ \A k \in 0..Len(s) : C[k] \in Seq(Int)
      /\ C[Len(s)] = ChunksOf(s)
      /\ \A k \in 0..(Len(s) - 1) :
           C[k + 1] = IF IsChunk(s[k + 1]) THEN Append(C[k], s[k + 1]) ELSE C[k]
  BY ChunksAdvance
<1> HIDE DEF C
<1>2. Len(s) \in Nat
  OBVIOUS
<1>3. 0 \in S
  <2>1. Len(s) - 0 = Len(s) /\ C[Len(s)] \in Seq(Int) /\ << >> \in Seq(Int)
    BY <1>1, <1>2
  <2>2. C[Len(s)] = C[Len(s)] \o << >>
    BY <2>1, ConcatEmptySeq
  <2> QED BY <2>1, <2>2
<1>4. ASSUME NEW k \in Nat, k \in S PROVE k + 1 \in S
  <2> SUFFICES ASSUME k + 1 <= Len(s) PROVE \E e \in Seq(Int) : Rest(k + 1, e)
    <3> HIDE DEF Rest
    <3> QED OBVIOUS
  <2>1. k \in Nat /\ k <= Len(s)
    BY <1>2
  <2>2. PICK e \in Seq(Int) : Rest(k, e)
    BY <1>4, <2>1
  <2> DEFINE i == Len(s) - k
  <2>3. /\ i - 1 \in 0..(Len(s) - 1) /\ (i - 1) + 1 = i /\ Len(s) - (k + 1) = i - 1
        /\ i \in 1..Len(s) /\ i \in i..Len(s) /\ (i + 1)..Len(s) \subseteq i..Len(s)
        /\ i - 1 \in 0..Len(s)
    BY <1>2, <2>1
  <2> HIDE DEF i
  <2>4. s[i] \in Int /\ C[i - 1] \in Seq(Int) /\ C[i] \in Seq(Int)
    BY <1>1, <2>3, ElementOfSeq
  <2>5. C[i] = IF IsChunk(s[i]) THEN Append(C[i - 1], s[i]) ELSE C[i - 1]
    BY <1>1, <2>3
  <2>6. /\ C[Len(s)] = C[i] \o e
        /\ (\A j \in (i + 1)..Len(s) : ~IsChunk(s[j])) => e = << >>
    BY <2>2 DEF i
  <2>7. CASE IsChunk(s[i])
    <3> DEFINE f == <<s[i]>> \o e
    <3>1. f \in Seq(Int)
      BY <2>4, JoinAt
    <3>2. Append(C[i - 1], s[i]) \o e = C[i - 1] \o f
      <4> DEFINE c == C[i - 1]
                 x == s[i]
      <4>1. c \in Seq(Int) /\ x \in Int
        BY <2>4
      <4> HIDE DEF c, x
      <4>2. Append(c, x) \o e = c \o (<<x>> \o e)
        BY <4>1, JoinAt, SMTT(60)
      <4> QED BY <4>2 DEF c, x
    <3>3. C[Len(s)] = C[i - 1] \o f
      BY <2>5, <2>6, <2>7, <3>2
    <3>4. Rest(k + 1, f)
      BY <2>3, <2>7, <3>3
    <3> QED BY <3>1, <3>4
  <2>8. CASE ~IsChunk(s[i])
    <3>1. C[Len(s)] = C[i - 1] \o e
      BY <2>5, <2>6, <2>8
    <3>2. Rest(k + 1, e)
      BY <2>3, <2>6, <3>1
    <3> QED BY <3>2
  <2> QED BY <2>7, <2>8
<1>5. S = Nat
  <2>1. S \in SUBSET Nat
    OBVIOUS
  <2> HIDE DEF S
  <2>2. \A k \in S : k \in Nat
    BY <2>1
  <2> QED BY <1>3, <1>4, <2>1, <2>2, NatSet
<1>6. Len(s) - n \in Nat /\ Len(s) - n <= Len(s) /\ Len(s) - (Len(s) - n) = n
  BY <1>2
<1>7. PICK e \in Seq(Int) : Rest(Len(s) - n, e)
  BY <1>5, <1>6
<1> QED BY <1>1, <1>6, <1>7 DEF C

(* What is delivered, in the handler's hand, in the channel and in the     *)
(* goroutine's hand.                                                       *)
Flow(d, h, c, t) == ((d \o h) \o c) \o t

LEMMA FlowTyped ==
  ASSUME NEW S, NEW d \in Seq(S), NEW h \in Seq(S), NEW c \in Seq(S), NEW t \in Seq(S)
  PROVE  d \o h \in Seq(S) /\ (d \o h) \o c \in Seq(S) /\ Flow(d, h, c, t) \in Seq(S)
<1>1. d \o h \in Seq(S)
  BY ConcatProperties
<1>2. (d \o h) \o c \in Seq(S)
  BY <1>1, ConcatProperties
<1>3. ((d \o h) \o c) \o t \in Seq(S)
  BY <1>2, ConcatProperties
<1> QED BY <1>1, <1>2, <1>3 DEF Flow

StartsWith(d, w, S) == \E r \in Seq(S) : w = d \o r

LEMMA FlowFrom ==
  ASSUME NEW S, NEW d \in Seq(S), NEW h \in Seq(S), NEW c \in Seq(S), NEW t \in Seq(S)
  PROVE  StartsWith(d, Flow(d, h, c, t), S)
<1>1. h \o c \in Seq(S)
  BY ConcatProperties
<1>2. (h \o c) \o t \in Seq(S)
  BY <1>1, ConcatProperties
<1>3. (d \o h) \o c = d \o (h \o c)
  BY ConcatAssociative
<1>4. (d \o (h \o c)) \o t = d \o ((h \o c) \o t)
  BY <1>1, ConcatAssociative, SMTT(60)
<1> QED BY <1>2, <1>3, <1>4 DEF Flow, StartsWith

LEMMA FlowTakes ==
  ASSUME NEW S, NEW d \in Seq(S), NEW c \in Seq(S), NEW t \in Seq(S), c # << >>
  PROVE  /\ Flow(d, <<Head(c)>>, Tail(c), t) = Flow(d, << >>, c, t)
         /\ Head(c) \in S /\ Tail(c) \in Seq(S)
<1> DEFINE x == Head(c)
           y == <<x>>
           r == Tail(c)
<1>1. x \in S /\ y \in Seq(S) /\ r \in Seq(S) /\ c = y \o r
  <2>1. x \in S /\ r \in Seq(S)
    BY HeadTailProperties
  <2>2. c = <<Head(c)>> \o Tail(c)
    <3>1. Len(c) \in Nat \ {0} /\ Head(c) = c[1] /\ Len(Tail(c)) = Len(c) - 1
          /\ \A i \in 1..Len(Tail(c)) : Tail(c)[i] = c[i + 1]
      BY HeadTailProperties
    <3>2. /\ <<Head(c)>> \in Seq(S) /\ Len(<<Head(c)>>) = 1
          /\ <<Head(c)>>[1] = Head(c)
      BY <2>1
    <3>3. /\ y \o r \in Seq(S) /\ Len(y \o r) = Len(y) + Len(r)
          /\ \A i \in 1 .. Len(y) + Len(r) :
               (y \o r)[i] = IF i <= Len(y) THEN y[i] ELSE r[i - Len(y)]
      BY <2>1, <3>2, ConcatProperties
    <3>4. Len(y \o r) = Len(c)
      BY <3>1, <3>2, <3>3
    <3>5. ASSUME NEW i \in 1..Len(c) PROVE (y \o r)[i] = c[i]
      <4>1. CASE i = 1
        BY <3>1, <3>2, <3>3, <4>1
      <4>2. CASE i # 1
        <5>1. i - 1 \in 1..Len(r) /\ (i - 1) + 1 = i /\ ~(i <= 1) /\ i \in 1..(1 + Len(r))
          BY <3>1, <4>2
        <5>2. (y \o r)[i] = r[i - 1]
          BY <3>2, <3>3, <5>1
        <5>3. r[i - 1] = c[(i - 1) + 1]
          BY <3>1, <5>1
        <5> QED BY <5>1, <5>2, <5>3
      <4> QED BY <4>1, <4>2
    <3> QED BY <3>3, <3>4, <3>5, SeqEqual
  <2> QED BY <2>1, <2>2
<1> HIDE DEF x, y, r
<1>2. (d \o y) \o r = d \o (y \o r)
  <2>1. y \in Seq(S) /\ r \in Seq(S)
    BY <1>1
  <2> QED BY <2>1, ConcatAssociative, SMTT(60)
<1>3. d \o << >> = d
  BY ConcatEmptySeq
<1>4. Flow(d, y, r, t) = Flow(d, << >>, c, t)
  BY <1>1, <1>2, <1>3 DEF Flow
<1> QED BY <1>1, <1>4 DEF x, y, r

LEMMA FlowForwards ==
  ASSUME NEW S, NEW d \in Seq(S), NEW c \in Seq(S), NEW t \in Seq(S), NEW x \in S
  PROVE  Append(d, x) \in Seq(S) /\ Flow(Append(d, x), << >>, c, t) = Flow(d, <<x>>, c, t)
<1>1. Append(d, x) \in Seq(S) /\ Append(d, x) = d \o <<x>>
  BY AppendProperties, AppendIsConcat
<1>2. Append(d, x) \o << >> = Append(d, x)
  BY <1>1, ConcatEmptySeq
<1> QED BY <1>1, <1>2 DEF Flow

LEMMA FlowPasses ==
  \A S : \A d, h, c \in Seq(S) : \A x \in S :
    Flow(d, h, Append(c, x), << >>) = Flow(d, h, c, <<x>>)
<1> TAKE S
<1> TAKE d, h, c \in Seq(S)
<1> TAKE x \in S
<1> DEFINE y == <<x>>
           u == d \o h
<1>1. u \in Seq(S)
  BY FlowTyped
<1>2. y \in Seq(S) /\ Append(c, x) = c \o y
  BY AppendIsConcat
<1> HIDE DEF u
<1>3. (u \o c) \o y = u \o (c \o y)
  BY <1>1, <1>2, ConcatAssociative, SMTT(60)
<1>4. c \o y \in Seq(S)
  BY <1>2
<1>5. u \o (c \o y) \in Seq(S)
  BY <1>1, <1>4, ConcatProperties
<1>6. (u \o (c \o y)) \o << >> = u \o (c \o y)
  BY <1>5, ConcatEmptySeq
<1>7. Flow(d, h, c, y) = (u \o c) \o y /\ Flow(d, h, Append(c, x), << >>) = (u \o (c \o y)) \o << >>
  BY <1>2 DEF Flow, u
<1> QED BY <1>3, <1>6, <1>7

LEMMA FlowGrows ==
  \A S : \A d, h, c \in Seq(S) : \A x \in S :
    Flow(d, h, c, <<x>>) = Append(Flow(d, h, c, << >>), x)
<1> TAKE S
<1> TAKE d, h, c \in Seq(S)
<1> TAKE x \in S
<1> DEFINE v == (d \o h) \o c
<1>1. v \in Seq(S)
  BY FlowTyped
<1>2. Flow(d, h, c, << >>) = v
  <2>1. v \o << >> = v
    BY <1>1, ConcatEmptySeq
  <2> QED BY <2>1 DEF Flow
<1>3. Flow(d, h, c, <<x>>) = v \o <<x>>
  BY DEF Flow
<1> HIDE DEF v
<1>4. Append(v, x) = v \o <<x>>
  BY <1>1, AppendIsConcat
<1> QED BY <1>2, <1>3, <1>4

LEMMA FlowBegins ==
  ASSUME NEW S, NEW d \in Seq(S), NEW h \in Seq(S), NEW c \in Seq(S), NEW t \in Seq(S),
         NEW e \in Seq(S)
  PROVE  IsPrefix(d, Flow(d, h, c, t) \o e)
<1>1. PICK r \in Seq(S) : Flow(d, h, c, t) = d \o r
  <2>1. StartsWith(d, Flow(d, h, c, t), S)
    BY FlowFrom
  <2> QED BY <2>1 DEF StartsWith
<1> DEFINE w == r \o e
           T == d \o w
<1>3. w \in Seq(S) /\ (d \o r) \o e = T
  <2>1. w \in Seq(S)
    BY ConcatProperties
  <2>2. (d \o r) \o e = d \o (r \o e)
    BY ConcatAssociative, SMTT(60)
  <2> QED BY <2>1, <2>2
<1> HIDE DEF w
<1>4. /\ T \in Seq(S) /\ Len(T) = Len(d) + Len(w) /\ Len(d) \in Nat /\ Len(w) \in Nat
      /\ \A i \in 1 .. Len(d) + Len(w) : T[i] = IF i <= Len(d) THEN d[i] ELSE w[i - Len(d)]
  BY <1>3, ConcatProperties, LenProperties
<1> HIDE DEF T
<1>5. SubSeq(T, 1, Len(d)) = SubSeq(d, 1, Len(d))
  <2>1. Len(d) <= Len(T) /\ \A i \in 1..Len(d) : T[i] = d[i] /\ T[i] \in S
    <3>1. \A i \in 1..Len(d) : i \in 1..(Len(d) + Len(w)) /\ i <= Len(d)
      BY <1>4
    <3>2. \A i \in 1..Len(d) : d[i] \in S
      BY ElementOfSeq
    <3> QED BY <1>4, <3>1, <3>2
  <2>2. SubSeq(d, 1, Len(d)) = d
    BY SubSeqFull
  <2> DEFINE u == SubSeq(T, 1, Len(d))
  <2>3. /\ u \in Seq(S) /\ Len(u) = IF 1 <= Len(d) THEN Len(d) - 1 + 1 ELSE 0
        /\ \A i \in 1..(Len(d) - 1 + 1) : u[i] = T[1 + i - 1]
    <3>1. 1 \in Int /\ Len(d) \in Int /\ \A i \in 1..Len(d) : T[i] \in S
      BY <1>4, <2>1
    <3> QED BY <1>4, <3>1, SubSeqProperties
  <2> HIDE DEF u
  <2>4. Len(u) = Len(d) /\ \A i \in 1..Len(d) : u[i] = d[i]
    <3>1. Len(u) = Len(d)
      BY <1>4, <2>3
    <3>2. ASSUME NEW i \in 1..Len(d) PROVE u[i] = d[i]
      <4>1. i \in 1..(Len(d) - 1 + 1) /\ 1 + i - 1 = i
        BY <1>4
      <4>2. u[i] = T[1 + i - 1]
        BY <2>3, <4>1
      <4> QED BY <2>1, <4>1, <4>2
    <3> QED BY <3>1, <3>2
  <2>5. u = d
    BY <2>3, <2>4, SeqEqual
  <2> QED BY <2>2, <2>5 DEF u
<1>6. IsPrefix(d, T)
  BY <1>4, <1>5 DEF IsPrefix
<1> QED BY <1>1, <1>3, <1>6

LEMMA JoinThree ==
  ASSUME NEW S, NEW x \in Seq(S), NEW e \in Seq(S), NEW y \in Seq(S)
  PROVE  (x \o e) \o y = x \o (e \o y) /\ e \o y \in Seq(S)
<1>1. (x \o e) \o y = x \o (e \o y)
  BY ConcatAssociative, SMTT(60)
<1>2. e \o y \in Seq(S)
  BY ConcatProperties
<1> QED BY <1>1, <1>2

Joins(x, e, y) == (x \o e) \o y = x \o (e \o y) /\ e \o y \in Seq(Int)

LEMMA JoinInts == \A x, e, y \in Seq(Int) : Joins(x, e, y)
<1> TAKE x, e, y \in Seq(Int)
<1>1. (x \o e) \o y = x \o (e \o y)
  BY ConcatAssociative, SMTT(60)
<1>2. e \o y \in Seq(Int)
  BY ConcatProperties
<1> QED BY <1>1, <1>2 DEF Joins

(* What was delivered is how all chunks begin, as long as what flows is.   *)
LEMMA InOrder ==
  ASSUME NEW a \in Seq(Int), NEW d \in Seq(Int), NEW h \in Seq(Int), NEW c \in Seq(Int),
         NEW t \in Seq(Int),
         \/ \E n \in 0..Len(a) : Flow(d, h, c, t) = ChunksUpTo(a)[n]
         \/ Flow(d, h, c, t) \in {ChunksOf(a), Append(ChunksOf(a), Finish)}
  PROVE  IsPrefix(d, Append(ChunksOf(a), Finish))
<1> DEFINE f == Flow(d, h, c, t)
           A == ChunksOf(a)
           T == Append(A, Finish)
           C == ChunksUpTo(a)
           y == <<Finish>>
<1>1. A \in Seq(Int) /\ \A n \in 0..Len(a) : C[n] \in Seq(Int)
  <2>1. Len(a) \in 0..Len(a)
    OBVIOUS
  <2> QED BY <2>1, ChunksAdvance
<1>2. ASSUME NEW e \in Seq(Int) PROVE IsPrefix(d, f \o e)
  BY FlowBegins
<1>3. \A n \in 0..Len(a) : \E e \in Seq(Int) : A = C[n] \o e
  BY ChunksRemain
<1>8. (\E n \in 0..Len(a) : f = C[n]) \/ f = A \/ f = T
  OBVIOUS
<1> HIDE DEF f, A, C
<1>4. y \in Seq(Int) /\ T = A \o y /\ T \in Seq(Int) /\ T \o << >> = T /\ << >> \in Seq(Int)
  <2>1. Finish \in Int /\ y \in Seq(Int)
    BY DEF Finish
  <2>2. T \in Seq(Int) /\ T = A \o y
    BY <1>1, <2>1, AppendProperties, AppendIsConcat
  <2>3. T \o << >> = T
    BY <2>2, ConcatEmptySeq
  <2> QED BY <2>1, <2>2, <2>3
<1> HIDE DEF y, T
<1>5. ASSUME NEW n \in 0..Len(a), f = C[n] PROVE IsPrefix(d, T)
  <2> DEFINE x == C[n]
  <2>1. x \in Seq(Int) /\ f = x
    BY <1>1, <1>5
  <2>2. PICK e \in Seq(Int) : A = x \o e
    BY <1>3
  <2> HIDE DEF x
  <2>3. (x \o e) \o y = x \o (e \o y) /\ e \o y \in Seq(Int)
    <3>1. x \in Seq(Int) /\ e \in Seq(Int) /\ y \in Seq(Int)
      BY <1>4, <2>1
    <3>2. Joins(x, e, y)
      BY <3>1, JoinInts, Zenon
    <3> QED BY <3>2 DEF Joins
  <2>4. IsPrefix(d, f \o (e \o y))
    BY <1>2, <2>3
  <2>5. T = f \o (e \o y)
    BY <1>4, <2>1, <2>2, <2>3
  <2> QED BY <2>4, <2>5
<1>6. ASSUME f = A PROVE IsPrefix(d, T)
  <2>1. IsPrefix(d, f \o y)
    BY <1>2, <1>4
  <2> QED BY <1>4, <1>6, <2>1
<1>7. ASSUME f = T PROVE IsPrefix(d, T)
  <2>1. IsPrefix(d, f \o << >>)
    BY <1>2, <1>4
  <2> QED BY <1>4, <1>7, <2>1
<1>9. IsPrefix(d, T)
  BY <1>5, <1>6, <1>7, <1>8
<1> QED BY <1>9 DEF T, A

-----------------------------------------------------------------------------
(* The relay: its invariant.                                               *)

Producers == [pc : {"idle", "scan", "check", "send", "ended"}, line : Int]
Consumers == [pc : {"idle", "start", "receive", "check", "success", "left", "rejected"},
              chunk : Int]

RelayTypes ==
    /\ answer \in Answers \cup {<< >>}
    /\ lines \in Seq(Int) /\ chunks \in Seq(Int) /\ delivered \in Seq(Int)
    /\ producer \in Producers /\ consumer \in Consumers
    /\ chunksClosed \in BOOLEAN /\ cancelled \in BOOLEAN /\ early \in BOOLEAN

Read == Len(answer) - Len(lines)

Unread ==
    /\ Len(lines) <= Len(answer)
    /\ \A i \in 1..Len(lines) : lines[i] = answer[Read + i]

InHand == IF consumer.pc = "check" THEN <<consumer.chunk>> ELSE << >>
ToSend ==
    IF producer.pc = "send" \/ (producer.pc = "check" /\ IsChunk(producer.line))
    THEN <<producer.line>> ELSE << >>
InFlow == Flow(delivered, InHand, chunks, ToSend)

NoDone(n) == EndsAtDone => \A i \in 1..n : answer[i] # Done

(* While nothing was cancelled: what flows are the chunks that were read,  *)
(* and once the goroutine has ended it is all that is due.                 *)
ProducerSound ==
    \/ /\ producer.pc = "scan" /\ producer.line # Finish
       /\ InFlow = ChunksUpTo(answer)[Read] /\ NoDone(Read)
    \/ /\ producer.pc = "check" /\ Read >= 1 /\ producer.line = answer[Read]
       /\ InFlow = ChunksUpTo(answer)[Read] /\ NoDone(Read - 1)
    \/ /\ producer.pc = "send" /\ producer.line # Finish
       /\ InFlow = ChunksUpTo(answer)[Read] /\ NoDone(Read)
    \/ /\ producer.pc = "send" /\ producer.line = Finish /\ SendsFinish
       /\ InFlow = Append(ChunksOf(answer), Finish)
    \/ producer.pc = "ended" /\ InFlow = Due

RelaySound == Unread /\ ProducerSound /\ (chunksClosed => producer.pc = "ended")

BeforeStart ==
    /\ producer.pc = "idle" /\ chunks = << >> /\ delivered = << >> /\ ~chunksClosed
    /\ ~cancelled /\ producer.line = Junk /\ answer = << >>

RelayKept ==
    /\ RelayTypes
    /\ consumer.pc = "idle" => BeforeStart
    /\ consumer.pc # "idle" => producer.pc # "idle"
    /\ cancelled <=> early \/ consumer.pc \in {"success", "rejected"}
    /\ consumer.pc = "success" /\ ~early => producer.pc = "ended" /\ delivered = Due
    /\ ~cancelled /\ consumer.pc # "idle" => RelaySound
    /\ RelayIsFaithful

LEMMA AnswerTyped ==
  ASSUME NEW a \in Answers \cup {<< >>}
  PROVE  /\ a \in Seq(Int) /\ Len(a) \in Nat /\ \A i \in 1..Len(a) : a[i] \in Line
         /\ \A i, j \in 1..Len(a) : a[i] = Done /\ i < j => ~IsChunk(a[j])
<1>1. a \in Seq(Line)
  <2>1. CASE a \in Answers
    BY <2>1, StreamAssumption
  <2>2. CASE a = << >>
    BY <2>2
  <2> QED BY <2>1, <2>2
<1>2. Line \subseteq Int
  BY DEF Line, Done, Junk
<1>3. a \in Seq(Int)
  BY <1>1, <1>2, SeqMonotonic
<1>4. \A i, j \in DOMAIN a : a[i] = Done /\ i < j => ~IsChunk(a[j])
  <2>1. CASE a \in Answers
    BY <2>1, StreamAssumption
  <2>2. CASE a = << >>
    BY <2>2
  <2> QED BY <2>1, <2>2
<1>5. DOMAIN a = 1..Len(a) /\ Len(a) \in Nat
  BY <1>3
<1>6. \A i \in 1..Len(a) : a[i] \in Line
  BY <1>1, ElementOfSeq
<1> QED BY <1>3, <1>4, <1>5, <1>6

LEMMA HandsTyped ==
  ASSUME RelayTypes
  PROVE  InHand \in Seq(Int) /\ ToSend \in Seq(Int)
<1>1. consumer.chunk \in Int /\ producer.line \in Int
  BY DEF RelayTypes, Consumers, Producers
<1> QED BY <1>1 DEF InHand, ToSend

LEMMA RecordMoves ==
  /\ \A p \in Producers : \A pc \in {"idle", "scan", "check", "send", "ended"} :
       /\ [p EXCEPT !.pc = pc] \in Producers /\ [p EXCEPT !.pc = pc].pc = pc
       /\ [p EXCEPT !.pc = pc].line = p.line
  /\ \A p \in Consumers :
       \A pc \in {"idle", "start", "receive", "check", "success", "left", "rejected"} :
         /\ [p EXCEPT !.pc = pc] \in Consumers /\ [p EXCEPT !.pc = pc].pc = pc
         /\ [p EXCEPT !.pc = pc].chunk = p.chunk
BY DEF Producers, Consumers

(* A step that delivers nothing and reports no success.                    *)
LEMMA FaithfulStays ==
  ASSUME RelayIsFaithful, UNCHANGED <<delivered, answer, reader>>, early => early',
         consumer'.pc = "success" => consumer.pc = "success"
  PROVE  RelayIsFaithful'
BY DEF RelayIsFaithful, DeliveredInOrder, CompleteWhenWhole, AllOf, SendsFinish
LEMMA CountsTyped ==
  ASSUME RelayTypes
  PROVE  /\ answer \in Seq(Int) /\ Len(answer) \in Nat /\ Len(lines) \in Nat
         /\ Read \in Int
BY AnswerTyped DEF RelayTypes, Read

(* The chunks of what was read, when the relay is sound.                   *)
LEMMA ReadRange ==
  ASSUME RelayTypes, Unread
  PROVE  Read \in 0..Len(answer)
BY CountsTyped DEF Unread, Read

(* The steps of the goroutine change nothing of the handler.               *)
LEMMA ProducerKeeps ==
  ASSUME RelayKept, UNCHANGED <<consumer, cancelled, delivered, early, Chosen>>,
         producer.pc \notin {"idle", "ended"}, producer'.pc # "idle", RelayTypes',
         RelaySound /\ ~cancelled => RelaySound'
  PROVE  RelayKept'
<1>1. UNCHANGED <<consumer, cancelled, delivered, early, answer, reader>>
  BY DEF Chosen
<1>2. consumer.pc # "idle"
  BY DEF RelayKept, BeforeStart
<1>3. RelayIsFaithful'
  BY <1>1, FaithfulStays DEF RelayKept
<1>4. ~cancelled' => RelaySound'
  BY <1>1, <1>2 DEF RelayKept
<1> QED BY <1>1, <1>2, <1>3, <1>4 DEF RelayKept

(* The goroutine's hand: what is in it in each state.                      *)
LEMMA HandOf ==
  /\ producer.pc = "send" => ToSend = <<producer.line>>
  /\ producer.pc = "check" => ToSend = IF IsChunk(producer.line) THEN <<producer.line>> ELSE << >>
  /\ producer.pc \in {"scan", "ended"} => ToSend = << >>
BY DEF ToSend

LEMMA ScanLineKeeps == ASSUME RelayKept, ScanLine PROVE RelayKept'
<1>1. /\ RelayTypes /\ RelayTypes' /\ producer'.pc = "check" /\ producer'.line = Head(lines)
      /\ producer' \in Producers /\ lines' \in Seq(Int) /\ Head(lines) \in Int
      /\ Len(lines') = Len(lines) - 1 /\ \A i \in 1..Len(lines') : lines'[i] = lines[i + 1]
      /\ Head(lines) = lines[1] /\ Len(lines) \in Nat \ {0}
  <2>1. /\ Head(lines) \in Int /\ Tail(lines) \in Seq(Int) /\ Head(lines) = lines[1]
        /\ Len(Tail(lines)) = Len(lines) - 1 /\ Len(lines) \in Nat \ {0}
        /\ \A i \in 1..Len(Tail(lines)) : Tail(lines)[i] = lines[i + 1]
    <3>1. lines \in Seq(Int) /\ lines # << >>
      BY DEF RelayKept, RelayTypes, ScanLine
    <3> QED BY <3>1, HeadTailProperties
  <2>2. producer' \in Producers
    BY <2>1 DEF Producers, ScanLine
  <2> QED BY <2>1, <2>2 DEF RelayKept, RelayTypes, ScanLine, Chosen
<1>2. ASSUME RelaySound, ~cancelled PROVE RelaySound'
  <2>1. /\ Unread /\ producer.pc = "scan" /\ InFlow = ChunksUpTo(answer)[Read] /\ NoDone(Read)
        /\ ~chunksClosed
    BY <1>2 DEF ScanLine, RelaySound, ProducerSound
  <2>2. /\ Read \in 0..Len(answer) /\ answer' = answer /\ Read' = Read + 1
        /\ reader' = reader /\ Read + 1 \in 1..Len(answer) /\ Read \in 0..(Len(answer) - 1)
        /\ (Read + 1) - 1 = Read
    <3>1. Read \in 0..Len(answer) /\ answer' = answer /\ reader' = reader
      BY <1>1, <2>1, ReadRange DEF ScanLine, Chosen
    <3>2. Len(answer) \in Nat /\ Read = Len(answer) - Len(lines) /\ Read' = Len(answer) - Len(lines')
      BY <1>1, <3>1, CountsTyped DEF Read
    <3> QED BY <1>1, <3>1, <3>2
  <2>3. Unread' /\ producer'.line = answer[Read + 1]
    <3>1. lines[1] = answer[Read + 1]
      BY <1>1, <2>1 DEF Unread
    <3>2. ASSUME NEW i \in 1..Len(lines') PROVE lines'[i] = answer'[Read' + i]
      <4>1. i + 1 \in 1..Len(lines) /\ Read + (i + 1) = (Read + 1) + i
        <5>1. Len(lines') = Len(lines) - 1 /\ Len(lines) \in Nat /\ Read \in Int
          BY <1>1, <2>2
        <5> QED BY <5>1
      <4> QED BY <1>1, <2>1, <2>2, <4>1 DEF Unread
    <3>3. Len(lines') <= Len(answer')
      <4>1. Len(answer) \in Nat
        BY <1>1, CountsTyped
      <4> QED BY <1>1, <2>1, <2>2, <4>1 DEF Unread
    <3> QED BY <1>1, <3>1, <3>2, <3>3 DEF Unread
  <2>4. InFlow' = ChunksUpTo(answer)[Read + 1]
    <3> DEFINE x == Head(lines)
    <3>1. /\ delivered \in Seq(Int) /\ chunks \in Seq(Int) /\ InHand \in Seq(Int) /\ x \in Int
          /\ delivered' = delivered /\ chunks' = chunks /\ InHand' = InHand
      BY <1>1, HandsTyped DEF RelayTypes, ScanLine, InHand
    <3>2. InFlow = Flow(delivered, InHand, chunks, << >>)
      BY <2>1, HandOf DEF InFlow
    <3>3. InFlow' = Flow(delivered, InHand, chunks, IF IsChunk(x) THEN <<x>> ELSE << >>)
      <4>1. ToSend' = IF IsChunk(x) THEN <<x>> ELSE << >>
        BY <1>1 DEF ToSend
      <4> QED BY <3>1, <4>1 DEF InFlow
    <3>4. Flow(delivered, InHand, chunks, <<x>>) = Append(Flow(delivered, InHand, chunks, << >>), x)
      <4> DEFINE h == InHand
                 I == Int
      <4>1. /\ h \in Seq(I) /\ delivered \in Seq(I) /\ chunks \in Seq(I) /\ x \in I
        BY <3>1
      <4> HIDE DEF x, h, I
      <4>2. Flow(delivered, h, chunks, <<x>>) = Append(Flow(delivered, h, chunks, << >>), x)
        BY <4>1, FlowGrows
      <4> QED BY <4>2 DEF h
    <3>5. /\ ChunksUpTo(answer)[Read + 1] =
                IF IsChunk(answer[Read + 1]) THEN Append(ChunksUpTo(answer)[Read], answer[Read + 1])
                ELSE ChunksUpTo(answer)[Read]
          /\ x = answer[Read + 1]
      <4>1. answer \in Seq(Int)
        BY <1>1, CountsTyped
      <4> QED BY <1>1, <2>2, <2>3, <4>1, ChunksAdvance
    <3> HIDE DEF x
    <3> QED BY <2>1, <3>2, <3>3, <3>4, <3>5
  <2>5. NoDone(Read - 1)'
    BY <2>1, <2>2 DEF NoDone, EndsAtDone
  <2>6. ProducerSound'
    BY <1>1, <2>2, <2>3, <2>4, <2>5 DEF ProducerSound
  <2> QED BY <2>1, <2>3, <2>6 DEF RelaySound, ScanLine
<1> QED BY <1>1, <1>2, ProducerKeeps DEF ScanLine
(* The goroutine takes something into an empty hand.                       *)
LEMMA HandFills ==
  ASSUME RelayTypes, NEW x \in Int, ToSend = << >>, ToSend' = <<x>>,
         UNCHANGED <<delivered, consumer, chunks>>
  PROVE  InFlow' = Append(InFlow, x)
<1> DEFINE h == InHand
           I == Int
<1>1. h \in Seq(I) /\ delivered \in Seq(I) /\ chunks \in Seq(I) /\ x \in I
  BY HandsTyped DEF RelayTypes
<1>2. InFlow = Flow(delivered, h, chunks, << >>) /\ InFlow' = Flow(delivered, h, chunks, <<x>>)
  <2>1. InHand' = InHand
    BY DEF InHand
  <2> QED BY <2>1 DEF InFlow
<1> HIDE DEF h, I
<1>3. Flow(delivered, h, chunks, <<x>>) = Append(Flow(delivered, h, chunks, << >>), x)
  BY <1>1, FlowGrows
<1> QED BY <1>2, <1>3

(* Its hand is as it was.                                                  *)
LEMMA HandStays ==
  ASSUME ToSend' = ToSend, UNCHANGED <<delivered, consumer, chunks>>
  PROVE  InFlow' = InFlow
BY DEF InFlow, InHand

LEMMA UnreadStays ==
  ASSUME UNCHANGED <<lines, answer>>
  PROVE  Read' = Read /\ (Unread => Unread')
BY DEF Read, Unread

(* The goroutine ends with all chunks flowing, or adds its last one.       *)
LEMMA EndOrFinish ==
  ASSUME RelayTypes, RelaySound, InFlow = ChunksOf(answer), ToSend = << >>,
         producer.pc # "ended", producer.line # Finish,
         (EndProducer /\ (Whole(answer) => InFlow = AllOf(answer))) \/ SendFinish,
         UNCHANGED <<lines, chunks, consumer, cancelled, delivered, early, Chosen>>
  PROVE  RelaySound' /\ RelayTypes' /\ producer'.pc # "idle"
<1>1. /\ answer' = answer /\ reader' = reader /\ lines' = lines
      /\ Unread' /\ ~chunksClosed
  BY UnreadStays DEF Chosen, RelaySound
<1>2. CASE EndProducer /\ (Whole(answer) => InFlow = AllOf(answer))
  <2>1. producer' \in Producers /\ producer'.pc = "ended" /\ producer'.line = producer.line
    BY <1>2, RecordMoves DEF EndProducer, RelayTypes
  <2>2. InFlow' = InFlow
    BY <2>1, HandOf, HandStays DEF ToSend
  <2>3. ProducerSound'
    BY <1>1, <1>2, <2>1, <2>2 DEF ProducerSound, Due, AllOf, SendsFinish
  <2> QED BY <1>1, <1>2, <2>1, <2>3 DEF RelaySound, RelayTypes, EndProducer
<1>3. CASE SendFinish
  <2>1. /\ producer' \in Producers /\ producer'.pc = "send" /\ producer'.line = Finish
        /\ Finish \in Int /\ SendsFinish /\ chunksClosed' = chunksClosed
    BY <1>3 DEF SendFinish, Producers, Finish
  <2>2. ToSend' = <<Finish>>
    BY <2>1 DEF ToSend
  <2>3. InFlow' = Append(InFlow, Finish)
    BY <2>1, <2>2, HandFills
  <2>4. ProducerSound'
    BY <1>1, <2>1, <2>3 DEF ProducerSound, SendsFinish
  <2> QED BY <1>1, <2>1, <2>4 DEF RelaySound, RelayTypes
<1> QED BY <1>2, <1>3

LEMMA ScanEndsKeeps == ASSUME RelayKept, ScanEnds PROVE RelayKept'
<1>1. RelayTypes /\ producer.pc = "scan" /\ ToSend = << >>
  BY HandOf DEF RelayKept, ScanEnds
<1>2. ASSUME RelaySound, ~cancelled PROVE RelaySound'
  <2>1. /\ lines = << >> /\ InFlow = ChunksUpTo(answer)[Read] /\ NoDone(Read)
        /\ producer.line # Finish
    BY <1>1, <1>2 DEF ScanEnds, RelaySound, ProducerSound
  <2>2. Read = Len(answer) /\ answer \in Seq(Int)
    <3>1. Len(lines) = 0 /\ Len(answer) \in Nat
      BY <1>1, <2>1, CountsTyped
    <3> QED BY <1>1, <3>1, CountsTyped DEF Read
  <2>3. InFlow = ChunksOf(answer)
    BY <2>1, <2>2, ChunksAdvance
  <2>4. Whole(answer) => ~EndsAtDone
    BY <2>1, <2>2 DEF NoDone, Whole, Contains
  <2>5. Whole(answer) => ~SendsFinish
    BY <2>4 DEF EndsAtDone, SendsFinish
  <2>6. Whole(answer) => InFlow = AllOf(answer)
    BY <2>3, <2>5 DEF AllOf
  <2> QED BY <1>1, <1>2, <2>1, <2>3, <2>6, EndOrFinish DEF ScanEnds
<1>3. producer' \in Producers /\ producer'.pc # "idle" /\ chunksClosed' \in BOOLEAN
  <2>1. CASE EndProducer
    BY <1>1, <2>1, RecordMoves DEF EndProducer, RelayTypes
  <2>2. CASE SendFinish
    BY <1>1, <2>2 DEF SendFinish, Producers, Finish, RelayTypes
  <2> QED BY <2>1, <2>2 DEF ScanEnds
<1>4. RelayTypes'
  BY <1>1, <1>3 DEF RelayTypes, ScanEnds, Chosen
<1> QED BY <1>1, <1>2, <1>3, <1>4, ProducerKeeps DEF ScanEnds

LEMMA CheckLineKeeps == ASSUME RelayKept, CheckLine PROVE RelayKept'
<1>1. RelayTypes /\ producer.pc = "check"
  BY DEF RelayKept, CheckLine
<1>2. /\ producer' \in Producers /\ producer'.pc # "idle" /\ chunksClosed' \in BOOLEAN
  <2>1. EndProducer \/ SendFinish
        \/ /\ producer' = [producer EXCEPT !.pc = IF IsChunk(producer.line) THEN "send" ELSE "scan"]
           /\ UNCHANGED chunksClosed
    BY DEF CheckLine
  <2>2. CASE EndProducer
    BY <1>1, <2>2, RecordMoves DEF EndProducer, RelayTypes
  <2>3. CASE SendFinish
    BY <1>1, <2>3 DEF SendFinish, Producers, Finish, RelayTypes
  <2>4. CASE /\ producer' = [producer EXCEPT !.pc = IF IsChunk(producer.line) THEN "send" ELSE "scan"]
             /\ UNCHANGED chunksClosed
    BY <1>1, <2>4, RecordMoves DEF RelayTypes
  <2> QED BY <2>1, <2>2, <2>3, <2>4
<1>3. RelayTypes'
  BY <1>1, <1>2 DEF RelayTypes, CheckLine, Chosen
<1>4. ASSUME RelaySound, ~cancelled PROVE RelaySound'
  <2>1. /\ Unread /\ Read >= 1 /\ producer.line = answer[Read]
        /\ InFlow = ChunksUpTo(answer)[Read] /\ NoDone(Read - 1) /\ ~chunksClosed
    BY <1>1, <1>4 DEF RelaySound, ProducerSound
  <2>2. Read \in 1..Len(answer) /\ Read \in 0..Len(answer) /\ answer \in Seq(Int) /\ Len(answer) \in Nat
    BY <1>1, <2>1, ReadRange, CountsTyped
  <2>3. /\ producer.line \in Line
        /\ \A i, j \in 1..Len(answer) : answer[i] = Done /\ i < j => ~IsChunk(answer[j])
    BY <1>1, <2>1, <2>2, AnswerTyped DEF RelayTypes
  <2>4. /\ answer' = answer /\ reader' = reader /\ Unread' /\ Read' = Read
    BY <2>1, UnreadStays DEF CheckLine, Chosen
  <2>5. CASE producer.line = Done /\ EndsAtDone
    <3>1. ToSend = << >>
      BY <1>1, <2>5 DEF ToSend, IsChunk, Done, Finish
    <3>2. InFlow = ChunksOf(answer)
      <4>1. \A i \in (Read + 1)..Len(answer) : ~IsChunk(answer[i])
        <5>1. \A i \in (Read + 1)..Len(answer) : i \in 1..Len(answer) /\ Read < i
          BY <2>2
        <5>2. answer[Read] = Done
          BY <2>1, <2>5
        <5> QED BY <2>2, <2>3, <5>1, <5>2
      <4>2. ChunksOf(answer) = ChunksUpTo(answer)[Read] \o << >>
        BY <2>2, <4>1, ChunksRemain
      <4>3. ChunksUpTo(answer)[Read] \in Seq(Int)
        BY <2>2, ChunksAdvance
      <4>4. ChunksUpTo(answer)[Read] \o << >> = ChunksUpTo(answer)[Read]
        BY <4>3, ConcatEmptySeq
      <4> QED BY <2>1, <4>2, <4>4
    <3>3. (EndProducer /\ ~SendsFinish) \/ SendFinish
      BY <1>4, <2>5 DEF CheckLine
    <3>4. ~SendsFinish => InFlow = AllOf(answer)
      BY <3>2 DEF AllOf
    <3>5. producer.line # Finish
      BY <2>5 DEF Done, Finish
    <3> QED BY <1>1, <1>4, <3>1, <3>2, <3>3, <3>4, <3>5, EndOrFinish DEF CheckLine
  <2>6. CASE ~(producer.line = Done /\ EndsAtDone)
    <3>1. /\ producer' = [producer EXCEPT !.pc = IF IsChunk(producer.line) THEN "send" ELSE "scan"]
          /\ UNCHANGED chunksClosed
      BY <1>4, <2>6 DEF CheckLine
    <3>2. /\ producer'.line = producer.line
          /\ producer'.pc = IF IsChunk(producer.line) THEN "send" ELSE "scan"
      BY <1>1, <3>1, RecordMoves DEF RelayTypes
    <3>3. ToSend' = ToSend
      BY <1>1, <3>2 DEF ToSend
    <3>4. InFlow' = InFlow
      BY <3>3, HandStays DEF CheckLine
    <3>5. NoDone(Read)
      BY <2>1, <2>2, <2>6 DEF NoDone
    <3>6. NoDone(Read)'
      BY <2>4, <3>5 DEF NoDone, EndsAtDone
    <3>7. producer.line # Finish
      BY <2>3 DEF IsChunk, Line, Done, Junk, Finish
    <3>8. ProducerSound'
      BY <2>1, <2>4, <3>2, <3>4, <3>6, <3>7 DEF ProducerSound
    <3> QED BY <2>1, <2>4, <3>1, <3>8 DEF RelaySound
  <2> QED BY <2>5, <2>6
<1> QED BY <1>1, <1>2, <1>3, <1>4, ProducerKeeps DEF CheckLine
LEMMA SendChunkKeeps == ASSUME RelayKept, SendChunk PROVE RelayKept'
<1>1. /\ RelayTypes /\ producer.pc = "send" /\ producer.line \in Int /\ ToSend = <<producer.line>>
  BY HandOf DEF RelayKept, RelayTypes, Producers, SendChunk
<1>2. /\ producer' \in Producers /\ chunksClosed' \in BOOLEAN
      /\ producer'.pc = IF producer.line = Finish THEN "ended" ELSE "scan"
      /\ producer'.line = producer.line
      /\ chunksClosed' => chunksClosed \/ producer'.pc = "ended"
  <2>1. CASE producer.line = Finish
    <3>1. producer' = [producer EXCEPT !.pc = "ended"] /\ chunksClosed' = TRUE /\ producer \in Producers
      BY <1>1, <2>1 DEF SendChunk, AfterSend, EndProducer, RelayTypes
    <3>2. producer' \in Producers /\ producer'.pc = "ended" /\ producer'.line = producer.line
      BY <3>1, RecordMoves
    <3> QED BY <2>1, <3>1, <3>2
  <2>2. CASE producer.line # Finish
    <3>1. /\ producer' = [producer EXCEPT !.pc = "scan"] /\ chunksClosed' = chunksClosed
          /\ producer \in Producers /\ chunksClosed \in BOOLEAN
      BY <1>1, <2>2 DEF SendChunk, AfterSend, RelayTypes
    <3>2. producer' \in Producers /\ producer'.pc = "scan" /\ producer'.line = producer.line
      BY <3>1, RecordMoves
    <3> QED BY <2>2, <3>1, <3>2
  <2> QED BY <2>1, <2>2
<1>3. ToSend' = << >>
  BY <1>2 DEF ToSend
<1>4. chunks' \in Seq(Int)
  BY <1>1, AppendProperties DEF RelayTypes, SendChunk
<1>5. RelayTypes'
  BY <1>1, <1>2, <1>4 DEF RelayTypes, SendChunk, Chosen
<1>6. InFlow' = InFlow
  <2> DEFINE h == InHand
             I == Int
             x == producer.line
  <2>1. h \in Seq(I) /\ delivered \in Seq(I) /\ chunks \in Seq(I) /\ x \in I
    BY <1>1, HandsTyped DEF RelayTypes
  <2>2. /\ InFlow = Flow(delivered, h, chunks, <<x>>)
        /\ InFlow' = Flow(delivered, h, Append(chunks, x), << >>)
    <3>1. InHand' = InHand
      BY DEF InHand, SendChunk
    <3> QED BY <1>1, <1>3, <3>1 DEF InFlow, SendChunk
  <2> HIDE DEF h, I, x
  <2>3. Flow(delivered, h, Append(chunks, x), << >>) = Flow(delivered, h, chunks, <<x>>)
    BY <2>1, FlowPasses
  <2> QED BY <2>2, <2>3
<1>7. ASSUME RelaySound, ~cancelled PROVE RelaySound'
  <2>1. /\ answer' = answer /\ reader' = reader /\ Unread' /\ Read' = Read /\ ~chunksClosed
    BY <1>1, <1>7, UnreadStays DEF RelaySound, SendChunk, Chosen
  <2>2. CASE producer.line = Finish
    <3>1. SendsFinish /\ InFlow = Append(ChunksOf(answer), Finish)
      BY <1>1, <1>7, <2>2 DEF RelaySound, ProducerSound
    <3>2. InFlow' = Append(ChunksOf(answer), Finish) /\ InFlow' = AllOf(answer)
      BY <1>6, <3>1 DEF AllOf
    <3>3. Due' = InFlow'
      BY <1>2, <2>1, <2>2, <3>2 DEF Due, AllOf, SendsFinish
    <3>4. ProducerSound'
      BY <1>2, <2>2, <3>3 DEF ProducerSound
    <3> QED BY <1>2, <2>1, <2>2, <3>4 DEF RelaySound
  <2>3. CASE producer.line # Finish
    <3>1. InFlow = ChunksUpTo(answer)[Read] /\ NoDone(Read)
      BY <1>1, <1>7, <2>3 DEF RelaySound, ProducerSound
    <3>2. NoDone(Read)'
      BY <2>1, <3>1 DEF NoDone, EndsAtDone
    <3>3. ProducerSound'
      BY <1>2, <1>6, <2>1, <2>3, <3>1, <3>2 DEF ProducerSound
    <3> QED BY <1>2, <2>1, <2>3, <3>3 DEF RelaySound
  <2> QED BY <2>2, <2>3
<1>8. producer'.pc # "idle"
  BY <1>2
<1> QED BY <1>1, <1>5, <1>7, <1>8, ProducerKeeps DEF SendChunk

LEMMA AbandonSendKeeps == ASSUME RelayKept, AbandonSend PROVE RelayKept'
<1>1. RelayTypes /\ producer.pc = "send" /\ cancelled
  BY DEF RelayKept, AbandonSend
<1>2. producer' \in Producers /\ producer'.pc = "ended"
  BY <1>1, RecordMoves DEF AbandonSend, EndProducer, RelayTypes
<1>3. RelayTypes'
  BY <1>1, <1>2 DEF RelayTypes, AbandonSend, EndProducer, Chosen
<1> QED BY <1>1, <1>2, <1>3, ProducerKeeps DEF AbandonSend

(* The steps of the handler: what the goroutine has read stays the same.   *)
LEMMA SoundStays ==
  ASSUME RelaySound, InFlow' = InFlow, UNCHANGED <<lines, chunksClosed, producer, Chosen>>
  PROVE  RelaySound'
<1>1. answer' = answer /\ reader' = reader /\ producer' = producer /\ Read' = Read /\ Unread'
  BY UnreadStays DEF RelaySound, Chosen
<1>2. /\ \A n : NoDone(n) <=> NoDone(n)'
      /\ Due' = Due /\ (SendsFinish <=> SendsFinish')
  BY <1>1 DEF NoDone, EndsAtDone, Due, AllOf, SendsFinish
<1>3. ProducerSound'
  BY <1>1, <1>2 DEF ProducerSound, RelaySound
<1> QED BY <1>1, <1>3 DEF RelaySound

LEMMA HandlerKeeps ==
  ASSUME RelayKept, UNCHANGED <<lines, chunksClosed, producer, early, Chosen>>,
         consumer.pc # "idle", RelayTypes', consumer'.pc # "idle",
         cancelled' <=> early \/ consumer'.pc \in {"success", "rejected"}, RelayIsFaithful',
         consumer'.pc = "success" /\ ~early => producer.pc = "ended" /\ delivered' = Due,
         ~cancelled' => ~cancelled /\ InFlow' = InFlow
  PROVE  RelayKept'
<1>1. ~cancelled' => RelaySound'
  BY SoundStays DEF RelayKept
<1>2. Due' = Due
  BY DEF Due, AllOf, SendsFinish, Chosen
<1> QED BY <1>1, <1>2 DEF RelayKept

LEMMA FlushableKeeps == ASSUME RelayKept, Flushable PROVE RelayKept'
<1>1. RelayTypes /\ consumer.pc = "start" /\ consumer' \in Consumers /\ consumer'.pc = "receive"
  BY RecordMoves DEF RelayKept, RelayTypes, Flushable
<1>2. RelayTypes'
  BY <1>1 DEF RelayTypes, Flushable, Chosen
<1>3. InFlow' = InFlow
  BY <1>1 DEF InFlow, InHand, ToSend, Flushable
<1>4. RelayIsFaithful'
  BY <1>1, FaithfulStays DEF RelayKept, Flushable, Chosen
<1> QED BY <1>1, <1>2, <1>3, <1>4, HandlerKeeps DEF RelayKept, Flushable

LEMMA RejectKeeps == ASSUME RelayKept, Reject PROVE RelayKept'
<1>1. RelayTypes /\ consumer.pc = "start" /\ consumer' \in Consumers /\ consumer'.pc = "rejected"
  BY RecordMoves DEF RelayKept, RelayTypes, Reject
<1>2. RelayTypes'
  BY <1>1 DEF RelayTypes, Reject, Chosen
<1>3. RelayIsFaithful'
  BY <1>1, FaithfulStays DEF RelayKept, Reject, Chosen
<1> QED BY <1>1, <1>2, <1>3, HandlerKeeps DEF Reject

LEMMA ReceiveKeeps == ASSUME RelayKept, Receive PROVE RelayKept'
<1>1. RelayTypes /\ consumer.pc = "receive" /\ chunks \in Seq(Int) /\ chunks # << >>
  BY DEF RelayKept, RelayTypes, Receive
<1>2. Head(chunks) \in Int /\ Tail(chunks) \in Seq(Int)
  BY <1>1, HeadTailProperties
<1>3. consumer' \in Consumers /\ consumer'.pc = "check" /\ consumer'.chunk = Head(chunks)
  BY <1>2 DEF Receive, Consumers
<1>4. RelayTypes'
  BY <1>1, <1>2, <1>3 DEF RelayTypes, Receive, Chosen
<1>5. InFlow' = InFlow
  <2> DEFINE t == ToSend
             I == Int
  <2>1. t \in Seq(I) /\ delivered \in Seq(I) /\ chunks \in Seq(I) /\ chunks # << >>
    BY <1>1, HandsTyped DEF RelayTypes
  <2>2. /\ InFlow = Flow(delivered, << >>, chunks, t)
        /\ InFlow' = Flow(delivered, <<Head(chunks)>>, Tail(chunks), t)
    BY <1>1, <1>3 DEF InFlow, InHand, ToSend, Receive
  <2> HIDE DEF t, I
  <2>3. Flow(delivered, <<Head(chunks)>>, Tail(chunks), t) = Flow(delivered, << >>, chunks, t)
    BY <2>1, FlowTakes
  <2> QED BY <2>2, <2>3
<1>6. RelayIsFaithful'
  BY <1>1, <1>3, FaithfulStays DEF RelayKept, Receive, Chosen
<1> QED BY <1>1, <1>3, <1>4, <1>5, <1>6, HandlerKeeps DEF RelayKept, Receive
LEMMA ForwardKeeps == ASSUME RelayKept, Forward PROVE RelayKept'
<1>1. /\ RelayTypes /\ consumer.pc = "check" /\ ~cancelled /\ consumer.chunk \in Int
      /\ consumer' \in Consumers /\ consumer'.pc = "receive"
      /\ delivered' = Append(delivered, consumer.chunk)
  BY RecordMoves DEF RelayKept, RelayTypes, Consumers, Forward
<1>2. delivered' \in Seq(Int)
  BY <1>1, AppendProperties DEF RelayTypes
<1>3. RelayTypes'
  BY <1>1, <1>2 DEF RelayTypes, Forward, Chosen
<1>4. InFlow' = InFlow
  <2> DEFINE t == ToSend
             I == Int
             x == consumer.chunk
  <2>1. t \in Seq(I) /\ delivered \in Seq(I) /\ chunks \in Seq(I) /\ x \in I
    BY <1>1, HandsTyped DEF RelayTypes
  <2>2. /\ InFlow = Flow(delivered, <<x>>, chunks, t)
        /\ InFlow' = Flow(Append(delivered, x), << >>, chunks, t)
    BY <1>1 DEF InFlow, InHand, ToSend, Forward
  <2> HIDE DEF t, I, x
  <2>3. Flow(Append(delivered, x), << >>, chunks, t) = Flow(delivered, <<x>>, chunks, t)
    BY <2>1, FlowForwards
  <2> QED BY <2>2, <2>3
<1>5. RelaySound'
  BY <1>1, <1>4, SoundStays DEF RelayKept, Forward
<1>6. DeliveredInOrder'
  <2>1. /\ answer' \in Seq(Int) /\ delivered' \in Seq(Int) /\ InHand' \in Seq(Int)
        /\ chunks' \in Seq(Int) /\ ToSend' \in Seq(Int)
    <3>1. answer' = answer /\ chunks' = chunks /\ ToSend' = ToSend /\ InHand' = << >>
      BY <1>1 DEF Forward, Chosen, ToSend, InHand
    <3>2. /\ answer \in Seq(Int) /\ chunks \in Seq(Int) /\ ToSend \in Seq(Int) /\ << >> \in Seq(Int)
      BY <1>1, CountsTyped, HandsTyped DEF RelayTypes
    <3> QED BY <1>2, <3>1, <3>2
  <2>2. \/ \E n \in 0..Len(answer') : InFlow' = ChunksUpTo(answer')[n]
        \/ InFlow' \in {ChunksOf(answer'), Append(ChunksOf(answer'), Finish)}
    <3>1. Read' \in 0..Len(answer')
      <4>1. Unread /\ answer' = answer /\ Read' = Read
        BY <1>1, UnreadStays DEF RelayKept, RelaySound, Forward, Chosen
      <4> QED BY <1>1, <4>1, ReadRange
    <3>2. Due' \in {ChunksOf(answer'), Append(ChunksOf(answer'), Finish)}
      BY DEF Due, AllOf
    <3> QED BY <1>5, <3>1, <3>2 DEF RelaySound, ProducerSound
  <2>3. InFlow' = Flow(delivered', InHand', chunks', ToSend')
    BY DEF InFlow
  <2>4. IsPrefix(delivered', Append(ChunksOf(answer'), Finish))
    BY <2>1, <2>2, <2>3, InOrder
  <2> QED BY <2>4 DEF DeliveredInOrder
<1>7. RelayIsFaithful'
  BY <1>1, <1>6 DEF RelayIsFaithful, CompleteWhenWhole
<1> QED BY <1>1, <1>3, <1>4, <1>7, HandlerKeeps DEF Forward, RelayKept

LEMMA LeaveKeeps == ASSUME RelayKept, Leave PROVE RelayKept'
<1>1. /\ RelayTypes /\ consumer.pc = "check" /\ cancelled /\ early
      /\ consumer' \in Consumers /\ consumer'.pc = "left"
  BY RecordMoves DEF RelayKept, RelayTypes, Leave
<1>2. RelayTypes'
  BY <1>1 DEF RelayTypes, Leave, Chosen
<1>3. RelayIsFaithful'
  BY <1>1, FaithfulStays DEF RelayKept, Leave, Chosen
<1> QED BY <1>1, <1>2, <1>3, HandlerKeeps DEF Leave

(* Nothing is left in the channel or in a hand: all that flows has been    *)
(* delivered.                                                              *)
LEMMA CompleteKeeps == ASSUME RelayKept, Complete PROVE RelayKept'
<1>1. /\ RelayTypes /\ consumer.pc = "receive" /\ chunks = << >> /\ chunksClosed
      /\ consumer' \in Consumers /\ consumer'.pc = "success" /\ cancelled'
  BY RecordMoves DEF RelayKept, RelayTypes, Complete
<1>2. RelayTypes'
  BY <1>1 DEF RelayTypes, Complete, Chosen
<1>3. UNCHANGED <<delivered, answer, reader, early>>
  BY DEF Complete, Chosen
<1>4. DeliveredInOrder'
  BY <1>3 DEF DeliveredInOrder, RelayKept, RelayIsFaithful
<1>5. ~early => producer.pc = "ended" /\ delivered = Due
  <2> SUFFICES ASSUME ~early PROVE producer.pc = "ended" /\ delivered = Due
    OBVIOUS
  <2>1. ~cancelled
    BY <1>1 DEF RelayKept
  <2>2. producer.pc = "ended" /\ InFlow = Due
    BY <1>1, <2>1 DEF RelayKept, RelaySound, ProducerSound
  <2>3. InFlow = ((delivered \o << >>) \o << >>) \o << >>
    BY <1>1, <2>2, HandOf DEF InFlow, InHand, Flow
  <2>4. delivered \o << >> = delivered
    BY <1>1, ConcatEmptySeq DEF RelayTypes
  <2> QED BY <2>2, <2>3, <2>4
<1>6. CompleteWhenWhole'
  BY <1>3, <1>5 DEF CompleteWhenWhole, Due, AllOf, SendsFinish
<1> QED BY <1>1, <1>2, <1>3, <1>4, <1>5, <1>6, HandlerKeeps DEF Complete, RelayIsFaithful

LEMMA ExpireKeeps == ASSUME RelayKept, Expire PROVE RelayKept'
<1>1. consumer.pc # "idle" /\ cancelled' /\ early' /\ RelayTypes
  BY DEF RelayKept, Expire
<1>2. RelayTypes'
  BY <1>1 DEF RelayTypes, Expire, Chosen
<1>3. RelayIsFaithful'
  BY <1>1, FaithfulStays DEF RelayKept, Expire, Chosen
<1> QED BY <1>1, <1>2, <1>3 DEF RelayKept, Expire

(* Nothing has been read when the goroutine starts.                        *)
LEMMA StartsEmpty ==
  ASSUME NEW a \in Answers \cup {<< >>}
  PROVE  /\ Flow(<< >>, << >>, << >>, << >>) = ChunksUpTo(a)[0]
         /\ IsPrefix(<< >>, Append(ChunksOf(a), Finish))
<1>1. << >> \in Seq(Int) /\ << >> \o << >> = << >>
  BY ConcatEmptySeq
<1>2. a \in Seq(Int) /\ 0 \in 0..Len(a)
  BY AnswerTyped
<1>3. ChunksUpTo(a)[0] = << >>
  BY <1>2, ChunksAdvance
<1>4. Flow(<< >>, << >>, << >>, << >>) = ChunksUpTo(a)[0]
  BY <1>1, <1>3 DEF Flow
<1> QED BY <1>1, <1>2, <1>4, InOrder

LEMMA StreamChatCompletionKeeps == ASSUME RelayKept, StreamChatCompletion PROVE RelayKept'
<1>1. /\ RelayTypes /\ consumer.pc = "idle" /\ chunks = << >> /\ delivered = << >>
      /\ ~chunksClosed /\ ~cancelled
      /\ answer' \in Answers /\ lines' = answer'
      /\ consumer' \in Consumers /\ consumer'.pc = "start"
      /\ producer' \in Producers /\ producer'.pc = "scan"
  BY RecordMoves DEF RelayKept, BeforeStart, RelayTypes, StreamChatCompletion
<1>0. producer'.line # Finish
  <2>1. producer \in Producers /\ producer' = [producer EXCEPT !.pc = "scan"] /\ producer.line = Junk
    BY <1>1 DEF RelayKept, BeforeStart, RelayTypes, StreamChatCompletion
  <2>2. producer'.line = Junk
    BY <2>1, RecordMoves
  <2> QED BY <2>2 DEF Junk, Finish
<1>2. RelayTypes' /\ Len(answer') \in Nat
  BY <1>1, AnswerTyped DEF RelayTypes, StreamChatCompletion
<1>3. Read' = 0 /\ Unread'
  <2>1. Read' = 0
    BY <1>1, <1>2 DEF Read
  <2> QED BY <1>1, <1>2, <2>1 DEF Unread
<1>4. /\ Flow(<< >>, << >>, << >>, << >>) = ChunksUpTo(answer')[0]
      /\ IsPrefix(<< >>, Append(ChunksOf(answer'), Finish))
  BY <1>1, StartsEmpty
<1>5. InFlow' = ChunksUpTo(answer')[0]
  <2>1. InHand' = << >> /\ ToSend' = << >> /\ chunks' = << >> /\ delivered' = << >>
    BY <1>1 DEF InHand, ToSend, StreamChatCompletion
  <2> QED BY <1>4, <2>1 DEF InFlow
<1>6. NoDone(Read)'
  BY <1>3 DEF NoDone
<1>7. ProducerSound'
  BY <1>0, <1>1, <1>3, <1>5, <1>6 DEF ProducerSound
<1>8. RelaySound'
  BY <1>1, <1>3, <1>7 DEF RelaySound, StreamChatCompletion
<1>9. RelayIsFaithful'
  BY <1>1, <1>4 DEF RelayIsFaithful, DeliveredInOrder, CompleteWhenWhole, StreamChatCompletion
<1> QED BY <1>1, <1>2, <1>8, <1>9 DEF RelayKept, StreamChatCompletion

LEMMA StreamInitKept == ASSUME StreamInit PROVE RelayKept
<1>1. /\ answer = << >> /\ delivered = << >> /\ consumer.pc = "idle" /\ producer.pc = "idle"
      /\ ~cancelled
  BY DEF StreamInit
<1>2. RelayTypes
  <2>1. producer \in Producers /\ consumer \in Consumers
    BY DEF StreamInit, Producers, Consumers, Junk
  <2>2. << >> \in Seq(Int)
    OBVIOUS
  <2> QED BY <2>1, <2>2 DEF StreamInit, RelayTypes
<1>3. RelayIsFaithful
  BY <1>1, StartsEmpty DEF RelayIsFaithful, DeliveredInOrder, CompleteWhenWhole
<1> QED BY <1>1, <1>2, <1>3 DEF RelayKept, BeforeStart, StreamInit

LEMMA StreamNextKeeps == ASSUME RelayKept, [StreamNext]_streamVars PROVE RelayKept'
<1>1. CASE StreamNext
  BY <1>1, StreamChatCompletionKeeps, ScanLineKeeps, ScanEndsKeeps, CheckLineKeeps, SendChunkKeeps,
     AbandonSendKeeps, FlushableKeeps, RejectKeeps, ReceiveKeeps, ForwardKeeps, LeaveKeeps,
     CompleteKeeps, ExpireKeeps
  DEF StreamNext, Producer, Handler
<1>2. CASE UNCHANGED streamVars
  <2>1. UNCHANGED <<lines, chunks, chunksClosed, producer, consumer, cancelled, delivered, answer,
                    early, reader>>
    BY <1>2 DEF streamVars
  <2>2. InFlow' = InFlow
    BY <2>1 DEF InFlow, InHand, ToSend
  <2>3. RelaySound => RelaySound'
    BY <1>2, <2>2, SoundStays DEF streamVars, Chosen
  <2>4. RelayIsFaithful' /\ Due' = Due
    BY <2>1, FaithfulStays DEF RelayKept, Due, AllOf, SendsFinish
  <2> QED BY <2>1, <2>3, <2>4 DEF RelayKept, RelayTypes, BeforeStart
<1> QED BY <1>1, <1>2

(* Every relay delivers the upstream's chunks in order, without a gap and  *)
(* without a repetition, and reports a success of a whole answer only when *)
(* all of it has been delivered: for every answer, every size of channel,  *)
(* every kind of goroutine (openai.go:237-272, server.go:4543-4570).       *)
THEOREM RelayKeepsFaith == StreamSpec => []RelayIsFaithful
<1>1. RelayKept => RelayIsFaithful
  BY DEF RelayKept
<1> QED BY <1>1, StreamInitKept, StreamNextKeeps, PTL DEF StreamSpec

-----------------------------------------------------------------------------
(* The relay implements Delivery: every step of it is one of Delivery's.   *)

Rest(s, n) == SubSeq(s, n + 1, Len(s))

LEMMA RestTyped ==
  ASSUME NEW s \in Seq(Int), NEW n \in 0..Len(s)
  PROVE  /\ Rest(s, n) \in Seq(Int) /\ Len(Rest(s, n)) = Len(s) - n
         /\ \A i \in 1..(Len(s) - n) : Rest(s, n)[i] = s[n + i]
<1>1. Len(s) \in Nat /\ n \in Nat /\ n <= Len(s)
  OBVIOUS
<1>2. \A i \in (n + 1)..Len(s) : s[i] \in Int
  <2>1. \A i \in (n + 1)..Len(s) : i \in 1..Len(s)
    BY <1>1
  <2> QED BY <2>1, ElementOfSeq
<1> DEFINE u == SubSeq(s, n + 1, Len(s))
<1>3. /\ u \in Seq(Int) /\ Len(u) = IF n + 1 <= Len(s) THEN Len(s) - (n + 1) + 1 ELSE 0
      /\ \A i \in 1..(Len(s) - (n + 1) + 1) : u[i] = s[(n + 1) + i - 1]
  <2>1. n + 1 \in Int /\ Len(s) \in Int
    BY <1>1
  <2> QED BY <1>2, <2>1, SubSeqProperties
<1> HIDE DEF u
<1>4. Len(u) = Len(s) - n
  BY <1>1, <1>3
<1>5. ASSUME NEW i \in 1..(Len(s) - n) PROVE u[i] = s[n + i]
  <2>1. i \in 1..(Len(s) - (n + 1) + 1) /\ (n + 1) + i - 1 = n + i
    BY <1>1
  <2> QED BY <1>3, <2>1
<1> QED BY <1>3, <1>4, <1>5 DEF u, Rest

LEMMA RestEnds ==
  ASSUME NEW s \in Seq(Int)
  PROVE  Rest(s, Len(s)) = << >>
<1>1. Len(s) + 1 \in Int /\ Len(s) \in Int /\ Len(s) < Len(s) + 1
  OBVIOUS
<1> QED BY <1>1, SubSeqEmpty DEF Rest

(* What is left begins with the next element, ...                          *)
LEMMA RestMoves ==
  ASSUME NEW s \in Seq(Int), NEW n \in Nat, n < Len(s)
  PROVE  /\ Rest(s, n) # << >> /\ Head(Rest(s, n)) = s[n + 1]
         /\ Tail(Rest(s, n)) = Rest(s, n + 1)
<1> DEFINE u == Rest(s, n)
           v == Rest(s, n + 1)
<1>1. Len(s) \in Nat /\ n \in 0..Len(s) /\ n + 1 \in 0..Len(s)
  OBVIOUS
<1>2. u \in Seq(Int) /\ Len(u) = Len(s) - n /\ \A i \in 1..(Len(s) - n) : u[i] = s[n + i]
  BY <1>1, RestTyped
<1>3. /\ v \in Seq(Int) /\ Len(v) = Len(s) - (n + 1)
      /\ \A i \in 1..(Len(s) - (n + 1)) : v[i] = s[(n + 1) + i]
  BY <1>1, RestTyped
<1> HIDE DEF u, v
<1>4. u # << >>
  BY <1>1, <1>2
<1>5. /\ Head(u) = u[1] /\ Tail(u) \in Seq(Int) /\ Len(Tail(u)) = Len(u) - 1
      /\ \A i \in 1..Len(Tail(u)) : Tail(u)[i] = u[i + 1]
  BY <1>2, <1>4, HeadTailProperties
<1>6. Head(u) = s[n + 1]
  <2>1. 1 \in 1..(Len(s) - n)
    BY <1>1
  <2> QED BY <1>2, <1>5, <2>1
<1>7. Tail(u) = v
  <2> DEFINE w == Tail(u)
  <2>1. w \in Seq(Int) /\ Len(w) = Len(v)
    BY <1>1, <1>2, <1>3, <1>5
  <2>2. ASSUME NEW i \in 1..Len(v) PROVE w[i] = v[i]
    <3>1. /\ i \in 1..Len(w) /\ i + 1 \in 1..(Len(s) - n) /\ i \in 1..(Len(s) - (n + 1))
          /\ n + (i + 1) = (n + 1) + i
      BY <1>1, <1>3, <2>1
    <3>2. w[i] = u[i + 1]
      BY <1>5, <3>1
    <3>3. u[i + 1] = s[n + (i + 1)] /\ v[i] = s[(n + 1) + i]
      BY <1>2, <1>3, <3>1
    <3> QED BY <3>1, <3>2, <3>3
  <2> HIDE DEF w
  <2> QED BY <1>3, <2>1, <2>2, SeqEqual DEF w
<1> QED BY <1>4, <1>6, <1>7 DEF u, v

(* ... and is a prefix of what is left when one more is due.               *)
LEMMA PrefixOf ==
  ASSUME NEW s \in Seq(Int), NEW t \in Seq(Int), Len(s) <= Len(t),
         \A i \in 1..Len(s) : s[i] = t[i]
  PROVE  IsPrefix(s, t)
<1>1. Len(s) \in Nat /\ Len(t) \in Nat
  OBVIOUS
<1>2. SubSeq(s, 1, Len(s)) = s
  BY SubSeqFull
<1> DEFINE u == SubSeq(t, 1, Len(s))
<1>3. /\ u \in Seq(Int) /\ Len(u) = IF 1 <= Len(s) THEN Len(s) - 1 + 1 ELSE 0
      /\ \A i \in 1..(Len(s) - 1 + 1) : u[i] = t[1 + i - 1]
  <2>1. 1 \in Int /\ Len(s) \in Int
    BY <1>1
  <2>2. \A i \in 1..Len(s) : t[i] \in Int
    <3>1. \A i \in 1..Len(s) : i \in 1..Len(t)
      BY <1>1
    <3> QED BY <3>1, ElementOfSeq
  <2> QED BY <2>1, <2>2, SubSeqProperties
<1> HIDE DEF u
<1>4. Len(u) = Len(s)
  BY <1>1, <1>3
<1>5. ASSUME NEW i \in 1..Len(s) PROVE u[i] = s[i]
  <2>1. i \in 1..(Len(s) - 1 + 1) /\ 1 + i - 1 = i
    BY <1>1
  <2> QED BY <1>3, <2>1
<1>6. u = s
  BY <1>3, <1>4, <1>5, SeqEqual
<1> QED BY <1>2, <1>6 DEF IsPrefix, u

LEMMA RestGrows ==
  ASSUME NEW s \in Seq(Int), NEW x \in Int, NEW n \in 0..Len(s)
  PROVE  IsPrefix(Rest(s, n), Rest(Append(s, x), n))
<1> DEFINE t == Append(s, x)
           u == Rest(s, n)
           v == Rest(t, n)
<1>1. /\ t \in Seq(Int) /\ Len(t) = Len(s) + 1 /\ Len(s) \in Nat /\ n \in 0..Len(t)
      /\ \A i \in 1..Len(s) : t[i] = s[i]
  BY AppendProperties
<1> HIDE DEF t
<1>2. u \in Seq(Int) /\ Len(u) = Len(s) - n /\ \A i \in 1..(Len(s) - n) : u[i] = s[n + i]
  BY RestTyped
<1>3. v \in Seq(Int) /\ Len(v) = Len(t) - n /\ \A i \in 1..(Len(t) - n) : v[i] = t[n + i]
  BY <1>1, RestTyped
<1> HIDE DEF u, v
<1>4. Len(u) <= Len(v)
  BY <1>1, <1>2, <1>3
<1>5. ASSUME NEW i \in 1..Len(u) PROVE u[i] = v[i]
  <2>1. i \in 1..(Len(s) - n) /\ i \in 1..(Len(t) - n) /\ n + i \in 1..Len(s)
    <3>1. i \in 1..(Len(s) - n) /\ Len(t) - n = (Len(s) - n) + 1 /\ Len(s) \in Nat /\ n \in Nat
      BY <1>1, <1>2
    <3> QED BY <3>1
  <2>2. u[i] = s[n + i]
    BY <1>2, <2>1
  <2>3. v[i] = t[n + i]
    BY <1>3, <2>1
  <2>4. t[n + i] = s[n + i]
    BY <1>1, <2>1
  <2> QED BY <2>2, <2>3, <2>4
<1>6. IsPrefix(u, v)
  BY <1>2, <1>3, <1>4, <1>5, PrefixOf
<1> QED BY <1>6 DEF t, u, v

(* Delivery's steps, on its one lane.                                      *)
OnLane(v) == [l \in {"client"} |-> v]

LEMMA LaneMoves ==
  /\ \A v : OnLane(v)["client"] = v
  /\ \A v, w : [OnLane(v) EXCEPT !["client"] = w] = OnLane(w)
BY DEF OnLane

RelayedVars == <<OnLane(RelayStage), OnLane(Undelivered), OnLane(delivered), FALSE>>

LEMMA RelayedHandsIn ==
  ASSUME RelayStage = "open", RelayStage' = "open", delivered' = delivered,
         IsPrefix(Undelivered, Undelivered')
  PROVE  Relayed!Next
<1>1. /\ OnLane(Undelivered')["client"] = Undelivered' /\ OnLane(Undelivered)["client"] = Undelivered
      /\ OnLane(RelayStage)["client"] = RelayStage
      /\ OnLane(Undelivered') = [OnLane(Undelivered) EXCEPT !["client"] = Undelivered']
  BY LaneMoves
<1>2. Relayed!HandIn("client")
  BY <1>1 DEF Relayed!HandIn, OnLane, Relayed!IsPrefix, IsPrefix
<1> QED BY <1>2 DEF Relayed!Next

LEMMA RelayedDelivers ==
  ASSUME RelayStage \in {"open", "closed"}, RelayStage' = RelayStage, Undelivered # << >>,
         Undelivered' = Tail(Undelivered), delivered' = Append(delivered, Head(Undelivered))
  PROVE  Relayed!Next
<1>1. Relayed!Deliver("client")
  BY LaneMoves DEF Relayed!Deliver, OnLane
<1> QED BY <1>1 DEF Relayed!Next

LEMMA RelayedCloses ==
  ASSUME RelayStage = "open", RelayStage' = "closed", UNCHANGED <<Undelivered, delivered>>
  PROVE  Relayed!Next
<1>1. Relayed!Close("client")
  BY LaneMoves DEF Relayed!Close, OnLane
<1> QED BY <1>1 DEF Relayed!Next

LEMMA RelayedFinishes ==
  ASSUME RelayStage = "closed", RelayStage' = "done", Undelivered = << >>,
         UNCHANGED <<Undelivered, delivered>>
  PROVE  Relayed!Next
<1>1. Relayed!Finish("client")
  BY LaneMoves DEF Relayed!Finish, OnLane
<1> QED BY <1>1 DEF Relayed!Next

LEMMA RelayedBreaks ==
  ASSUME RelayStage \in {"open", "closed"}, RelayStage' = "broken", delivered' = delivered
  PROVE  Relayed!Next
<1>1. Relayed!BreakOff("client")
  BY LaneMoves DEF Relayed!BreakOff, OnLane, Undelivered
<1> QED BY <1>1 DEF Relayed!Next

LEMMA RelayedStutters ==
  ASSUME UNCHANGED <<RelayStage, Undelivered, delivered>>
  PROVE  UNCHANGED Relayed!deliveryVars
BY DEF Relayed!deliveryVars

(* A relay that was broken off stays so, and nothing is delivered.         *)
LEMMA BrokenStays ==
  ASSUME RelayStage = "broken", RelayStage' = "broken", delivered' = delivered
  PROVE  UNCHANGED Relayed!deliveryVars
<1>1. UNCHANGED Undelivered
  BY DEF Undelivered
<1> QED BY <1>1, RelayedStutters

LEMMA DueTyped ==
  ASSUME RelayTypes
  PROVE  /\ ChunksOf(answer) \in Seq(Int) /\ Due \in Seq(Int)
         /\ Due \in {ChunksOf(answer), Append(ChunksOf(answer), Finish)}
<1>1. answer \in Seq(Int) /\ Len(answer) \in 0..Len(answer)
  BY CountsTyped
<1>2. ChunksOf(answer) \in Seq(Int)
  BY <1>1, ChunksAdvance
<1>3. Finish \in Int
  BY DEF Finish
<1>4. Append(ChunksOf(answer), Finish) \in Seq(Int)
  BY <1>2, <1>3, AppendProperties
<1>5. Due \in {ChunksOf(answer), Append(ChunksOf(answer), Finish)}
  BY DEF Due, AllOf
<1> QED BY <1>2, <1>4, <1>5

(* What flows is what is due first.                                        *)
LEMMA DueAhead ==
  ASSUME RelayTypes, RelaySound
  PROVE  \E e \in Seq(Int) : Due = InFlow \o e
<1>1. /\ answer \in Seq(Int) /\ Read \in 0..Len(answer)
      /\ ChunksOf(answer) \in Seq(Int) /\ Due \in Seq(Int)
      /\ Due \in {ChunksOf(answer), Append(ChunksOf(answer), Finish)}
  BY CountsTyped, ReadRange, DueTyped DEF RelaySound
<1>2. CASE InFlow = ChunksUpTo(answer)[Read]
  <2> DEFINE x == ChunksUpTo(answer)[Read]
             A == ChunksOf(answer)
             y == <<Finish>>
  <2>1. x \in Seq(Int) /\ A \in Seq(Int) /\ y \in Seq(Int)
    BY <1>1, ChunksAdvance DEF Finish
  <2>2. PICK e \in Seq(Int) : A = x \o e
    BY <1>1, ChunksRemain
  <2>3. Append(A, Finish) = A \o y
    BY <1>1, AppendIsConcat DEF Finish
  <2> HIDE DEF x, A, y
  <2>4. (x \o e) \o y = x \o (e \o y) /\ e \o y \in Seq(Int)
    <3>1. x \in Seq(Int) /\ e \in Seq(Int) /\ y \in Seq(Int)
      BY <2>1
    <3>2. Joins(x, e, y)
      BY <3>1, JoinInts, Zenon
    <3> QED BY <3>2 DEF Joins
  <2>5. InFlow = x /\ (Due = A \/ Due = Append(A, Finish))
    BY <1>1, <1>2 DEF x, A
  <2>6. Due = InFlow \o e \/ Due = InFlow \o (e \o y)
    BY <2>2, <2>3, <2>4, <2>5
  <2> QED BY <2>4, <2>6
<1>3. CASE InFlow = Due
  <2>1. Due = Due \o << >> /\ << >> \in Seq(Int)
    BY <1>1, ConcatEmptySeq
  <2> QED BY <1>3, <2>1
<1>4. ASSUME producer.line = Finish, SendsFinish, InFlow = Append(ChunksOf(answer), Finish)
      PROVE  InFlow = Due
  BY <1>4 DEF Due, AllOf
<1> QED BY <1>2, <1>3, <1>4 DEF RelaySound, ProducerSound

(* What was delivered is what is due first.                                *)
Begins(d, w) == Len(d) <= Len(w) /\ \A i \in 1..Len(d) : w[i] = d[i]

LEMMA FlowAhead ==
  ASSUME NEW I, NEW d \in Seq(I), NEW h \in Seq(I), NEW c \in Seq(I), NEW t \in Seq(I),
         NEW e \in Seq(I), NEW w, w = Flow(d, h, c, t) \o e
  PROVE  Begins(d, w)
<1>1. d \in Seq(I) /\ h \in Seq(I) /\ c \in Seq(I) /\ t \in Seq(I) /\ e \in Seq(I)
  OBVIOUS
<1>2. PICK r \in Seq(I) : Flow(d, h, c, t) = d \o r
  <2>1. StartsWith(d, Flow(d, h, c, t), I)
    BY <1>1, FlowFrom
  <2> QED BY <2>1 DEF StartsWith
<1> DEFINE q == r \o e
<1>3. q \in Seq(I) /\ (d \o r) \o e = d \o q
  <2>1. d \in Seq(I) /\ r \in Seq(I) /\ e \in Seq(I)
    BY <1>1, <1>2
  <2> QED BY <2>1, JoinThree, SMTT(60)
<1> HIDE DEF q
<1>4. /\ Len(d \o q) = Len(d) + Len(q) /\ Len(d) \in Nat /\ Len(q) \in Nat
      /\ \A i \in 1..(Len(d) + Len(q)) :
           (d \o q)[i] = IF i <= Len(d) THEN d[i] ELSE q[i - Len(d)]
  BY <1>1, <1>3, ConcatProperties, LenProperties
<1>5. \A i \in 1..Len(d) : i \in 1..(Len(d) + Len(q)) /\ i <= Len(d)
  BY <1>4
<1>6. Flow(d, h, c, t) \o e = d \o q
  BY <1>2, <1>3
<1>7. Len(d) <= Len(d \o q) /\ \A i \in 1..Len(d) : (d \o q)[i] = d[i]
  BY <1>4, <1>5
<1> QED BY <1>6, <1>7 DEF Begins

LEMMA DeliveredFits ==
  ASSUME RelayTypes, RelaySound
  PROVE  Len(delivered) \in 0..Len(Due)
<1>1. /\ delivered \in Seq(Int) /\ InHand \in Seq(Int) /\ chunks \in Seq(Int)
      /\ ToSend \in Seq(Int) /\ Due \in Seq(Int)
  BY HandsTyped, DueTyped DEF RelayTypes
<1>2. PICK e \in Seq(Int) : Due = InFlow \o e
  BY DueAhead
<1>3. Len(delivered) <= Len(Due)
  <2> DEFINE h == InHand
             t == ToSend
             I == Int
             w == Due
  <2>1. /\ delivered \in Seq(I) /\ h \in Seq(I) /\ chunks \in Seq(I) /\ t \in Seq(I)
        /\ e \in Seq(I) /\ w = Flow(delivered, h, chunks, t) \o e
    BY <1>1, <1>2 DEF InFlow
  <2> HIDE DEF h, t, I, w
  <2>2. Begins(delivered, w)
    BY <2>1, FlowAhead
  <2> QED BY <2>2 DEF w, Begins
<1>4. Len(delivered) \in Nat /\ Len(Due) \in Nat
  BY <1>1
<1> QED BY <1>3, <1>4

LEMMA ForwardRefines == ASSUME RelayKept, Forward PROVE Relayed!Next
<1>1. /\ RelayTypes /\ RelaySound /\ consumer.pc = "check" /\ consumer'.pc = "receive"
      /\ ~early /\ early' = early /\ chunksClosed' = chunksClosed /\ consumer.chunk \in Int
      /\ delivered' = Append(delivered, consumer.chunk)
  <2>1. RelayTypes /\ consumer \in Consumers /\ consumer' = [consumer EXCEPT !.pc = "receive"]
    BY DEF RelayKept, RelayTypes, Forward
  <2>2. consumer'.pc = "receive"
    BY <2>1, RecordMoves
  <2> QED BY <2>1, <2>2 DEF RelayKept, Forward, Consumers
<1>2. Due' = Due
  BY DEF Due, AllOf, SendsFinish, Forward, Chosen
<1>3. RelayStage \in {"open", "closed"} /\ RelayStage' = RelayStage
  BY <1>1 DEF RelayStage
<1> DEFINE x == consumer.chunk
           t == ToSend
<1>4. /\ delivered \in Seq(Int) /\ chunks \in Seq(Int) /\ t \in Seq(Int) /\ x \in Int
      /\ << >> \in Seq(Int) /\ Due \in Seq(Int)
  BY <1>1, HandsTyped, DueTyped DEF RelayTypes
<1>5. InFlow = Flow(delivered, <<x>>, chunks, t)
  BY <1>1 DEF InFlow, InHand
<1>6. PICK e \in Seq(Int) : Due = InFlow \o e
  BY <1>1, DueAhead
<1> HIDE DEF x, t
<1> DEFINE d == Append(delivered, x)
<1>7. d \in Seq(Int) /\ Flow(d, << >>, chunks, t) = Flow(delivered, <<x>>, chunks, t)
  <2> DEFINE I == Int
  <2>1. delivered \in Seq(I) /\ chunks \in Seq(I) /\ t \in Seq(I) /\ x \in I
    BY <1>4
  <2> HIDE DEF I
  <2>2. d \in Seq(I) /\ Flow(d, << >>, chunks, t) = Flow(delivered, <<x>>, chunks, t)
    BY <2>1, FlowForwards
  <2> QED BY <2>2 DEF I
<1>8. Len(d) = Len(delivered) + 1 /\ Len(delivered) \in Nat /\ d[Len(delivered) + 1] = x
  BY <1>4, AppendProperties
<1> HIDE DEF d
<1>9. Len(d) <= Len(Due) /\ \A i \in 1..Len(d) : Due[i] = d[i]
  <2> DEFINE h == << >>
             I == Int
             w == Due
  <2>1. /\ d \in Seq(I) /\ h \in Seq(I) /\ chunks \in Seq(I) /\ t \in Seq(I)
        /\ e \in Seq(I) /\ w = Flow(d, h, chunks, t) \o e
    BY <1>4, <1>5, <1>6, <1>7
  <2> HIDE DEF h, I, w
  <2>2. Begins(d, w)
    BY <2>1, FlowAhead
  <2> QED BY <2>2 DEF w, Begins
<1>10. Len(delivered) < Len(Due) /\ Due[Len(delivered) + 1] = x
  <2>1. Len(delivered) + 1 \in 1..Len(d) /\ Len(Due) \in Nat
    BY <1>4, <1>8
  <2> QED BY <1>8, <1>9, <2>1
<1>11. /\ Undelivered = Rest(Due, Len(delivered))
       /\ Undelivered' = Rest(Due, Len(delivered) + 1)
  <2>1. delivered' = d
    BY <1>1 DEF d, x
  <2> QED BY <1>2, <1>3, <1>8, <2>1 DEF Undelivered, Rest
<1>12. /\ Undelivered # << >> /\ Head(Undelivered) = x
       /\ Undelivered' = Tail(Undelivered)
  BY <1>4, <1>8, <1>10, <1>11, RestMoves
<1>13. delivered' = Append(delivered, Head(Undelivered))
  BY <1>1, <1>12 DEF x
<1> QED BY <1>3, <1>12, <1>13, RelayedDelivers

(* The goroutine's steps while nothing was cancelled.                      *)
LEMMA ProducerStepRefines ==
  ASSUME RelayTypes, RelaySound, consumer.pc \notin {"success", "rejected"}, ~early,
         ~chunksClosed, UNCHANGED <<consumer, delivered, early, Chosen>>,
         producer.line # Finish \/ (producer'.line = producer.line /\ ~SendFinish),
         \/ UNCHANGED chunksClosed /\ (producer'.line = Finish => producer.line = Finish)
         \/ EndProducer \/ SendFinish
  PROVE  Relayed!Next \/ UNCHANGED Relayed!deliveryVars
<1>1. /\ RelayStage = "open" /\ answer' = answer /\ reader' = reader
      /\ RelayStage' = IF chunksClosed' THEN "closed" ELSE "open"
  BY DEF RelayStage, Chosen
<1>2. ASSUME producer'.line = Finish <=> producer.line = Finish
      PROVE  Due' = Due /\ Undelivered' = Undelivered
  <2>1. Due' = Due
    BY <1>1, <1>2 DEF Due, AllOf, SendsFinish
  <2> QED BY <1>1, <2>1 DEF Undelivered
<1>3. CASE EndProducer
  <2>1. producer' = [producer EXCEPT !.pc = "ended"] /\ chunksClosed' /\ producer \in Producers
    BY <1>3 DEF EndProducer, RelayTypes
  <2>2. producer'.line = producer.line
    BY <2>1, RecordMoves
  <2> QED BY <1>1, <1>2, <2>1, <2>2, RelayedCloses
<1>4. CASE SendFinish
  <2>1. producer'.line = Finish /\ SendsFinish /\ RelayStage' = "open" /\ producer.line # Finish
    BY <1>1, <1>4 DEF SendFinish
  <2>2. CASE Whole(answer)
    <3>1. Due' = Due
      BY <1>1, <2>2 DEF Due, AllOf, SendsFinish
    <3>2. UNCHANGED <<RelayStage, Undelivered, delivered>>
      BY <1>1, <2>1, <3>1 DEF Undelivered
    <3> QED BY <3>2, RelayedStutters
  <2>3. CASE ~Whole(answer)
    <3>1. Due' = Append(Due, Finish)
      BY <1>1, <2>1, <2>3 DEF Due
    <3>2. Due \in Seq(Int) /\ Finish \in Int /\ Len(delivered) \in 0..Len(Due)
      BY DueTyped, DeliveredFits DEF Finish
    <3>3. IsPrefix(Rest(Due, Len(delivered)), Rest(Append(Due, Finish), Len(delivered)))
      BY <3>2, RestGrows
    <3>4. /\ Undelivered = Rest(Due, Len(delivered))
          /\ Undelivered' = Rest(Append(Due, Finish), Len(delivered))
      BY <1>1, <2>1, <3>1 DEF Undelivered, Rest
    <3> QED BY <1>1, <2>1, <3>3, <3>4, RelayedHandsIn
  <2> QED BY <2>2, <2>3
<1>5. CASE UNCHANGED chunksClosed /\ ~SendFinish /\ (producer'.line = Finish => producer.line = Finish)
  BY <1>1, <1>2, <1>5, RelayedStutters
<1> QED BY <1>3, <1>4, <1>5

LEMMA ProducerRefines ==
  ASSUME RelayKept, Producer
  PROVE  Relayed!Next \/ UNCHANGED Relayed!deliveryVars
<1>1. /\ RelayTypes /\ UNCHANGED <<consumer, cancelled, delivered, early, Chosen>>
      /\ producer.pc \in {"scan", "check", "send"}
  BY DEF RelayKept, Producer, ScanLine, ScanEnds, CheckLine, SendChunk, AbandonSend
<1>2. CASE early \/ consumer.pc = "rejected"
  BY <1>1, <1>2, BrokenStays DEF RelayStage
<1>3. CASE ~early /\ consumer.pc # "rejected"
  <2>1. consumer.pc \notin {"idle", "success", "rejected"} /\ ~cancelled
    BY <1>1, <1>3 DEF RelayKept, BeforeStart
  <2>2. RelaySound /\ ~chunksClosed
    BY <1>1, <2>1 DEF RelayKept, RelaySound
  <2>3. CASE ScanLine
    <3>1. producer.line # Finish
      BY <2>2, <2>3 DEF ScanLine, RelaySound, ProducerSound
    <3>2. Head(lines) = lines[1] /\ Len(lines) \in Nat \ {0}
      <4>1. lines \in Seq(Int) /\ lines # << >>
        BY <1>1, <2>3 DEF RelayTypes, ScanLine
      <4> QED BY <4>1, HeadTailProperties
    <3>3. lines[1] = answer[Read + 1] /\ Read + 1 \in 1..Len(answer)
      <4>1. Read \in Int /\ Len(answer) \in Nat /\ Read = Len(answer) - Len(lines)
        BY <1>1, CountsTyped DEF Read
      <4> QED BY <2>2, <3>2, <4>1 DEF RelaySound, Unread
    <3>4. producer'.line \in Line
      BY <1>1, <2>3, <3>2, <3>3, AnswerTyped DEF ScanLine, RelayTypes
    <3>5. producer'.line # Finish /\ UNCHANGED chunksClosed
      BY <2>3, <3>4 DEF Line, Done, Junk, Finish, ScanLine
    <3> QED BY <1>1, <1>3, <2>1, <2>2, <3>1, <3>5, ProducerStepRefines
  <2>4. CASE ScanEnds
    <3>1. producer.line # Finish /\ (EndProducer \/ SendFinish)
      BY <2>2, <2>4 DEF ScanEnds, RelaySound, ProducerSound
    <3> QED BY <1>1, <1>3, <2>1, <2>2, <3>1, ProducerStepRefines
  <2>5. CASE CheckLine
    <3>1. producer.pc = "check" /\ Read >= 1 /\ producer.line = answer[Read] /\ Read \in 0..Len(answer)
      BY <1>1, <2>2, <2>5, ReadRange DEF CheckLine, RelaySound, ProducerSound
    <3>2. Len(answer) \in Nat
      BY <1>1, CountsTyped
    <3>3. producer.line \in Line
      BY <1>1, <3>1, <3>2, AnswerTyped DEF RelayTypes
    <3>4. producer.line # Finish
      BY <3>3 DEF Line, Done, Junk, Finish
    <3>5. \/ EndProducer \/ SendFinish
          \/ /\ producer' = [producer EXCEPT !.pc = IF IsChunk(producer.line) THEN "send" ELSE "scan"]
             /\ UNCHANGED chunksClosed
      BY <2>5 DEF CheckLine
    <3>6. ASSUME producer' = [producer EXCEPT !.pc = IF IsChunk(producer.line) THEN "send" ELSE "scan"]
          PROVE  producer'.line = producer.line
      BY <1>1, <3>6, RecordMoves DEF RelayTypes
    <3> QED BY <1>1, <1>3, <2>1, <2>2, <3>4, <3>5, <3>6, ProducerStepRefines
  <2>6. CASE SendChunk
    <3>1. EndProducer \/ (producer' = [producer EXCEPT !.pc = "scan"] /\ UNCHANGED chunksClosed)
      BY <2>6 DEF SendChunk, AfterSend
    <3>2. producer'.line = producer.line /\ producer'.pc # "send"
      <4>1. producer \in Producers
        BY <1>1 DEF RelayTypes
      <4>2. producer' = [producer EXCEPT !.pc = "ended"] \/ producer' = [producer EXCEPT !.pc = "scan"]
        BY <3>1 DEF EndProducer
      <4>3. /\ [producer EXCEPT !.pc = "ended"].line = producer.line
            /\ [producer EXCEPT !.pc = "ended"].pc = "ended"
        BY <4>1, RecordMoves
      <4>4. /\ [producer EXCEPT !.pc = "scan"].line = producer.line
            /\ [producer EXCEPT !.pc = "scan"].pc = "scan"
        BY <4>1, RecordMoves
      <4> QED BY <4>2, <4>3, <4>4
    <3>3. ~SendFinish
      BY <3>2 DEF SendFinish
    <3> QED BY <1>1, <1>3, <2>1, <2>2, <3>1, <3>2, <3>3, ProducerStepRefines
  <2>7. ~AbandonSend
    BY <2>1 DEF AbandonSend
  <2> QED BY <2>3, <2>4, <2>5, <2>6, <2>7 DEF Producer
<1> QED BY <1>2, <1>3

(* The handler's other steps, and the end of ctx.                          *)
LEMMA HandlerRefines ==
  ASSUME RelayKept, Flushable \/ Receive \/ Leave \/ Reject \/ Expire
  PROVE  Relayed!Next \/ UNCHANGED Relayed!deliveryVars
<1>1. /\ RelayTypes /\ consumer \in Consumers
      /\ UNCHANGED <<delivered, answer, reader, producer, chunksClosed>>
  BY DEF RelayKept, RelayTypes, Flushable, Receive, Leave, Reject, Expire, Chosen
<1>2. Due' = Due
  BY <1>1 DEF Due, AllOf, SendsFinish
<1>3. CASE Flushable \/ Receive
  <2>1. consumer.pc \in {"start", "receive"} /\ consumer'.pc \in {"receive", "check"} /\ early' = early
    <3>1. CASE Flushable
      <4>1. consumer' = [consumer EXCEPT !.pc = "receive"]
        BY <3>1 DEF Flushable
      <4>2. consumer'.pc = "receive"
        BY <1>1, <4>1, RecordMoves
      <4> QED BY <3>1, <4>2 DEF Flushable
    <3>2. CASE Receive
      BY <3>2 DEF Receive
    <3> QED BY <1>3, <3>1, <3>2
  <2>2. RelayStage' = RelayStage
    BY <1>1, <2>1 DEF RelayStage
  <2>3. Undelivered' = Undelivered
    BY <1>1, <1>2, <2>2 DEF Undelivered
  <2> QED BY <1>1, <2>2, <2>3, RelayedStutters
<1>4. CASE Leave
  <2>1. early /\ early' = early
    BY <1>4 DEF Leave, RelayKept
  <2> QED BY <1>1, <2>1, BrokenStays DEF RelayStage
<1>5. CASE Reject
  <2>1. consumer.pc = "start" /\ consumer'.pc = "rejected"
    <3>1. consumer' = [consumer EXCEPT !.pc = "rejected"]
      BY <1>5 DEF Reject
    <3> QED BY <1>1, <1>5, <3>1, RecordMoves DEF Reject
  <2>2. RelayStage' = "broken" /\ RelayStage \in {"open", "closed", "broken"}
    BY <2>1 DEF RelayStage
  <2> QED BY <1>1, <2>2, BrokenStays, RelayedBreaks
<1>6. CASE Expire
  <2>1. ~early /\ consumer.pc \notin {"success", "rejected"} /\ early'
    BY <1>6 DEF Expire, RelayKept
  <2>2. RelayStage' = "broken" /\ RelayStage \in {"open", "closed"}
    BY <2>1 DEF RelayStage
  <2> QED BY <1>1, <2>2, RelayedBreaks
<1> QED BY <1>3, <1>4, <1>5, <1>6

LEMMA CompleteRefines ==
  ASSUME RelayKept, RelayKept', Complete
  PROVE  Relayed!Next \/ UNCHANGED Relayed!deliveryVars
<1>1. /\ RelayTypes /\ consumer.pc = "receive" /\ chunksClosed
      /\ consumer'.pc = "success"
      /\ UNCHANGED <<delivered, answer, reader, producer, early, chunksClosed>>
  <2>1. RelayTypes /\ consumer \in Consumers /\ consumer' = [consumer EXCEPT !.pc = "success"]
    BY DEF RelayKept, RelayTypes, Complete
  <2>2. consumer'.pc = "success"
    BY <2>1, RecordMoves
  <2> QED BY <2>1, <2>2 DEF Complete, Chosen
<1>2. CASE early
  BY <1>1, <1>2, BrokenStays DEF RelayStage
<1>3. CASE ~early
  <2>1. RelayStage = "closed" /\ RelayStage' = "done"
    BY <1>1, <1>3 DEF RelayStage
  <2>2. Due' = Due /\ delivered' = Due'
    BY <1>1, <1>3 DEF Due, AllOf, SendsFinish, RelayKept
  <2>3. delivered = Due /\ Due \in Seq(Int)
    BY <1>1, <2>2, DueTyped
  <2>4. Undelivered = Rest(Due, Len(Due)) /\ Undelivered' = Undelivered
    BY <1>1, <2>1, <2>2, <2>3 DEF Undelivered, Rest
  <2>5. Undelivered = << >>
    BY <2>3, <2>4, RestEnds
  <2> QED BY <1>1, <2>1, <2>4, <2>5, RelayedFinishes
<1> QED BY <1>2, <1>3

(* Nothing is due before the upstream has answered.                        *)
LEMMA NothingDue ==
  ASSUME RelayTypes, BeforeStart
  PROVE  Due = << >> /\ Rest(Due, 0) = << >>
<1>1. << >> \in Seq(Int) /\ Len(<< >>) = 0
  OBVIOUS
<1>2. ChunksOf(<< >>) = << >>
  <2> DEFINE s == << >>
  <2>1. s \in Seq(Int) /\ Len(s) = 0
    OBVIOUS
  <2> HIDE DEF s
  <2>2. ChunksUpTo(s)[0] = << >> /\ ChunksUpTo(s)[Len(s)] = ChunksOf(s)
    BY <2>1, ChunksAdvance
  <2> QED BY <2>1, <2>2 DEF s
<1>3. ~Whole(<< >>)
  BY DEF Whole, Contains
<1>4. Due = << >>
  BY <1>2, <1>3 DEF Due, BeforeStart, Junk, Finish
<1> QED BY <1>1, <1>4, RestEnds

LEMMA StreamChatCompletionRefines ==
  ASSUME RelayKept, RelayKept', StreamChatCompletion
  PROVE  Relayed!Next
<1>1. /\ RelayTypes /\ BeforeStart /\ ~early /\ consumer.pc = "idle" /\ delivered = << >>
      /\ UNCHANGED <<delivered, early, chunksClosed>> /\ ~chunksClosed
      /\ consumer'.pc = "start"
  <2>1. RelayTypes /\ consumer \in Consumers /\ consumer' = [consumer EXCEPT !.pc = "start"]
    BY DEF RelayKept, RelayTypes, StreamChatCompletion
  <2>2. consumer'.pc = "start"
    BY <2>1, RecordMoves
  <2> QED BY <2>1, <2>2 DEF RelayKept, BeforeStart, StreamChatCompletion
<1>2. RelayStage = "open" /\ RelayStage' = "open"
  BY <1>1 DEF RelayStage
<1>3. Undelivered = << >>
  <2>1. Undelivered = Rest(Due, 0)
    BY <1>1, <1>2 DEF Undelivered, Rest
  <2> QED BY <1>1, <2>1, NothingDue
<1> DEFINE a == answer'
           D == Due'
<1>4. D \in Seq(Int)
  <2>1. a \in Answers \cup {<< >>}
    BY DEF StreamChatCompletion
  <2>2. a \in Seq(Int)
    BY <2>1, AnswerTyped
  <2>3. ChunksOf(a) \in Seq(Int)
    <3>1. Len(a) \in 0..Len(a)
      BY <2>2
    <3> HIDE DEF a
    <3> QED BY <2>2, <3>1, ChunksAdvance
  <2>4. Append(ChunksOf(a), Finish) \in Seq(Int)
    BY <2>3, AppendProperties DEF Finish
  <2>5. D \in {ChunksOf(a), Append(ChunksOf(a), Finish)}
    BY DEF Due, AllOf
  <2> QED BY <2>3, <2>4, <2>5
<1>5. Undelivered' = Rest(D, 0)
  BY <1>1, <1>2 DEF Undelivered, Rest
<1> HIDE DEF D
<1>6. IsPrefix(<< >>, Rest(D, 0))
  <2> DEFINE e == << >>
             r == Rest(D, 0)
  <2>1. r \in Seq(Int)
    <3>1. 0 \in 0..Len(D)
      BY <1>4
    <3> QED BY <1>4, <3>1, RestTyped
  <2>2. e \in Seq(Int) /\ Len(e) = 0
    OBVIOUS
  <2> HIDE DEF e, r
  <2>3. Len(e) <= Len(r) /\ \A i \in 1..Len(e) : e[i] = r[i]
    BY <2>1, <2>2
  <2>4. IsPrefix(e, r)
    BY <2>1, <2>2, <2>3, PrefixOf
  <2> QED BY <2>4 DEF e, r
<1> QED BY <1>1, <1>2, <1>3, <1>5, <1>6, RelayedHandsIn

LEMMA RelayStepRefines ==
  ASSUME RelayKept, RelayKept', [StreamNext]_streamVars
  PROVE  [Relayed!Next]_(Relayed!deliveryVars)
<1>1. CASE StreamNext
  BY <1>1, StreamChatCompletionRefines, ProducerRefines, HandlerRefines, ForwardRefines,
     CompleteRefines
  DEF StreamNext, Handler
<1>2. CASE UNCHANGED streamVars
  <2>1. UNCHANGED <<consumer, delivered, answer, reader, producer, chunksClosed, early>>
    BY <1>2 DEF streamVars
  <2>2. RelayStage' = RelayStage /\ Due' = Due
    BY <2>1 DEF RelayStage, Due, AllOf, SendsFinish
  <2>3. Undelivered' = Undelivered
    BY <2>1, <2>2 DEF Undelivered
  <2> QED BY <2>1, <2>2, <2>3, RelayedStutters
<1> QED BY <1>1, <1>2

(* Every relay implements Delivery with one lane, for every answer, every  *)
(* size of the channel and every kind of goroutine: what is due arrives in *)
(* its order, a success leaves nothing on its way, and nothing arrives at  *)
(* a client after the relay was broken off (openai.go:237-272,             *)
(* server.go:4543-4570).                                                   *)
THEOREM RelayImplementsDelivery == StreamSpec => RelayDelivers
<1>1. StreamInit => Relayed!Init
  <2> SUFFICES ASSUME StreamInit PROVE Relayed!Init
    OBVIOUS
  <2>1. RelayTypes /\ BeforeStart
    BY StreamInitKept DEF RelayKept, StreamInit
  <2>2. /\ consumer.pc = "idle" /\ ~early /\ ~chunksClosed /\ delivered = << >>
    BY DEF StreamInit
  <2>3. RelayStage = "open"
    BY <2>2 DEF RelayStage
  <2>4. Undelivered = Rest(Due, 0)
    BY <2>2, <2>3 DEF Undelivered, Rest
  <2>5. Undelivered = << >>
    BY <2>1, <2>4, NothingDue
  <2> QED BY <2>2, <2>3, <2>5 DEF Relayed!Init
<1> QED BY <1>1, StreamInitKept, StreamNextKeeps, RelayStepRefines, PTL
        DEF StreamSpec, RelayDelivers, Relayed!Spec

-----------------------------------------------------------------------------
(* The types of the parts that serve, and of all of them together.         *)

(* What the goroutine has yet to read is the end of the answer, and the    *)
(* channel holds no more than it has room for.                             *)
StreamKept ==
    /\ Unread /\ Len(chunks) <= ChannelCapacity
    /\ reader \in Readers /\ respWriter \in Writers

LEMMA StreamKeptTyped == RelayTypes /\ StreamKept => StreamTypeOK
<1> SUFFICES ASSUME RelayTypes, StreamKept PROVE StreamTypeOK
  OBVIOUS
<1> DEFINE n == Len(lines)
           r == Reverse(lines)
           a == Reverse(answer)
<1>1. /\ lines \in Seq(Int) /\ answer \in Seq(Int) /\ n \in Nat
      /\ Len(answer) \in Nat /\ n <= Len(answer)
      /\ \A i \in 1..n : lines[i] = answer[(Len(answer) - n) + i]
  BY CountsTyped DEF RelayTypes, StreamKept, Unread, Read
<1>2. /\ DOMAIN r = 1..n /\ DOMAIN a = 1..Len(answer)
      /\ \A i \in 1..n : r[i] = lines[(n - i) + 1]
      /\ \A i \in 1..Len(answer) : a[i] = answer[(Len(answer) - i) + 1]
  BY DEF Reverse
<1>3. \A i \in 1..n : lines[i] \in Int
  BY <1>1, ElementOfSeq
<1>4. \A i \in 1..Len(answer) : answer[i] \in Int
  BY <1>1, ElementOfSeq
<1>5. r \in Seq(Int) /\ Len(r) = n
  <2>1. \A i \in 1..n : (n - i) + 1 \in 1..n
    BY <1>1
  <2>2. \A i \in 1..n : r[i] \in Int
    BY <1>2, <1>3, <2>1
  <2>3. r = [i \in 1..n |-> r[i]]
    BY <1>2 DEF Reverse
  <2> HIDE DEF r
  <2> QED BY <1>1, <2>2, <2>3
<1>6. a \in Seq(Int) /\ Len(a) = Len(answer)
  <2> DEFINE m == Len(answer)
  <2>1. \A i \in 1..m : (m - i) + 1 \in 1..m
    BY <1>1
  <2>2. \A i \in 1..m : a[i] \in Int
    BY <1>2, <1>4, <2>1
  <2>3. a = [i \in 1..m |-> a[i]]
    BY <1>2 DEF Reverse
  <2>4. m \in Nat
    BY <1>1
  <2> HIDE DEF a, m
  <2>5. a \in Seq(Int) /\ Len(a) = m
    BY <2>2, <2>3, <2>4
  <2> QED BY <2>5 DEF m
<1>7. ASSUME NEW i \in 1..n PROVE r[i] = a[i]
  <2>1. /\ (n - i) + 1 \in 1..n /\ i \in 1..Len(answer)
        /\ (Len(answer) - n) + ((n - i) + 1) = (Len(answer) - i) + 1
    BY <1>1
  <2> QED BY <1>1, <1>2, <2>1
<1> HIDE DEF r, a
<1>8. SubSeq(r, 1, n) = r
  BY <1>5, SubSeqFull
<1>9. SubSeq(a, 1, n) = r
  <2> DEFINE s == SubSeq(a, 1, n)
  <2>1. 1 \in Int /\ n \in Int /\ \A i \in 1..n : i \in 1..Len(a) /\ a[i] \in Int
    BY <1>1, <1>6, ElementOfSeq
  <2>2. /\ s \in Seq(Int) /\ Len(s) = IF 1 <= n THEN n - 1 + 1 ELSE 0
        /\ \A i \in 1..(n - 1 + 1) : s[i] = a[1 + i - 1]
    BY <1>6, <2>1, SubSeqProperties
  <2> HIDE DEF s, n
  <2>3. Len(s) = n
    BY <1>1, <2>2
  <2>4. ASSUME NEW i \in 1..n PROVE s[i] = r[i]
    <3>1. i \in 1..(n - 1 + 1) /\ 1 + i - 1 = i
      BY <1>1
    <3> QED BY <1>7, <2>2, <3>1
  <2>5. s = r
    BY <1>5, <2>2, <2>3, <2>4, SeqEqual
  <2> QED BY <2>5 DEF s
<1>10. IsSuffix(lines, answer)
  BY <1>1, <1>5, <1>6, <1>8, <1>9 DEF IsSuffix, IsPrefix, r, a
<1> QED BY <1>10 DEF StreamTypeOK, StreamKept, RelayTypes, Producers, Consumers

LEMMA ScanLineTyped ==
  ASSUME RelayTypes, Unread, ScanLine
  PROVE  Unread'
<1>1. lines \in Seq(Int) /\ lines # << >> /\ lines' = Tail(lines) /\ answer' = answer
  BY DEF RelayTypes, ScanLine, Chosen
<1>2. /\ Len(lines') = Len(lines) - 1 /\ Len(lines) \in Nat \ {0}
      /\ \A i \in 1..Len(lines') : lines'[i] = lines[i + 1]
  BY <1>1, HeadTailProperties
<1>3. Len(answer) \in Nat /\ Len(lines) <= Len(answer)
  BY CountsTyped DEF Unread
<1>4. ASSUME NEW i \in 1..Len(lines')
      PROVE  lines'[i] = answer[(Len(answer) - Len(lines')) + i]
  <2>1. /\ i + 1 \in 1..Len(lines)
        /\ (Len(answer) - Len(lines)) + (i + 1) = (Len(answer) - Len(lines')) + i
    BY <1>2, <1>3
  <2>2. lines[i + 1] = answer[(Len(answer) - Len(lines)) + (i + 1)]
    BY <2>1 DEF Unread, Read
  <2> QED BY <1>2, <2>1, <2>2
<1> QED BY <1>1, <1>2, <1>3, <1>4 DEF Unread, Read

LEMMA StreamKeptStep ==
  ASSUME RelayTypes, StreamKept, [StreamNext]_streamVars
  PROVE  StreamKept'
<1>1. CASE UNCHANGED streamVars
  BY <1>1 DEF streamVars, StreamKept, Unread, Read
<1>2. CASE StreamChatCompletion
  <2>1. answer' \in Seq(Int)
    BY <1>2, AnswerTyped DEF StreamChatCompletion
  <2>2. Len(answer') \in Nat /\ lines' = answer'
    BY <1>2, <2>1 DEF StreamChatCompletion
  <2>3. Unread'
    BY <2>2 DEF Unread, Read
  <2> QED BY <1>2, <2>3 DEF StreamChatCompletion, StreamKept
<1>3. CASE ScanLine
  BY <1>3, ScanLineTyped DEF ScanLine, StreamKept, Chosen
<1>4. CASE SendChunk
  <2>1. chunks \in Seq(Int) /\ producer.line \in Int
    BY DEF RelayTypes, Producers
  <2>2. Len(chunks') = Len(chunks) + 1 /\ Len(chunks) < ChannelCapacity
    BY <1>4, <2>1, AppendProperties DEF SendChunk
  <2>3. Len(chunks') <= ChannelCapacity
    BY <2>1, <2>2, StreamAssumption
  <2> QED BY <1>4, <2>3 DEF SendChunk, StreamKept, Chosen, Unread, Read
<1>5. CASE Receive
  <2>1. chunks \in Seq(Int) /\ chunks # << >>
    BY <1>5 DEF RelayTypes, Receive
  <2>2. Len(chunks') = Len(chunks) - 1 /\ Len(chunks) \in Nat
    BY <1>5, <2>1, HeadTailProperties DEF Receive
  <2>3. Len(chunks') <= ChannelCapacity
    BY <2>2, StreamAssumption DEF StreamKept
  <2> QED BY <1>5, <2>3 DEF Receive, StreamKept, Chosen, Unread, Read
<1>6. CASE ScanEnds \/ CheckLine \/ AbandonSend
  BY <1>6 DEF ScanEnds, CheckLine, AbandonSend, StreamKept, Chosen, Unread, Read
<1>7. CASE Flushable \/ Reject \/ Forward \/ Leave \/ Complete
  BY <1>7 DEF Flushable, Reject, Forward, Leave, Complete, StreamKept, Chosen, Unread, Read
<1>8. CASE Expire
  BY <1>8 DEF Expire, StreamKept, Chosen, Unread, Read
<1> QED BY <1>1, <1>2, <1>3, <1>4, <1>5, <1>6, <1>7, <1>8 DEF StreamNext, Producer, Handler

(* Every reachable state of a relay is well typed; its channel never holds *)
(* more than it has room for.                                              *)
THEOREM StreamTypeCorrect == StreamSpec => []StreamTypeOK
<1>1. StreamInit => RelayKept /\ StreamKept
  <2> SUFFICES ASSUME StreamInit PROVE RelayKept /\ StreamKept
    OBVIOUS
  <2>1. reader \in Readers /\ respWriter \in Writers
    BY StreamAssumption DEF StreamInit
  <2>2. answer = << >> /\ lines = << >> /\ chunks = << >>
    BY DEF StreamInit
  <2>3. Len(<< >>) = 0
    OBVIOUS
  <2>4. Unread /\ Len(chunks) <= ChannelCapacity
    BY <2>2, <2>3, StreamAssumption DEF Unread, Read
  <2> QED BY <2>1, <2>4, StreamInitKept DEF StreamKept
<1>2. RelayKept /\ StreamKept /\ [StreamNext]_streamVars => RelayKept' /\ StreamKept'
  BY StreamNextKeeps, StreamKeptStep DEF RelayKept
<1>3. RelayKept /\ StreamKept => StreamTypeOK
  BY StreamKeptTyped DEF RelayKept
<1> QED BY <1>1, <1>2, <1>3, PTL DEF StreamSpec

(* What a step does to the record of one connection.                       *)
LEMMA BridgeMoves ==
  ASSUME NEW r \in Bridge
  PROVE  /\ \A pc \in {"dial", "hijack", "bridge", "closed"} :
              /\ [r EXCEPT !.pc = pc] \in Bridge
              /\ \A on \in BOOLEAN : /\ [r EXCEPT !.pc = pc, !.dest = on] \in Bridge
                                     /\ [r EXCEPT !.pc = pc, !.client = on] \in Bridge
         /\ [r EXCEPT !.pc = "bridge", !.out = "read", !.back = "read"] \in Bridge
         /\ [r EXCEPT !.pc = "closed", !.dest = FALSE, !.client = FALSE] \in Bridge
         /\ [r EXCEPT !.client = FALSE] \in Bridge /\ [r EXCEPT !.dest = FALSE] \in Bridge
         /\ \A stage \in {"read", "write", "send"} :
              [r EXCEPT !.out = stage] \in Bridge /\ [r EXCEPT !.back = stage] \in Bridge
         /\ r.done \in 0..2
         /\ \A n \in 0..2 :
              /\ [r EXCEPT !.out = "done", !.done = n] \in Bridge
              /\ [r EXCEPT !.back = "done", !.done = n] \in Bridge
              /\ [r EXCEPT !.done = n, !.pc = "closed", !.client = FALSE, !.dest = FALSE]
                   \in Bridge
<1> USE DEF Bridge, Copying
<1>1. ASSUME NEW pc \in {"dial", "hijack", "bridge", "closed"}
      PROVE  /\ [r EXCEPT !.pc = pc] \in Bridge
             /\ \A on \in BOOLEAN : /\ [r EXCEPT !.pc = pc, !.dest = on] \in Bridge
                                    /\ [r EXCEPT !.pc = pc, !.client = on] \in Bridge
  OBVIOUS
<1>2. /\ [r EXCEPT !.pc = "bridge", !.out = "read", !.back = "read"] \in Bridge
      /\ [r EXCEPT !.pc = "closed", !.dest = FALSE, !.client = FALSE] \in Bridge
  OBVIOUS
<1>3. /\ [r EXCEPT !.client = FALSE] \in Bridge /\ [r EXCEPT !.dest = FALSE] \in Bridge
      /\ \A stage \in {"read", "write", "send"} :
           [r EXCEPT !.out = stage] \in Bridge /\ [r EXCEPT !.back = stage] \in Bridge
      /\ r.done \in 0..2
  OBVIOUS
<1>4. ASSUME NEW n \in 0..2
      PROVE  /\ [r EXCEPT !.out = "done", !.done = n] \in Bridge
             /\ [r EXCEPT !.back = "done", !.done = n] \in Bridge
             /\ [r EXCEPT !.done = n, !.pc = "closed", !.client = FALSE, !.dest = FALSE]
                  \in Bridge
  OBVIOUS
<1> HIDE DEF Bridge, Copying
<1> QED BY <1>1, <1>2, <1>3, <1>4

LEMMA BridgeKeeps ==
  ASSUME BridgeTypeOK, NEW b \in Bridges, NEW r \in Bridge, Set(b, r)
  PROVE  BridgeTypeOK'
BY DEF BridgeTypeOK, Set

LEMMA BridgeTypedStep ==
  ASSUME BridgeTypeOK, BridgeNext
  PROVE  BridgeTypeOK'
<1>1. ASSUME NEW b \in Bridges,
             handleTunnel(b) \/ BridgeStep(b) \/ PeerStep(b)
      PROVE  \E r \in Bridge : Set(b, r)
  <2> DEFINE old == bridge[b]
  <2>1. old \in Bridge
    BY DEF BridgeTypeOK
  <2>2. CASE handleTunnel(b)
    BY <2>1, <2>2, BridgeMoves DEF handleTunnel
  <2>3. ASSUME NEW ok \in BOOLEAN, Dial(b, ok) \/ Hijack(b, ok)
        PROVE  \E r \in Bridge : Set(b, r)
    <3>1. CASE Dial(b, ok)
      <4>1. /\ [old EXCEPT !.pc = "hijack", !.dest = TRUE] \in Bridge
            /\ [old EXCEPT !.pc = "closed", !.client = FALSE] \in Bridge
        BY <2>1, BridgeMoves
      <4> QED BY <3>1, <4>1 DEF Dial
    <3>2. CASE Hijack(b, ok)
      <4>1. /\ [old EXCEPT !.pc = "bridge", !.out = "read", !.back = "read"] \in Bridge
            /\ [old EXCEPT !.pc = "closed", !.dest = FALSE, !.client = FALSE] \in Bridge
        BY <2>1, BridgeMoves
      <4> QED BY <3>2, <4>1 DEF Hijack
    <3> QED BY <2>3, <3>1, <3>2
  <2>4. ASSUME NEW way \in Ways, CopyReads(b, way) \/ CopyWrites(b, way) \/ CopyEnds(b, way)
        PROVE  \E r \in Bridge : Set(b, r)
    <3>1. \A stage \in {"read", "write", "send"} :
            /\ [old EXCEPT !["out"] = stage] \in Bridge
            /\ [old EXCEPT !["back"] = stage] \in Bridge
      BY <2>1, BridgeMoves
    <3>2. \A stage \in {"read", "write", "send"} : [old EXCEPT ![way] = stage] \in Bridge
      BY <3>1 DEF Ways
    <3> QED BY <2>4, <3>2 DEF CopyReads, CopyWrites, CopyEnds
  <2>5. ASSUME NEW way \in Ways, SendDone(b, way)
        PROVE  \E r \in Bridge : Set(b, r)
    <3> DEFINE n == old.done + 1
    <3>0. old.done \in 0..2 /\ old.done < 2
      BY <2>1, <2>5 DEF SendDone, Bridge
    <3>1. n \in 0..2
      BY <3>0
    <3> HIDE DEF n
    <3>2. /\ [old EXCEPT !["out"] = "done", !.done = n] \in Bridge
          /\ [old EXCEPT !["back"] = "done", !.done = n] \in Bridge
      BY <2>1, <3>1, BridgeMoves
    <3>3. [old EXCEPT ![way] = "done", !.done = n] \in Bridge
      BY <3>2 DEF Ways
    <3>4. Set(b, [old EXCEPT ![way] = "done", !.done = n])
      BY <2>1, <2>5 DEF SendDone, n, Bridge
    <3> QED BY <3>3, <3>4
  <2>6. CASE ReceiveDone(b)
    <3> DEFINE n == old.done - 1
    <3>0. old.done \in 0..2 /\ old.done > 0
      BY <2>1, <2>6 DEF ReceiveDone, Bridge
    <3>1. n \in 0..2
      BY <3>0
    <3>2. [old EXCEPT !.done = n, !.pc = "closed", !.client = FALSE, !.dest = FALSE]
            \in Bridge
      BY <2>1, <3>1, BridgeMoves
    <3> QED BY <2>6, <3>2 DEF ReceiveDone
  <2>7. ASSUME NEW side \in {"client", "dest"}, HangUp(b, side)
        PROVE  \E r \in Bridge : Set(b, r)
    <3>1. /\ [old EXCEPT !["client"] = FALSE] \in Bridge
          /\ [old EXCEPT !["dest"] = FALSE] \in Bridge
      BY <2>1, BridgeMoves
    <3>2. [old EXCEPT ![side] = FALSE] \in Bridge
      BY <3>1
    <3> QED BY <2>7, <3>2 DEF HangUp
  <2> QED BY <1>1, <2>2, <2>3, <2>4, <2>5, <2>6, <2>7 DEF BridgeStep, PeerStep
<1>2. ASSUME NEW b \in Bridges, NEW r \in Bridge, Set(b, r) PROVE BridgeTypeOK'
  BY <1>2, BridgeKeeps
<1> QED BY <1>1, <1>2 DEF BridgeNext

LEMMA BridgeTyped == BridgeInit /\ [][BridgeNext]_bridge => []BridgeTypeOK
<1>1. BridgeInit => BridgeTypeOK
  BY DEF BridgeInit, BridgeTypeOK, Bridge, Copying
<1>2. BridgeTypeOK /\ [BridgeNext]_bridge => BridgeTypeOK'
  BY BridgeTypedStep DEF BridgeTypeOK
<1> QED BY <1>1, <1>2, PTL

(* Every reachable state of the connections through the proxy is well      *)
(* typed: no more than two directions report their end.                    *)
THEOREM BridgeTypeCorrect == BridgeSpec => []BridgeTypeOK
BY BridgeTyped, PTL DEF BridgeSpec

-----------------------------------------------------------------------------
(* The rest of the tunnel manager's types.                                 *)

Printing == {"no", "logged", "read"}
Stopping == [pc : {"idle", "kill", "wait", "config"},
             cancel : Tunnels \cup {NoTunnel}, proc : Tunnels \cup {NoTunnel}]

TunnelRest ==
    /\ tconfig \in BOOLEAN
    /\ mcfg \in [enabled : BOOLEAN, provider : TunnelProviders \cup {"other"}]
    /\ mproc \in Tunnels \cup {NoTunnel} /\ mcancel \in Tunnels \cup {NoTunnel}
    /\ printed \in [Tunnels -> Printing] /\ stopping \in Stopping /\ manner \in Manners

LEMMA TunnelRestStep ==
  ASSUME TunnelKept, TunnelRest, TunnelNext
  PROVE  TunnelRest'
<1> USE DEF TunnelRest
<1>1. ASSUME NEW i \in Tunnels, RunStep(i) PROVE TunnelRest'
  BY <1>1, Zenon DEF RunStep, RejectProvider, FailStart, StartChild, setProcess, WaitChild,
     setStopped, manager
<1>2. ASSUME NEW i \in Tunnels, ChildExits(i) \/ scanOutput(i) \/ watchProcessLogs(i)
      PROVE  TunnelRest'
  BY <1>2 DEF ChildExits, scanOutput, watchProcessLogs, manager, Printing
<1>3. ASSUME NEW p \in TunnelProviders \cup {"other"}, handleTunnelEnable(p)
      PROVE  TunnelRest'
  <2>1. enables + 1 \in Tunnels
    BY <1>3, TunnelAssumption DEF handleTunnelEnable, TunnelKept, Tunnels
  <2> QED BY <1>3, <2>1 DEF handleTunnelEnable
<1>4. CASE Stop
  BY <1>4 DEF Stop, Stopping
<1>5. CASE StopStep
  <2>1. \A pc \in {"wait", "config"} : [Nobody EXCEPT !.pc = pc] \in Stopping
    BY DEF Nobody, Stopping
  <2>2. Nobody \in Stopping
    BY DEF Nobody, Stopping
  <2>3. mcfg' \in [enabled : BOOLEAN, provider : TunnelProviders \cup {"other"}]
    BY <1>5 DEF StopStep, CancelAndKill, Disable, handleTunnelDisable, manager
  <2>4. stopping' \in Stopping
    BY <1>5, <2>1, <2>2 DEF StopStep, CancelAndKill, Disable, handleTunnelDisable
  <2> QED BY <1>5, <2>3, <2>4 DEF StopStep, CancelAndKill, Disable, handleTunnelDisable, manager
<1>6. ASSUME NEW running \in BOOLEAN, CheckTailscale(running) PROVE TunnelRest'
  BY <1>6 DEF CheckTailscale
<1>7. CASE NewManager
  BY <1>7, TunnelAssumption DEF NewManager, Nobody, Stopping, Printing
<1> QED BY <1>1, <1>2, <1>3, <1>4, <1>5, <1>6, <1>7 DEF TunnelNext

(* Every reachable state of the tunnel manager is well typed.              *)
THEOREM TunnelTypeCorrect == TunnelSpec => []TunnelTypeOK
<1>1. TunnelInit => TunnelKept /\ TunnelRest
  <2> SUFFICES ASSUME TunnelInit PROVE TunnelRest
    BY TunnelStarts
  <2> QED BY DEF TunnelInit, TunnelRest, Nobody, Stopping, Printing
<1>2. TunnelKept /\ TunnelRest /\ [TunnelNext]_tunnelVars => TunnelKept' /\ TunnelRest'
  <2> SUFFICES ASSUME TunnelKept, TunnelRest, [TunnelNext]_tunnelVars PROVE TunnelRest'
    BY TunnelStep
  <2>1. CASE UNCHANGED tunnelVars
    BY <2>1 DEF tunnelVars, TunnelRest
  <2> QED BY <2>1, TunnelRestStep
<1>3. TunnelKept /\ TunnelRest => TunnelTypeOK
  BY DEF TunnelKept, TunnelRest, TunnelTypeOK, Lives, Printing, Stopping
<1> QED BY <1>1, <1>2, <1>3, PTL DEF TunnelSpec

-----------------------------------------------------------------------------
(* The parts together (MCServing): a step of one leaves the others alone,  *)
(* so that every behaviour of all is one of each, and their theorems hold. *)

LEMMA EveryPartServes ==
    ServingSpec =>
      StoreSpec /\ StreamSpec /\ TunnelSpec /\ BridgeInit /\ [][BridgeNext]_bridge
<1>1. ServingInit => StoreInit /\ StreamInit /\ TunnelInit /\ BridgeInit
    BY DEF ServingInit
<1>2. [ServingNext]_servingVars => [StoreNext]_storeVars
    BY DEF ServingNext, servingVars
<1>3. [ServingNext]_servingVars => [StreamNext]_streamVars
    BY DEF ServingNext, servingVars
<1>4. [ServingNext]_servingVars => [TunnelNext]_tunnelVars
    BY DEF ServingNext, servingVars
<1>5. [ServingNext]_servingVars => [BridgeNext]_bridge
    BY DEF ServingNext, servingVars
<1> QED
    BY <1>1, <1>2, <1>3, <1>4, <1>5, PTL
    DEF ServingSpec, StoreSpec, StreamSpec, TunnelSpec

(* Whatever updates, streams, tunnels and bridges do, and whatever is      *)
(* scheduled: every part's state is of its type.                           *)
THEOREM ServingTypeCorrect == ServingSpec => []ServingTypeOK
<1>1. StoreTypeOK /\ StreamTypeOK /\ TunnelTypeOK /\ BridgeTypeOK => ServingTypeOK
    BY DEF ServingTypeOK
<1> QED
    BY <1>1, EveryPartServes, StoreTypeCorrect, StreamTypeCorrect, TunnelTypeCorrect,
       BridgeTyped, PTL

(* And all that is checked of the parts holds of them together, for every  *)
(* value of the constants, the liveness of their goroutines excepted.      *)
THEOREM ServingKeepsItsWord ==
    ServingSpec =>
      /\ [](SettledAgree /\ DisableStops) /\ CrashIsAtomic
      /\ MemoryIsRegister /\ RelayDelivers
BY EveryPartServes, StoreSettles, DisableLeavesNone, StoreCrashIsAtomic,
   StoreIsRegister, RelayImplementsDelivery, PTL

=============================================================================
