---------------------------- MODULE MCConfigStore ----------------------------
(* Small instances of ConfigStore. *)
EXTENDS ConfigStore, TLC

CONSTANTS u1, u2, route, alias, key, f1, f2, f3, f4, f5

(* validate refuses an alias whose provider's route is gone. *)
AliasAlone == {{alias}, {alias, key}}

Transactions == {"UpdateWithReconfigure", "TransactionalUpdate"}
Failures == {"write", "rename", "build"}

World(ops, edits, faults) == [ops |-> ops, edits |-> edits, faults |-> faults]

EngineOnly == {"UpdateWithReconfigure"}

(* The handlers that use the transactional methods, with every failure but *)
(* one and crashes; with a failed rollback as well; with SIGHUP and an     *)
(* edited file, or a crash; then a handler that saves after the fact, and  *)
(* the config import.                                                      *)
AllWorlds ==
    {World(Transactions, Edits, Failures \cup {"crash"}),
     World(EngineOnly, {route, alias}, Failures \cup {"undo", "crash"}),
     World(EngineOnly, {route, alias}, {"build", "reload", "edit"}),
     World(EngineOnly, {route, alias}, {"build", "reload", "crash"}),
     World(EngineOnly \cup {"UpdateAndPersist"}, {route, alias}, Failures),
     World({"UpdateAndPersist", "Update"}, {route, alias}, {})}

TunnelHandlers == {World({"UpdateAndPersist"}, Edits, {})}

=============================================================================
