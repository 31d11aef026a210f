----------------------------- MODULE SelfUpdate ------------------------------
(***************************************************************************)
(* `router update' (internal/updater/updater.go): the latest release is    *)
(* downloaded into a temporary file beside the executable, which is then   *)
(* moved aside, replaced, and its backup removed.  Several updates may run *)
(* at a time, a rename may fail, and any of them may be killed.            *)
(***************************************************************************)
EXTENDS Integers, FiniteSets

CONSTANT Updaters  \* processes that run the command

VARIABLES
    exec,    \* the executable
    backup,  \* the executable with .bak appended
    temp,    \* the temporary file, per process
    update,  \* the processes
    unlucky  \* history: what has happened that an update does not expect

updateVars == <<exec, backup, temp, update, unlucky>>

(* "part": a file that is still being written; "page": what an address     *)
(* gives that no longer has the asset.                                     *)
Content == {"none", "old", "new", "page", "part"}
UpdatePC ==
    {"idle", "asset", "copy", "chmod", "aside", "replace", "restore", "forget", "clean"}

UpdateTypeOK ==
    /\ exec \in Content /\ backup \in Content
    /\ temp \in [Updaters -> Content]
    /\ update \in [Updaters -> UpdatePC]
    /\ unlucky \subseteq {"killed", "fails", "overlap"}

UpdateInit ==
    /\ exec = "old" /\ backup = "none"
    /\ temp = [u \in Updaters |-> "none"]
    /\ update = [u \in Updaters |-> "idle"]
    /\ unlucky = {}

UpdateGoto(u, pc) == update' = [update EXCEPT ![u] = pc]
ExecFiles == <<exec, backup, temp>>
Running == {u \in Updaters : update[u] # "idle"}

(* No release, none that is newer than the program that asks, or none for  *)
(* this platform: nothing happens.  A program asks once at a time.         *)
CheckAndUpdate(u) ==
    /\ update[u] = "idle" /\ exec # "none"
    /\ UpdateGoto(u, "asset")
    /\ unlucky' = IF Running = {} THEN unlucky ELSE unlucky \cup {"overlap"}
    /\ UNCHANGED ExecFiles

LatestRelease(u, newer) ==
    /\ update[u] = "asset"
    /\ UpdateGoto(u, IF newer THEN "copy" ELSE "idle")
    /\ UNCHANGED <<ExecFiles, unlucky>>

(* os.CreateTemp, io.Copy: the status of the answer is not looked at, nor  *)
(* is there a checksum to compare with.                                    *)
CreateTemp(u) ==
    /\ update[u] = "copy" /\ temp[u] = "none"
    /\ temp' = [temp EXCEPT ![u] = "part"]
    /\ UNCHANGED <<exec, backup, update, unlucky>>

CopyPart(u) == \* mutant: an error of the copy is not looked at
    /\ update[u] = "copy" /\ temp[u] = "part"
    /\ \/ \E body \in {"new", "page"} : temp' = [temp EXCEPT ![u] = body]
       \/ UNCHANGED temp
    /\ UpdateGoto(u, "chmod")
    /\ UNCHANGED <<exec, backup, unlucky>>

CopyBody(u) ==
    /\ update[u] = "copy" /\ temp[u] = "part"
    /\ \/ \E body \in {"new", "page"} :
            temp' = [temp EXCEPT ![u] = body] /\ UpdateGoto(u, "chmod")
       \/ UNCHANGED temp /\ UpdateGoto(u, "clean")
    /\ UNCHANGED <<exec, backup, unlucky>>

Chmod(u) ==
    /\ update[u] = "chmod"
    /\ UpdateGoto(u, "aside")
    /\ UNCHANGED <<ExecFiles, unlucky>>

(* An error is ignored: there may be no executable just now.               *)
MoveAside(u) ==
    /\ update[u] = "aside"
    /\ IF exec = "none" THEN UNCHANGED <<exec, backup>>
       ELSE backup' = exec /\ exec' = "none"
    /\ UpdateGoto(u, "replace")
    /\ UNCHANGED <<temp, unlucky>>

Replace(u) ==
    /\ update[u] = "replace"
    /\ exec' = temp[u] /\ temp' = [temp EXCEPT ![u] = "none"]
    /\ UpdateGoto(u, "forget")
    /\ UNCHANGED <<backup, unlucky>>

ReplaceFails(u) ==
    /\ update[u] = "replace"
    /\ unlucky' = unlucky \cup {"fails"}
    /\ UpdateGoto(u, "restore")
    /\ UNCHANGED ExecFiles

GiveUp(u) == \* mutant: the backup is not restored
    /\ update[u] = "restore"
    /\ UpdateGoto(u, "clean")
    /\ UNCHANGED <<ExecFiles, unlucky>>

Restore(u) ==
    /\ update[u] = "restore"
    /\ IF backup = "none" THEN UNCHANGED <<exec, backup>>
       ELSE exec' = backup /\ backup' = "none"
    /\ UpdateGoto(u, "clean")
    /\ UNCHANGED <<temp, unlucky>>

RemoveBackup(u) ==
    /\ update[u] = "forget"
    /\ backup' = "none"
    /\ UpdateGoto(u, "clean")
    /\ UNCHANGED <<exec, temp, unlucky>>

RemoveTemp(u) ==
    /\ update[u] = "clean"
    /\ temp' = [temp EXCEPT ![u] = "none"]
    /\ UpdateGoto(u, "idle")
    /\ UNCHANGED <<exec, backup, unlucky>>

(* Killed: the temporary file and the backup stay; the next temporary file *)
(* has another name.                                                       *)
Killed(u) ==
    /\ update[u] # "idle"
    /\ UpdateGoto(u, "idle")
    /\ temp' = [temp EXCEPT ![u] = "none"]
    /\ unlucky' = unlucky \cup {"killed"}
    /\ UNCHANGED <<exec, backup>>

applyUpdate(u) ==
    \/ CreateTemp(u) \/ CopyBody(u) \/ Chmod(u) \/ MoveAside(u) \/ Replace(u)
    \/ ReplaceFails(u) \/ Restore(u) \/ RemoveBackup(u) \/ RemoveTemp(u)

UpdateNext ==
    \E u \in Updaters :
      \/ CheckAndUpdate(u)
      \/ \E newer \in BOOLEAN : LatestRelease(u, newer)
      \/ applyUpdate(u)
      \/ Killed(u)

UpdateSpec == UpdateInit /\ [][UpdateNext]_updateVars

-----------------------------------------------------------------------------
(* Hazard: the executable is absent between two renames, and updates that  *)
(* run at a time move it away from under each other.  Whatever happens, it *)
(* is never a file that is half written; and once all updates have ended   *)
(* there is one, unless one was killed, or a rename failed and two ran.    *)
LeavesExecutable ==
    /\ exec # "part"
    /\ exec = "none" /\ Running = {} =>
         "killed" \in unlucky \/ {"fails", "overlap"} \subseteq unlucky

(* "downloads the release asset for the current OS/arch, verifies the      *)
(* checksum, and replaces the running binary": only a release is installed.*)
OnlyReleases == exec # "page"
=============================================================================
