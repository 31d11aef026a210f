---------------------------- MODULE AdminProofs -----------------------------
(* Proofs for what the dashboard and the command line change: the helper's *)
(* state, the executable, the tools' settings, the configuration, and the  *)
(* connections with their tokens.  In the end all of it together, with the *)
(* accounts' health.                                                       *)
EXTENDS MCAdmin, HealthProofs, SequenceTheorems, TLAPS

-----------------------------------------------------------------------------
(* The interception helper: a restart finds what it needs.                 *)

(* StateSurvives is inductive together with the type of starting alone:    *)
(* what is in kept and disk does not matter, only who may tell them apart. *)
MitmKept ==
    /\ starting \in [MitmHandlers -> {"idle", "launch", "record", "answer"}]
    /\ StateSurvives

(* A save that comes to its end makes memory and file agree.               *)
LEMMA SavesAgree ==
    ASSUME NEW k, saveStateLocked(k)
    PROVE  disk' = kept' \/ unsaved'
    BY DEF saveStateLocked

LEMMA MitmKeptStep == MitmKept /\ [MitmNext]_mitmVars => MitmKept'
<1> SUFFICES ASSUME MitmKept, [MitmNext]_mitmVars
             PROVE  MitmKept'
    OBVIOUS
<1> USE DEF MitmKept, StateSurvives
<1>1. CASE UNCHANGED mitmVars
    BY <1>1 DEF mitmVars, Quiet
<1>2. ASSUME NEW h \in MitmHandlers, NEW u \in RouterUrls, handleMITMStart(h, u)
      PROVE  MitmKept'
    BY <1>2 DEF handleMITMStart, Quiet
<1>3. ASSUME NEW h \in MitmHandlers, Launch(h)
      PROVE  MitmKept'
    BY <1>3 DEF Launch, Quiet
<1>4. ASSUME NEW h \in MitmHandlers, setError(h)
      PROVE  MitmKept'
    BY <1>4, SavesAgree DEF setError
<1>5. ASSUME NEW h \in MitmHandlers, Start(h)
      PROVE  MitmKept'
    BY <1>5, SavesAgree DEF Start
<1>6. ASSUME NEW h \in MitmHandlers, AnswerStart(h)
      PROVE  MitmKept'
    <2>1. starting' = [starting EXCEPT ![h] = "idle"] /\ starting[h] = "answer"
        BY <1>6 DEF AnswerStart
    <2>2. Quiet' => Quiet
        BY <2>1 DEF Quiet
    <2>3. kept' = kept /\ disk' = disk /\ unsaved' = unsaved
        BY <1>6 DEF AnswerStart
    <2> QED  BY <2>1, <2>2, <2>3 DEF Quiet
<1>7. ASSUME NEW h \in MitmHandlers, HelperExits(h)
      PROVE  MitmKept'
    BY <1>7 DEF HelperExits, Quiet
<1>8. CASE Stop \/ TrustCert
    BY <1>8, SavesAgree DEF Stop, TrustCert
<1>9. ASSUME NEW t \in Tools, EnableDNS(t) \/ DisableDNS(t)
      PROVE  MitmKept'
    BY <1>9, SavesAgree DEF EnableDNS, DisableDNS
<1>10. ASSUME NEW t \in Tools, NEW some \in BOOLEAN, SetAliases(t, some)
       PROVE  MitmKept'
    BY <1>10, SavesAgree DEF SetAliases
<1>11. CASE NewMitmManager
    BY <1>11 DEF NewMitmManager
<1> QED
    BY <1>1, <1>2, <1>3, <1>4, <1>5, <1>6, <1>7, <1>8, <1>9, <1>10, <1>11
    DEF MitmNext

(* Whatever requests start, stop and switch the helper, however they       *)
(* overlap, whichever saves fail or are cut off, and whenever the program  *)
(* is restarted: unless a helper is just being launched, or the last save  *)
(* was lost, a restart finds all that memory holds.                        *)
THEOREM RestartFindsState == MitmSpec => []StateSurvives
<1>1. MitmInit => MitmKept
    BY DEF MitmInit, MitmKept, StateSurvives
<1>2. MitmKept /\ [MitmNext]_mitmVars => MitmKept'
    BY MitmKeptStep
<1>3. MitmKept => StateSurvives
    BY DEF MitmKept
<1> QED  BY <1>1, <1>2, <1>3, PTL DEF MitmSpec

(* The manager's fields stay what they are, whatever a request does.       *)
LEMMA FieldsMove ==
    ASSUME NEW k \in Kept
    PROVE  /\ \A u \in RouterUrls : [k EXCEPT !.url = u] \in Kept
           /\ [k EXCEPT !.error = TRUE] \in Kept
           /\ [k EXCEPT !.cert = TRUE, !.sudo = TRUE, !.error = FALSE] \in Kept
           /\ Sudo([k EXCEPT !.dns = {}]) \in Kept
           /\ Sudo([k EXCEPT !.cert = TRUE, !.trusted = TRUE]) \in Kept
BY DEF Kept, Sudo

LEMMA SwitchesMove ==
    ASSUME NEW k \in Kept, NEW t \in Tools
    PROVE  /\ Sudo([k EXCEPT !.dns = k.dns \cup {t}]) \in Kept
           /\ Sudo([k EXCEPT !.dns = k.dns \ {t}]) \in Kept
           /\ [k EXCEPT !.aliases = k.aliases \cup {t}] \in Kept
           /\ [k EXCEPT !.aliases = k.aliases \ {t}] \in Kept
<1>1. k.dns \cup {t} \in SUBSET Tools /\ k.dns \ {t} \in SUBSET Tools
      /\ k.aliases \cup {t} \in SUBSET Tools /\ k.aliases \ {t} \in SUBSET Tools
    BY DEF Kept
<1> QED  BY <1>1 DEF Kept, Sudo

LEMMA UnreadIsKept == Unread \in Kept
BY MitmAssumption DEF Unread, Kept

LEMMA SavesTyped ==
    ASSUME MitmTypeOK, NEW k \in Kept, saveStateLocked(k)
    PROVE  kept' \in Kept /\ disk' \in Kept /\ unsaved' \in BOOLEAN
BY UnreadIsKept DEF saveStateLocked, MitmTypeOK

LEMMA MitmTypedStep == MitmTypeOK /\ [MitmNext]_mitmVars => MitmTypeOK'
<1> SUFFICES ASSUME MitmTypeOK, [MitmNext]_mitmVars
             PROVE  MitmTypeOK'
    OBVIOUS
<1> USE DEF MitmTypeOK
<1>1. CASE UNCHANGED mitmVars
    BY <1>1 DEF mitmVars
<1>2. ASSUME NEW h \in MitmHandlers, NEW u \in RouterUrls, handleMITMStart(h, u)
      PROVE  MitmTypeOK'
    BY <1>2, FieldsMove DEF handleMITMStart
<1>3. ASSUME NEW h \in MitmHandlers, Launch(h) \/ AnswerStart(h) \/ HelperExits(h)
      PROVE  MitmTypeOK'
    BY <1>3 DEF Launch, AnswerStart, HelperExits
<1>4. ASSUME NEW h \in MitmHandlers, setError(h) \/ Start(h)
      PROVE  MitmTypeOK'
    <2>1. kept' \in Kept /\ disk' \in Kept /\ unsaved' \in BOOLEAN
        BY <1>4, FieldsMove, SavesTyped DEF setError, Start
    <2> QED  BY <1>4, <2>1 DEF setError, Start
<1>5. CASE Stop \/ TrustCert
    <2>1. kept' \in Kept /\ disk' \in Kept /\ unsaved' \in BOOLEAN
        BY <1>5, FieldsMove, SavesTyped DEF Stop, TrustCert
    <2> QED  BY <1>5, <2>1 DEF Stop, TrustCert
<1>6. ASSUME NEW t \in Tools, EnableDNS(t) \/ DisableDNS(t)
      PROVE  MitmTypeOK'
    <2>1. kept' \in Kept /\ disk' \in Kept /\ unsaved' \in BOOLEAN
        BY <1>6, SwitchesMove, SavesTyped DEF EnableDNS, DisableDNS
    <2> QED  BY <1>6, <2>1 DEF EnableDNS, DisableDNS
<1>7. ASSUME NEW t \in Tools, NEW some \in BOOLEAN, SetAliases(t, some)
      PROVE  MitmTypeOK'
    <2>1. kept' \in Kept /\ disk' \in Kept /\ unsaved' \in BOOLEAN
        BY <1>7, SwitchesMove, SavesTyped DEF SetAliases
    <2> QED  BY <1>7, <2>1 DEF SetAliases
<1>8. CASE NewMitmManager
    BY <1>8 DEF NewMitmManager
<1> QED
    BY <1>1, <1>2, <1>3, <1>4, <1>5, <1>6, <1>7, <1>8 DEF MitmNext

(* Every reachable state of the helper's manager is well typed.            *)
THEOREM MitmTypeCorrect == MitmSpec => []MitmTypeOK
<1>1. MitmInit => MitmTypeOK
    BY UnreadIsKept DEF MitmInit, MitmTypeOK
<1>2. MitmTypeOK /\ [MitmNext]_mitmVars => MitmTypeOK'
    BY MitmTypedStep
<1> QED  BY <1>1, <1>2, PTL DEF MitmSpec

-----------------------------------------------------------------------------
(* The updater: the executable is lost to a failure or a kill only.        *)

(* What can excuse that there is no executable.                            *)
Excused == "killed" \in unlucky \/ {"fails", "overlap"} \subseteq unlucky

(* A file is complete when it is about to be installed; and while there is *)
(* no executable, some process is about to put one there, from a backup    *)
(* that only another process could have taken away.                        *)
UpdateKept ==
    /\ UpdateTypeOK
    /\ exec # "part" /\ backup # "part"
    /\ \A u \in Updaters : update[u] \in {"chmod", "aside", "replace"} => temp[u] \in {"new", "page"}
    /\ \A u \in Updaters : update[u] = "restore" => "fails" \in unlucky
    /\ "overlap" \notin unlucky => \A u, v \in Running : u = v
    /\ exec = "none" =>
         \/ Excused
         \/ \E u \in Updaters :
              update[u] \in {"replace", "restore"} /\ ("overlap" \in unlucky \/ backup # "none")

LEMMA Moved ==
  ASSUME UpdateKept, NEW u \in Updaters, NEW pc \in UpdatePC, UpdateGoto(u, pc)
  PROVE  /\ update' \in [Updaters -> UpdatePC] /\ update'[u] = pc
         /\ \A v \in Updaters \ {u} : update'[v] = update[v]
BY DEF UpdateKept, UpdateTypeOK, UpdateGoto

(* The steps that leave the executable and the backup alone, of a process  *)
(* that is not about to install one.                                       *)
LEMMA QuietSteps ==
  ASSUME UpdateKept, NEW u \in Updaters, NEW pc \in UpdatePC, UpdateGoto(u, pc),
         UNCHANGED <<exec, backup, unlucky>>, temp' \in [Updaters -> Content],
         \A v \in Updaters \ {u} : temp'[v] = temp[v],
         pc \in {"chmod", "aside", "replace"} => temp'[u] \in {"new", "page"},
         pc # "restore",
         update[u] # "idle", update[u] \notin {"replace", "restore"}
  PROVE  UpdateKept'
<1>1. /\ update' \in [Updaters -> UpdatePC] /\ update'[u] = pc
      /\ \A v \in Updaters \ {u} : update'[v] = update[v]
  BY Moved
<1>2. "overlap" \notin unlucky' => \A v, w \in Running' : v = w
  <2>1. Running' \subseteq Running
    BY <1>1 DEF Running
  <2> QED BY <2>1 DEF UpdateKept
<1>3. exec' = "none" =>
         \/ Excused'
         \/ \E v \in Updaters :
              update'[v] \in {"replace", "restore"} /\ ("overlap" \in unlucky' \/ backup' # "none")
  BY <1>1 DEF UpdateKept, Excused
<1> QED BY <1>1, <1>2, <1>3 DEF UpdateKept, UpdateTypeOK

LEMMA CheckAndUpdateKeeps ==
  ASSUME UpdateKept, NEW u \in Updaters, CheckAndUpdate(u) PROVE UpdateKept'
<1>1. /\ update' \in [Updaters -> UpdatePC] /\ update'[u] = "asset"
      /\ \A v \in Updaters \ {u} : update'[v] = update[v]
  BY Moved DEF CheckAndUpdate, UpdatePC
<1>2. "overlap" \notin unlucky' => \A v, w \in Running' : v = w
  <2> SUFFICES ASSUME "overlap" \notin unlucky' PROVE \A v, w \in Running' : v = w
    OBVIOUS
  <2>1. Running = {}
    BY DEF CheckAndUpdate
  <2> QED BY <1>1, <2>1 DEF Running
<1> QED BY <1>1, <1>2 DEF UpdateKept, UpdateTypeOK, CheckAndUpdate, ExecFiles

LEMMA MoveAsideKeeps ==
  ASSUME UpdateKept, NEW u \in Updaters, MoveAside(u) PROVE UpdateKept'
<1>1. /\ update' \in [Updaters -> UpdatePC] /\ update'[u] = "replace" /\ update[u] = "aside"
      /\ \A v \in Updaters \ {u} : update'[v] = update[v]
      /\ temp' = temp /\ unlucky' = unlucky
  BY Moved DEF MoveAside, UpdatePC
<1>2. "overlap" \notin unlucky' => \A v, w \in Running' : v = w
  <2>1. Running' \subseteq Running
    BY <1>1 DEF Running
  <2> QED BY <1>1, <2>1 DEF UpdateKept
<1>3. CASE exec # "none"
  <2>1. backup' = exec /\ exec' = "none"
    BY <1>3 DEF MoveAside
  <2> QED BY <1>1, <1>2, <1>3, <2>1 DEF UpdateKept, UpdateTypeOK, Content
<1>4. CASE exec = "none"
  <2>1. backup' = backup /\ exec' = exec
    BY <1>4 DEF MoveAside
  <2>2. \/ Excused'
        \/ \E v \in Updaters :
             update'[v] \in {"replace", "restore"} /\ ("overlap" \in unlucky' \/ backup' # "none")
    BY <1>1, <1>4, <2>1 DEF UpdateKept, Excused
  <2> QED BY <1>1, <1>2, <2>1, <2>2 DEF UpdateKept, UpdateTypeOK
<1> QED BY <1>3, <1>4

LEMMA ReplaceKeeps ==
  ASSUME UpdateKept, NEW u \in Updaters, Replace(u) PROVE UpdateKept'
<1>1. /\ update' \in [Updaters -> UpdatePC] /\ update'[u] = "forget" /\ update[u] = "replace"
      /\ \A v \in Updaters \ {u} : update'[v] = update[v]
      /\ backup' = backup /\ unlucky' = unlucky
  BY Moved DEF Replace, UpdatePC
<1>2. "overlap" \notin unlucky' => \A v, w \in Running' : v = w
  <2>1. Running' \subseteq Running
    BY <1>1 DEF Running
  <2> QED BY <1>1, <2>1 DEF UpdateKept
<1>3. /\ exec' \in {"new", "page"} /\ temp' \in [Updaters -> Content]
      /\ \A v \in Updaters \ {u} : temp'[v] = temp[v]
  BY <1>1 DEF Replace, UpdateKept, UpdateTypeOK, Content
<1> QED BY <1>1, <1>2, <1>3 DEF UpdateKept, UpdateTypeOK, Content

LEMMA ReplaceFailsKeeps ==
  ASSUME UpdateKept, NEW u \in Updaters, ReplaceFails(u) PROVE UpdateKept'
<1>1. /\ update' \in [Updaters -> UpdatePC] /\ update'[u] = "restore" /\ update[u] = "replace"
      /\ \A v \in Updaters \ {u} : update'[v] = update[v]
      /\ exec' = exec /\ backup' = backup /\ temp' = temp /\ unlucky' = unlucky \cup {"fails"}
  BY Moved DEF ReplaceFails, UpdatePC, ExecFiles
<1>2. "overlap" \notin unlucky' => \A v, w \in Running' : v = w
  <2>1. Running' \subseteq Running
    BY <1>1 DEF Running
  <2> QED BY <1>1, <2>1 DEF UpdateKept
<1>3. exec' = "none" =>
         \/ Excused'
         \/ \E v \in Updaters :
              update'[v] \in {"replace", "restore"} /\ ("overlap" \in unlucky' \/ backup' # "none")
  BY <1>1 DEF UpdateKept, Excused
<1> QED BY <1>1, <1>2, <1>3 DEF UpdateKept, UpdateTypeOK

LEMMA RestoreKeeps ==
  ASSUME UpdateKept, NEW u \in Updaters, Restore(u) PROVE UpdateKept'
<1>1. /\ update' \in [Updaters -> UpdatePC] /\ update'[u] = "clean" /\ update[u] = "restore"
      /\ \A v \in Updaters \ {u} : update'[v] = update[v]
      /\ temp' = temp /\ unlucky' = unlucky /\ "fails" \in unlucky
  BY Moved DEF Restore, UpdatePC, UpdateKept
<1>2. "overlap" \notin unlucky' => \A v, w \in Running' : v = w
  <2>1. Running' \subseteq Running
    BY <1>1 DEF Running
  <2> QED BY <1>1, <2>1 DEF UpdateKept
<1>3. CASE backup # "none"
  <2>1. exec' = backup /\ backup' = "none"
    BY <1>3 DEF Restore
  <2> QED BY <1>1, <1>2, <1>3, <2>1 DEF UpdateKept, UpdateTypeOK, Content
<1>4. CASE backup = "none"
  <2>1. backup' = backup /\ exec' = exec
    BY <1>4 DEF Restore
  <2>2. exec' = "none" => Excused'
    BY <1>1, <1>4, <2>1 DEF UpdateKept, Excused
  <2> QED BY <1>1, <1>2, <2>1, <2>2 DEF UpdateKept, UpdateTypeOK
<1> QED BY <1>3, <1>4

LEMMA RemoveBackupKeeps ==
  ASSUME UpdateKept, NEW u \in Updaters, RemoveBackup(u) PROVE UpdateKept'
<1>1. /\ update' \in [Updaters -> UpdatePC] /\ update'[u] = "clean" /\ update[u] = "forget"
      /\ \A v \in Updaters \ {u} : update'[v] = update[v]
      /\ exec' = exec /\ backup' = "none" /\ temp' = temp /\ unlucky' = unlucky
  BY Moved DEF RemoveBackup, UpdatePC
<1>2. "overlap" \notin unlucky' => \A v, w \in Running' : v = w
  <2>1. Running' \subseteq Running
    BY <1>1 DEF Running
  <2> QED BY <1>1, <2>1 DEF UpdateKept
<1>3. exec' = "none" =>
         \/ Excused'
         \/ \E v \in Updaters :
              update'[v] \in {"replace", "restore"} /\ ("overlap" \in unlucky' \/ backup' # "none")
  <2> SUFFICES ASSUME exec' = "none", ~Excused
               PROVE  \E v \in Updaters : update'[v] \in {"replace", "restore"} /\ "overlap" \in unlucky'
    BY <1>1 DEF Excused
  <2>1. PICK v \in Updaters : update[v] \in {"replace", "restore"}
    BY <1>1 DEF UpdateKept
  <2>2. v \in Running /\ u \in Running /\ v # u
    BY <1>1, <2>1 DEF Running
  <2>3. "overlap" \in unlucky
    BY <2>2 DEF UpdateKept
  <2> QED BY <1>1, <2>1, <2>2, <2>3
<1> QED BY <1>1, <1>2, <1>3 DEF UpdateKept, UpdateTypeOK, Content

LEMMA KilledKeeps ==
  ASSUME UpdateKept, NEW u \in Updaters, Killed(u) PROVE UpdateKept'
<1>1. /\ update' \in [Updaters -> UpdatePC] /\ update'[u] = "idle"
      /\ \A v \in Updaters \ {u} : update'[v] = update[v]
      /\ exec' = exec /\ backup' = backup /\ unlucky' = unlucky \cup {"killed"}
  BY Moved DEF Killed, UpdatePC
<1>2. "overlap" \notin unlucky' => \A v, w \in Running' : v = w
  <2>1. Running' \subseteq Running
    BY <1>1 DEF Running
  <2> QED BY <1>1, <2>1 DEF UpdateKept
<1>3. Excused'
  BY <1>1 DEF Excused
<1>4. temp' \in [Updaters -> Content] /\ \A v \in Updaters \ {u} : temp'[v] = temp[v]
  BY DEF Killed, UpdateKept, UpdateTypeOK, Content
<1> QED BY <1>1, <1>2, <1>3, <1>4 DEF UpdateKept, UpdateTypeOK

LEMMA OtherStepsKeep ==
  ASSUME UpdateKept, NEW u \in Updaters,
         \/ \E newer \in BOOLEAN : LatestRelease(u, newer)
         \/ CreateTemp(u) \/ CopyBody(u) \/ Chmod(u) \/ RemoveTemp(u)
  PROVE  UpdateKept'
<1>1. temp \in [Updaters -> Content] /\ update \in [Updaters -> UpdatePC]
  BY DEF UpdateKept, UpdateTypeOK
<1>2. ASSUME NEW newer \in BOOLEAN, LatestRelease(u, newer) PROVE UpdateKept'
  <2>1. \/ UpdateGoto(u, "copy") \/ UpdateGoto(u, "idle")
    BY <1>2 DEF LatestRelease
  <2> QED BY <1>1, <1>2, <2>1, QuietSteps DEF LatestRelease, ExecFiles, UpdatePC
<1>3. CASE CreateTemp(u)
  <2>1. UpdateGoto(u, "copy")
    BY <1>1, <1>3 DEF CreateTemp, UpdateGoto
  <2> QED BY <1>1, <1>3, <2>1, QuietSteps DEF CreateTemp, UpdatePC, Content
<1>4. CASE CopyBody(u)
  BY <1>1, <1>4, QuietSteps DEF CopyBody, UpdatePC, Content
<1>5. CASE Chmod(u)
  <2>1. temp[u] \in {"new", "page"}
    BY <1>5 DEF Chmod, UpdateKept
  <2> QED BY <1>1, <1>5, <2>1, QuietSteps DEF Chmod, UpdatePC, ExecFiles
<1>6. CASE RemoveTemp(u)
  BY <1>1, <1>6, QuietSteps DEF RemoveTemp, UpdatePC, Content
<1> QED BY <1>2, <1>3, <1>4, <1>5, <1>6

(* The inductive invariant of the updates, see UpdateKept.                 *)
LEMMA UpdateInvariant == UpdateSpec => []UpdateKept
<1>1. UpdateInit => UpdateKept
  BY DEF UpdateInit, UpdateKept, UpdateTypeOK, Content, UpdatePC, Running
<1>2. UpdateKept /\ [UpdateNext]_updateVars => UpdateKept'
  <2> SUFFICES ASSUME UpdateKept, [UpdateNext]_updateVars PROVE UpdateKept'
    OBVIOUS
  <2>1. CASE UpdateNext
    BY <2>1, CheckAndUpdateKeeps, MoveAsideKeeps, ReplaceKeeps, ReplaceFailsKeeps, RestoreKeeps,
       RemoveBackupKeeps, KilledKeeps, OtherStepsKeep
       DEF UpdateNext, applyUpdate
  <2>2. CASE UNCHANGED updateVars
    BY <2>2 DEF updateVars, UpdateKept, UpdateTypeOK, Running, Excused
  <2> QED BY <2>1, <2>2
<1> QED BY <1>1, <1>2, PTL DEF UpdateSpec

(* However many updates run at a time and whatever fails: the executable   *)
(* is never half written, and is there when all have ended, unless one was *)
(* killed or a rename failed while two ran (updater.go, applyUpdate).      *)
THEOREM UpdateLeavesExecutable == UpdateSpec => []LeavesExecutable
<1>1. UpdateKept => LeavesExecutable
  BY DEF UpdateKept, LeavesExecutable, Excused, Running
<1> QED BY <1>1, UpdateInvariant, PTL

(* Executable, backup and temporary files only ever hold what a step of an *)
(* update can leave in them, and every update is at one of its steps.      *)
THEOREM UpdateTypeCorrect == UpdateSpec => []UpdateTypeOK
<1>1. UpdateKept => UpdateTypeOK
  BY DEF UpdateKept
<1> QED BY <1>1, UpdateInvariant, PTL

-----------------------------------------------------------------------------
(* The tools' settings: the user's part survives.                          *)

(* A model that OpenCode's or OpenClaw's settings select is among theirs,  *)
(* or was made active by a request that did not define it; the other       *)
(* tools' settings select none of the router's.                            *)
Selects(s) ==
    IF tool \in {"opencode", "openclaw"}
    THEN s.chosen \in ToolModels => s.chosen \in s.ours \cup stray
    ELSE s.chosen \notin ToolModels

JobFitsTool(j) ==
    /\ Selects(j.new)
    /\ j.on = "key" => tool \in {"codex", "hermes"}
    /\ j.method \in {"PATCH", "CLEAR"} => tool = "opencode"
Asks(j, strays) ==
    j.pc = "read" /\ j.on = "settings" /\ j.method = "POST" =>
        j.model \in ToolModels /\ j.model \in j.models \cup strays
JobSound(j) == JobFitsTool(j) /\ Asks(j, stray)

(* While nothing went wrong, one request at most is under way, and only    *)
(* the file that it is writing is not what the user left.                  *)
KeepsUsers(s) == s.is = "whole" /\ (tool \notin {"codex", "other"} => s.theirs = edits)
Undisturbed ==
    /\ \A g, h \in ToolHandlers : editor[g].pc # "idle" /\ editor[h].pc # "idle" => g = h
    /\ \A h \in ToolHandlers : editor[h].pc \in {"truncate", "write"} => KeepsUsers(editor[h].new)
    /\ \A f \in ToolFiles :
         \/ \E h \in ToolHandlers : editor[h].pc = "write" /\ editor[h].on = f
         \/ files[f].is # "torn" /\ (tool \notin {"codex", "other"} => files[f].theirs = edits)

ToolKept ==
    /\ ToolTypeOK
    /\ \A f \in {"settings", "key"} : Selects(files[f])
    /\ \A h \in ToolHandlers : JobSound(editor[h])
    /\ ~mishap => Undisturbed

-----------------------------------------------------------------------------
(* What the edits make of a file. *)

LEMMA SpecialSettings ==
  /\ Missing \in ToolSettings /\ Torn \in ToolSettings /\ Empty \in ToolSettings
  /\ EditorIdle \in EditorJob
BY ToolAssumption DEF Missing, Torn, Empty, EditorIdle, EditorJob, ToolSettings

LEMMA EmptySettings == Empty.is = "whole" /\ Empty.chosen = "none"
BY DEF Empty, Missing

(* A file that has nothing but the router's entry. *)
LEMMA RoutersOwn ==
  LET own == [Empty EXCEPT !.ours = {"default"}]
  IN  own \in ToolSettings /\ own.is = "whole" /\ own.chosen = "none"
BY SpecialSettings, EmptySettings DEF ToolSettings

LEMMA ModelsAreOurs ==
  ASSUME NEW s \in ToolSettings, NEW ms \in SUBSET ToolModels, NEW m \in ToolModels,
         Selects(s), tool \in ToolNames, m \in ms \cup stray
  PROVE  /\ writeCLIToolState(s, ms, m) \in ToolSettings
         /\ Selects(writeCLIToolState(s, ms, m))
<1>1. CASE tool = "claude"
  BY <1>1 DEF writeCLIToolState, writeClaude, ToolSettings, Selects
<1>2. CASE tool = "codex"
  BY <1>2, RoutersOwn, ToolAssumption DEF writeCLIToolState, writeCodex, Selects
<1>3. CASE tool = "opencode"
  BY <1>3 DEF writeCLIToolState, writeOpenCodeState, Chosen, ToolSettings, Selects
<1>4. CASE tool = "copilot"
  BY <1>4 DEF writeCLIToolState, writeCopilotState, ToolSettings, Selects
<1>5. CASE tool = "droid"
  BY <1>5 DEF writeCLIToolState, writeDroidState, ToolSettings, Selects
<1>6. CASE tool = "hermes"
  BY <1>6 DEF writeCLIToolState, writeHermesState, ToolSettings, Selects
<1>7. CASE tool = "openclaw"
  BY <1>7 DEF writeCLIToolState, writeOpenClawState, Chosen, ToolSettings, Selects
<1>8. CASE tool = "other"
  BY <1>8, RoutersOwn, ToolAssumption DEF writeCLIToolState, writeOther, Selects
<1> QED BY <1>1, <1>2, <1>3, <1>4, <1>5, <1>6, <1>7, <1>8, ToolAssumption

LEMMA WritesKeepTheirs ==
  ASSUME NEW s \in ToolSettings, NEW ms, NEW m, tool \in ToolNames, s.is = "whole"
  PROVE  /\ writeCLIToolState(s, ms, m).is = "whole"
         /\ tool \notin {"codex", "other"} => writeCLIToolState(s, ms, m).theirs = s.theirs
<1>1. CASE tool = "codex" \/ tool = "other"
  BY <1>1, RoutersOwn DEF writeCLIToolState, writeCodex, writeOther
<1>2. CASE tool \in {"claude", "opencode", "copilot"}
  BY <1>2 DEF writeCLIToolState, writeClaude, writeOpenCodeState, Chosen, writeCopilotState,
     ToolSettings
<1>3. CASE tool \in {"droid", "hermes", "openclaw"}
  BY <1>3 DEF writeCLIToolState, writeDroidState, writeHermesState, writeOpenClawState, Chosen,
     ToolSettings
<1> QED BY <1>1, <1>2, <1>3, ToolAssumption

LEMMA RemovalKeepsTheirs ==
  ASSUME NEW s \in ToolSettings, Selects(s)
  PROVE  /\ OursRemoved(s) \in ToolSettings /\ Selects(OursRemoved(s))
         /\ OursRemoved(s).is = s.is /\ OursRemoved(s).theirs = s.theirs
BY ToolAssumption DEF OursRemoved, ToolSettings, Selects

LEMMA DeletesKeepTheirs ==
  ASSUME NEW s \in ToolSettings, NEW ms \in SUBSET ToolModels, Selects(s)
  PROVE  /\ deleteCLIToolState(s, ms) \in ToolSettings
         /\ Selects(deleteCLIToolState(s, ms))
         /\ deleteCLIToolState(s, ms).is = s.is /\ deleteCLIToolState(s, ms).theirs = s.theirs
<1>1. CASE tool = "opencode" /\ ms # AllModels
  <2> DEFINE d == [s EXCEPT !.ours = @ \ ms, !.chosen = IF @ \in ms THEN "none" ELSE @]
  <2>1. deleteCLIToolState(s, ms) = d
    BY <1>1 DEF deleteCLIToolState, deleteOpenCodeState
  <2>2. d \in ToolSettings /\ Selects(d) /\ d.is = s.is /\ d.theirs = s.theirs
    BY <1>1, ToolAssumption DEF ToolSettings, Selects
  <2> QED BY <2>1, <2>2
<1>2. CASE ~(tool = "opencode" /\ ms # AllModels)
  <2>1. deleteCLIToolState(s, ms) = OursRemoved(s)
    BY <1>2 DEF deleteCLIToolState, deleteOpenCodeState, deleteCopilotState, deleteDroidState,
       deleteHermesState, deleteOpenClawState
  <2> QED BY <2>1, RemovalKeepsTheirs
<1> QED BY <1>1, <1>2

LEMMA KeysKeepTheirs ==
  ASSUME NEW s \in ToolSettings, NEW method \in {"POST", "PATCH", "CLEAR", "DELETE"}, Selects(s),
         tool \in {"codex", "hermes"}, s.is = "whole"
  PROVE  /\ NewKeys(s, method) \in ToolSettings /\ Selects(NewKeys(s, method))
         /\ NewKeys(s, method).is = "whole"
         /\ tool # "codex" => NewKeys(s, method).theirs = s.theirs
<1>1. CASE method = "DELETE"
  BY <1>1, RemovalKeepsTheirs DEF NewKeys
<1>2. CASE method # "DELETE" /\ tool = "hermes"
  BY <1>2 DEF NewKeys, upsertEnvLine, ToolSettings, Selects
<1>3. CASE method # "DELETE" /\ tool = "codex"
  BY <1>3, RoutersOwn, ToolAssumption DEF NewKeys, writeCodex, Selects
<1> QED BY <1>1, <1>2, <1>3

(* What a request makes of a file keeps the user's part of it, and selects *)
(* a model that is there.                                                  *)
LEMMA NewSettingsAreSound ==
  ASSUME NEW j \in EditorJob, NEW s \in ToolSettings, JobSound(j), Selects(s), tool \in ToolNames,
         s.is = "whole", j.pc = "read"
  PROVE  /\ NewSettings(j, s) \in ToolSettings /\ Selects(NewSettings(j, s))
         /\ NewSettings(j, s).is = "whole"
         /\ tool \notin {"codex", "other"} => NewSettings(j, s).theirs = s.theirs
<1> /\ j.models \in SUBSET ToolModels /\ j.method \in {"POST", "PATCH", "CLEAR", "DELETE"}
    /\ j.model \in ToolModels \cup {"none"} /\ j.on \in {"settings", "key"}
  BY DEF EditorJob
<1>1. CASE j.on = "key"
  BY <1>1, KeysKeepTheirs DEF NewSettings, JobSound, JobFitsTool
<1>2. CASE j.on # "key" /\ j.method = "POST"
  <2>1. NewSettings(j, s) = writeCLIToolState(s, j.models, j.model)
    BY <1>2 DEF NewSettings
  <2>2. j.model \in j.models \cup stray /\ j.model \in ToolModels
    BY <1>2 DEF JobSound, Asks
  <2> QED BY <2>1, <2>2, ModelsAreOurs, WritesKeepTheirs
<1>3. CASE j.on # "key" /\ j.method = "CLEAR"
  <2>1. NewSettings(j, s) = patchOpenCodeState(s) /\ tool = "opencode"
    BY <1>3 DEF NewSettings, JobSound, JobFitsTool
  <2> QED BY <2>1, ToolAssumption DEF patchOpenCodeState, ToolSettings, Selects
<1>4. CASE j.on # "key" /\ j.method = "DELETE"
  BY <1>4, DeletesKeepTheirs DEF NewSettings
<1>5. CASE j.on # "key" /\ j.method = "PATCH"
  BY <1>5 DEF NewSettings
<1> QED BY <1>1, <1>2, <1>3, <1>4, <1>5

-----------------------------------------------------------------------------
LEMMA NextFiles ==
  ASSUME ToolKept, NEW h \in ToolHandlers, NEW next \in NextFile(h), editor[h].pc # "idle"
  PROVE  /\ next \in EditorJob /\ JobSound(next)
         /\ next.pc \in {"idle", "read"}
<1> DEFINE key == [editor[h] EXCEPT !.pc = "read", !.on = "key", !.new = Missing]
<1>1. editor[h] \in EditorJob /\ JobSound(editor[h])
  BY DEF ToolKept, ToolTypeOK
<1>2. CASE next = EditorIdle
  BY <1>2, SpecialSettings, ToolAssumption DEF EditorIdle, JobSound, JobFitsTool, Asks, Selects, Missing
<1>3. CASE next = key /\ tool \in {"codex", "hermes"}
  <2>1. key \in EditorJob
    BY <1>1, SpecialSettings DEF EditorJob
  <2>2. /\ key.pc = "read" /\ key.on = "key" /\ key.new = Missing /\ key.method = editor[h].method
        /\ key.model = editor[h].model /\ key.models = editor[h].models
    BY <1>1 DEF EditorJob
  <2> HIDE DEF key
  <2> QED BY <1>1, <1>3, <2>1, <2>2, ToolAssumption DEF JobSound, JobFitsTool, Asks, Selects, Missing
<1> QED BY <1>2, <1>3 DEF NextFile

(* A step of one request, when it leaves the files alone and writes next   *)
(* nothing, or what keeps the user's part.                                 *)
LEMMA FilesAlone ==
  ASSUME ToolKept, NEW h \in ToolHandlers, NEW j \in EditorJob, EditorSet(h, j), JobFitsTool(j),
         Asks(j, stray'), stray \subseteq stray', stray' \in SUBSET ToolModels,
         UNCHANGED <<tool, files, edits>>, mishap => mishap',
         ~mishap' => /\ j.pc # "write" /\ editor[h].pc # "write"
                     /\ j.pc = "truncate" => KeepsUsers(j.new)
                     /\ j.pc # "idle" => \A g \in ToolHandlers \ {h} : editor[g].pc = "idle",
         mishap' \in BOOLEAN
  PROVE  ToolKept'
<1>1. /\ editor' \in [ToolHandlers -> EditorJob] /\ editor'[h] = j
      /\ \A g \in ToolHandlers \ {h} : editor'[g] = editor[g]
  BY DEF ToolKept, ToolTypeOK, EditorSet
<1>2. ToolTypeOK'
  BY <1>1 DEF ToolKept, ToolTypeOK
<1>3. /\ \A f \in {"settings", "key"} : Selects(files[f])'
      /\ \A g \in ToolHandlers : JobSound(editor[g])'
  BY <1>1 DEF ToolKept, JobSound, JobFitsTool, Asks, Selects
<1>4. ASSUME ~mishap' PROVE Undisturbed'
  <2>1. Undisturbed
    BY <1>4 DEF ToolKept
  <2>2. \A g, k \in ToolHandlers : editor'[g].pc # "idle" /\ editor'[k].pc # "idle" => g = k
    BY <1>1, <1>4, <2>1 DEF Undisturbed
  <2>3. \A g \in ToolHandlers : editor'[g].pc \in {"truncate", "write"} => KeepsUsers(editor[g].new)'
    BY <1>1, <1>4, <2>1 DEF Undisturbed, KeepsUsers
  <2>4. \A f \in ToolFiles' :
         \/ \E g \in ToolHandlers : editor'[g].pc = "write" /\ editor'[g].on = f
         \/ files'[f].is # "torn" /\ (tool' \notin {"codex", "other"} => files'[f].theirs = edits')
    BY <1>1, <1>4, <2>1 DEF Undisturbed, ToolFiles
  <2> QED BY <2>2, <2>3, <2>4 DEF Undisturbed
<1> QED BY <1>2, <1>3, <1>4 DEF ToolKept

LEMMA BeginEditKeeps ==
  ASSUME ToolKept, NEW h \in ToolHandlers, NEW method \in {"POST", "PATCH", "CLEAR", "DELETE"},
         NEW ms \in SUBSET ToolModels, NEW m \in ToolModels \cup {"none"},
         BeginEdit(h, method, ms, m),
         stray \subseteq stray', stray' \in SUBSET ToolModels,
         method = "POST" => m \in ToolModels /\ m \in ms \cup stray',
         method \in {"PATCH", "CLEAR"} => tool = "opencode"
  PROVE  ToolKept'
<1> DEFINE j == [EditorIdle EXCEPT !.pc = "read", !.method = method, !.models = ms, !.model = m]
<1>0. EditorIdle.on = "settings" /\ EditorIdle.new = Missing
  BY DEF EditorIdle
<1>1. /\ j \in EditorJob /\ j.on = "settings" /\ j.new = Missing
      /\ j.method = method /\ j.models = ms /\ j.model = m
  BY <1>0, SpecialSettings DEF EditorJob
<1>3. j.pc = "read"
  BY SpecialSettings DEF EditorJob
<1>2. JobFitsTool(j) /\ Asks(j, stray')
  <2> HIDE DEF j
  <2> QED BY <1>1, ToolAssumption DEF JobSound, JobFitsTool, Asks, Selects, Missing
<1>4. EditorSet(h, j) /\ editor[h].pc = "idle" /\ mishap' = (mishap \/ ~Alone(h))
  BY DEF BeginEdit, EditorSet
<1>5. UNCHANGED <<tool, files, edits>> /\ mishap \in BOOLEAN
  BY DEF BeginEdit, ToolKept, ToolTypeOK
<1>6. ~mishap' => \A g \in ToolHandlers \ {h} : editor[g].pc = "idle"
  BY <1>4 DEF Alone
<1> HIDE DEF j
<1>7. mishap' \in BOOLEAN /\ (mishap => mishap')
  BY <1>4, <1>5
<1> QED BY <1>1, <1>2, <1>3, <1>4, <1>5, <1>6, <1>7, FilesAlone

LEMMA StopsKeep ==
  ASSUME ToolKept, NEW h \in ToolHandlers, EditorSet(h, EditorIdle),
         editor[h].pc = "read" \/ (editor[h].pc = "write" /\ mishap'),
         UNCHANGED <<tool, files, edits, stray>>, mishap => mishap', mishap' \in BOOLEAN
  PROVE  ToolKept'
<1>1. /\ EditorIdle \in EditorJob /\ JobFitsTool(EditorIdle) /\ Asks(EditorIdle, stray')
      /\ EditorIdle.pc = "idle"
  BY SpecialSettings, ToolAssumption DEF EditorIdle, JobSound, JobFitsTool, Asks, Selects, Missing
<1>2. stray' \in SUBSET ToolModels /\ stray \subseteq stray'
  BY DEF ToolKept, ToolTypeOK
<1> QED BY <1>1, <1>2, FilesAlone

LEMMA RemoveFileKeeps ==
  ASSUME ToolKept, NEW h \in ToolHandlers, RemoveFile(h)
  PROVE  ToolKept'
<1>1. PICK next \in NextFile(h) : EditorSet(h, next)
  BY DEF RemoveFile
<1>2. /\ editor[h].pc = "read" /\ tool \in {"codex", "other"}
      /\ UNCHANGED <<tool, edits, mishap, stray>>
      /\ files' = [files EXCEPT !["settings"] = Missing]
  BY DEF RemoveFile, RemovesFile
<1>3. next \in EditorJob /\ JobSound(next) /\ next.pc \in {"idle", "read"}
  BY <1>1, <1>2, NextFiles
<1>4. /\ editor' \in [ToolHandlers -> EditorJob] /\ editor'[h] = next
      /\ \A g \in ToolHandlers \ {h} : editor'[g] = editor[g]
  BY <1>1, <1>3 DEF ToolKept, ToolTypeOK, EditorSet
<1>5. /\ files' \in [{"settings", "key"} -> ToolSettings]
      /\ files'["settings"] = Missing /\ files'["key"] = files["key"]
  BY <1>2, SpecialSettings DEF ToolKept, ToolTypeOK
<1>6. ToolTypeOK'
  BY <1>2, <1>4, <1>5 DEF ToolKept, ToolTypeOK
<1>7. \A f \in {"settings", "key"} : Selects(files[f])'
  BY <1>2, <1>5, ToolAssumption DEF ToolKept, Selects, Missing
<1>8. \A g \in ToolHandlers : JobSound(editor[g])'
  BY <1>2, <1>3, <1>4 DEF ToolKept, JobSound, JobFitsTool, Asks, Selects
<1>9. ASSUME ~mishap' PROVE Undisturbed'
  <2>1. Undisturbed
    BY <1>2, <1>9 DEF ToolKept
  <2>2. \A g, k \in ToolHandlers : editor'[g].pc # "idle" /\ editor'[k].pc # "idle" => g = k
    BY <1>2, <1>3, <1>4, <2>1 DEF Undisturbed
  <2>3. \A g \in ToolHandlers : editor'[g].pc \in {"truncate", "write"} => KeepsUsers(editor[g].new)'
    BY <1>2, <1>3, <1>4, <2>1 DEF Undisturbed, KeepsUsers
  <2>4. \A f \in ToolFiles' :
         \/ \E g \in ToolHandlers : editor'[g].pc = "write" /\ editor'[g].on = f
         \/ files'[f].is # "torn" /\ (tool' \notin {"codex", "other"} => files'[f].theirs = edits')
    BY <1>2, <1>4, <1>5, <2>1 DEF Undisturbed, ToolFiles, Missing
  <2> QED BY <2>2, <2>3, <2>4 DEF Undisturbed
<1> QED BY <1>6, <1>7, <1>8, <1>9 DEF ToolKept

LEMMA ComputeKeeps ==
  ASSUME ToolKept, NEW h \in ToolHandlers, Compute(h)
  PROVE  ToolKept'
<1> DEFINE s == [Editing(h) EXCEPT !.is = "whole"]
           new == NewSettings(editor[h], s)
           method == IF "key" \in ToolFiles THEN editor[h].method ELSE "POST"
           j == [editor[h] EXCEPT !.pc = "truncate", !.models = {}, !.model = "none",
                                  !.method = method, !.new = new]
<1>1. /\ editor[h].pc = "read" /\ EditorSet(h, j) /\ UNCHANGED <<tool, files, edits, mishap, stray>>
  BY DEF Compute
<1>2. /\ editor[h] \in EditorJob /\ JobSound(editor[h]) /\ tool \in ToolNames /\ mishap \in BOOLEAN
      /\ editor[h].on \in {"settings", "key"} /\ Editing(h) \in ToolSettings /\ Selects(Editing(h))
  BY DEF ToolKept, ToolTypeOK, EditorJob, Editing
<1>3. /\ s \in ToolSettings /\ s.is = "whole" /\ s.theirs = Editing(h).theirs /\ Selects(s)
  BY <1>2 DEF ToolSettings, Selects
<1> HIDE DEF s
<1>4. /\ new \in ToolSettings /\ Selects(new) /\ new.is = "whole"
      /\ tool \notin {"codex", "other"} => new.theirs = s.theirs
  BY <1>1, <1>2, <1>3, NewSettingsAreSound
<1> HIDE DEF new
<1>a. method \in {editor[h].method, "POST"}
  OBVIOUS
<1> HIDE DEF method
<1>5. /\ j \in EditorJob /\ j.pc = "truncate" /\ j.new = new /\ j.on = editor[h].on
      /\ j.method \in {editor[h].method, "POST"}
  BY <1>2, <1>4, <1>a DEF EditorJob
<1> HIDE DEF j
<1>6. JobSound(j)
  BY <1>1, <1>2, <1>4, <1>5 DEF JobSound, JobFitsTool, Asks
<1>7. ASSUME ~mishap
      PROVE  /\ \A g \in ToolHandlers \ {h} : editor[g].pc = "idle"
             /\ KeepsUsers(j.new)
  <2>1. Undisturbed
    BY <1>7 DEF ToolKept
  <2>2. \A g \in ToolHandlers \ {h} : editor[g].pc = "idle"
    BY <1>1, <2>1 DEF Undisturbed
  <2>3. editor[h].on \in ToolFiles
    BY <1>2 DEF ToolFiles, JobSound, JobFitsTool
  <2>4. tool \notin {"codex", "other"} => Editing(h).theirs = edits
    BY <1>1, <2>1, <2>2, <2>3 DEF Undisturbed, Editing
  <2> QED BY <1>3, <1>4, <1>5, <2>2, <2>4 DEF KeepsUsers
<1>8. /\ JobFitsTool(j) /\ Asks(j, stray') /\ stray' \in SUBSET ToolModels
      /\ stray \subseteq stray'
  BY <1>1, <1>6 DEF JobSound, ToolKept, ToolTypeOK
<1> QED BY <1>1, <1>2, <1>5, <1>7, <1>8, FilesAlone

(* The step that puts content into the file that h is at.                  *)
LEMMA WriteStepKeeps ==
  ASSUME ToolKept, NEW h \in ToolHandlers, NEW j \in EditorJob, NEW content \in ToolSettings,
         EditorSet(h, j), JobSound(j), Selects(content),
         files' = [files EXCEPT ![editor[h].on] = content],
         UNCHANGED <<tool, edits, mishap, stray>>, editor[h].pc \in {"truncate", "write"},
         \/ j.pc = "write" /\ j.on = editor[h].on /\ j.new = editor[h].new
         \/ j.pc \in {"idle", "read"} /\ (~mishap => content = editor[h].new)
  PROVE  ToolKept'
<1>1. /\ editor' \in [ToolHandlers -> EditorJob] /\ editor'[h] = j
      /\ \A g \in ToolHandlers \ {h} : editor'[g] = editor[g]
  BY DEF ToolKept, ToolTypeOK, EditorSet
<1>2. /\ files' \in [{"settings", "key"} -> ToolSettings]
      /\ files'[editor[h].on] = content /\ editor[h].on \in {"settings", "key"}
      /\ \A f \in {"settings", "key"} \ {editor[h].on} : files'[f] = files[f]
  BY DEF ToolKept, ToolTypeOK, EditorJob
<1>3. ToolTypeOK'
  BY <1>1, <1>2 DEF ToolKept, ToolTypeOK
<1>4. \A f \in {"settings", "key"} : Selects(files[f])'
  BY <1>2 DEF ToolKept, Selects
<1>5. \A g \in ToolHandlers : JobSound(editor[g])'
  BY <1>1 DEF ToolKept, JobSound, JobFitsTool, Asks, Selects
<1>6. ASSUME ~mishap' PROVE Undisturbed'
  <2>1. Undisturbed
    BY <1>6 DEF ToolKept
  <2>2. \A g, k \in ToolHandlers : editor'[g].pc # "idle" /\ editor'[k].pc # "idle" => g = k
    BY <1>1, <2>1 DEF Undisturbed
  <2>3. \A g \in ToolHandlers \ {h} : editor[g].pc = "idle"
    BY <2>1 DEF Undisturbed
  <2>4. KeepsUsers(editor[h].new)
    BY <2>1 DEF Undisturbed
  <2>5. \A g \in ToolHandlers : editor'[g].pc \in {"truncate", "write"} => KeepsUsers(editor[g].new)'
    BY <1>1, <2>3, <2>4 DEF KeepsUsers
  <2>6. ASSUME NEW f \in ToolFiles
        PROVE  \/ \E g \in ToolHandlers : editor'[g].pc = "write" /\ editor'[g].on = f
               \/ /\ files'[f].is # "torn"
                  /\ tool' \notin {"codex", "other"} => files'[f].theirs = edits'
    <3>1. CASE f = editor[h].on
      BY <1>1, <1>2, <1>6, <2>4, <3>1 DEF KeepsUsers
    <3>2. CASE f # editor[h].on
      <4>1. ~\E g \in ToolHandlers : editor[g].pc = "write" /\ editor[g].on = f
        BY <2>3, <3>2
      <4>2. f \in {"settings", "key"}
        BY DEF ToolFiles
      <4> QED BY <1>2, <2>1, <3>2, <4>1, <4>2 DEF Undisturbed
    <3> QED BY <3>1, <3>2
  <2>7. ToolFiles' = ToolFiles
    BY DEF ToolFiles
  <2> QED BY <2>2, <2>5, <2>6, <2>7 DEF Undisturbed
<1> QED BY <1>3, <1>4, <1>5, <1>6 DEF ToolKept

LEMMA TruncateKeeps ==
  ASSUME ToolKept, NEW h \in ToolHandlers, writeTextFile(h)
  PROVE  ToolKept'
<1> DEFINE j == [editor[h] EXCEPT !.pc = "write"]
<1>1. /\ editor[h].pc = "truncate" /\ EditorSet(h, j) /\ UNCHANGED <<tool, edits, mishap, stray>>
      /\ files' = [files EXCEPT ![editor[h].on] = Torn]
  BY DEF writeTextFile
<1>2. editor[h] \in EditorJob /\ JobSound(editor[h])
  BY DEF ToolKept, ToolTypeOK
<1>3. /\ j \in EditorJob /\ j.pc = "write" /\ j.new = editor[h].new /\ j.on = editor[h].on
      /\ j.method = editor[h].method /\ j.model = editor[h].model /\ j.models = editor[h].models
  BY <1>2 DEF EditorJob
<1> HIDE DEF j
<1>4. JobSound(j)
  BY <1>1, <1>2, <1>3 DEF JobSound, JobFitsTool, Asks
<1>5. Torn \in ToolSettings /\ Selects(Torn)
  BY SpecialSettings, ToolAssumption DEF Torn, Missing, Selects
<1> QED BY <1>1, <1>3, <1>4, <1>5, WriteStepKeeps

LEMMA WriteContentKeeps ==
  ASSUME ToolKept, NEW h \in ToolHandlers, WriteContent(h)
  PROVE  ToolKept'
<1>1. PICK content \in {editor[h].new} \cup (IF Alone(h) THEN {} ELSE {Torn}) :
        files' = [files EXCEPT ![editor[h].on] = content]
  BY DEF WriteContent
<1>2. PICK next \in NextFile(h) : EditorSet(h, next)
  BY DEF WriteContent
<1>3. editor[h].pc = "write" /\ UNCHANGED <<tool, edits, mishap, stray>>
  BY DEF WriteContent
<1>4. next \in EditorJob /\ JobSound(next) /\ next.pc \in {"idle", "read"}
  BY <1>2, <1>3, NextFiles
<1>5. editor[h].new \in ToolSettings /\ Selects(editor[h].new)
  BY DEF ToolKept, ToolTypeOK, EditorJob, JobSound, JobFitsTool
<1>6. content \in ToolSettings /\ Selects(content)
  BY <1>1, <1>5, SpecialSettings, ToolAssumption DEF Torn, Missing, Selects
<1>7. ~mishap => Alone(h)
  BY <1>3 DEF ToolKept, Undisturbed, Alone
<1>8. ~mishap => content = editor[h].new
  BY <1>1, <1>7
<1> QED BY <1>1, <1>2, <1>3, <1>4, <1>6, <1>8, WriteStepKeeps

LEMMA UserEditsKeeps ==
  ASSUME ToolKept, NEW other \in BOOLEAN, UserEdits(other)
  PROVE  ToolKept'
<1>1. /\ edits < MaxEdits /\ edits' = edits + 1 /\ UNCHANGED <<tool, editor, stray>>
      /\ mishap' = (mishap \/ \E h \in ToolHandlers : editor[h].pc # "idle")
  BY DEF UserEdits
<1>2. edits' \in 0..MaxEdits
  BY <1>1, ToolAssumption DEF ToolKept, ToolTypeOK
<1>3. DOMAIN files = {"settings", "key"} /\ \A f \in {"settings", "key"} : files[f] \in ToolSettings
  BY DEF ToolKept, ToolTypeOK
<1> DEFINE Edited(f) == [files[f] EXCEPT !.is = "whole", !.theirs = edits',
                                        !.chosen = IF other THEN "theirs" ELSE @]
<1>4. \A f \in {"settings", "key"} :
        /\ Edited(f) \in ToolSettings
        /\ Edited(f).is = "whole" /\ Edited(f).theirs = edits' /\ Edited(f).ours = files[f].ours
        /\ Edited(f).chosen \in {files[f].chosen, "theirs"}
  BY <1>2, <1>3 DEF ToolSettings
<1>5. files' = [f \in {"settings", "key"} |-> IF f \notin ToolFiles THEN files[f] ELSE Edited(f)]
  BY <1>3 DEF UserEdits
<1> HIDE DEF Edited
<1>6. /\ files' \in [{"settings", "key"} -> ToolSettings]
      /\ \A f \in ToolFiles : files'[f].is = "whole" /\ files'[f].theirs = edits'
  BY <1>3, <1>4, <1>5 DEF ToolFiles
<1>7. \A f \in {"settings", "key"} : Selects(files[f])'
  BY <1>1, <1>4, <1>5, ToolAssumption DEF ToolKept, Selects
<1>8. ToolTypeOK'
  BY <1>1, <1>2, <1>6 DEF ToolKept, ToolTypeOK
<1>9. \A g \in ToolHandlers : JobSound(editor[g])'
  BY <1>1 DEF ToolKept, JobSound, JobFitsTool, Asks, Selects
<1>10. ASSUME ~mishap' PROVE Undisturbed'
  <2>1. \A h \in ToolHandlers : editor'[h].pc = "idle"
    BY <1>1, <1>10
  <2>2. ToolFiles' = ToolFiles
    BY <1>1 DEF ToolFiles
  <2> QED BY <1>6, <2>1, <2>2 DEF Undisturbed
<1> QED BY <1>7, <1>8, <1>9, <1>10 DEF ToolKept

LEMMA ToolCrashKeeps ==
  ASSUME ToolKept, ToolCrash
  PROVE  ToolKept'
<1>1. /\ editor' = [h \in ToolHandlers |-> EditorIdle] /\ UNCHANGED <<tool, files, edits, stray>>
      /\ mishap' = (mishap \/ \E h \in ToolHandlers : editor[h].pc # "idle")
  BY DEF ToolCrash
<1>2. /\ editor' \in [ToolHandlers -> EditorJob]
      /\ \A h \in ToolHandlers : editor'[h] = EditorIdle
  BY <1>1, SpecialSettings
<1>3. ToolTypeOK' /\ \A f \in {"settings", "key"} : Selects(files[f])'
  BY <1>1, <1>2 DEF ToolKept, ToolTypeOK, Selects
<1>4. \A g \in ToolHandlers : JobSound(editor[g])'
  BY <1>2, ToolAssumption DEF EditorIdle, JobSound, JobFitsTool, Asks, Selects, Missing
<1>5. ASSUME ~mishap' PROVE Undisturbed'
  <2>1. Undisturbed /\ \A h \in ToolHandlers : editor[h].pc = "idle"
    BY <1>1, <1>5 DEF ToolKept
  <2>2. ToolFiles' = ToolFiles
    BY <1>1 DEF ToolFiles
  <2> QED BY <1>1, <1>2, <2>1, <2>2 DEF Undisturbed, EditorIdle
<1> QED BY <1>3, <1>4, <1>5 DEF ToolKept

LEMMA EditorStepKeeps ==
  ASSUME ToolKept, NEW h \in ToolHandlers, EditorStep(h)
  PROVE  ToolKept'
<1> mishap \in BOOLEAN
  BY DEF ToolKept, ToolTypeOK
<1>1. CASE readJSONFileMap(h) \/ NothingToReset(h) \/ WriteFails(h)
  <2>1. /\ EditorSet(h, EditorIdle) /\ UNCHANGED <<tool, files, edits, stray>>
        /\ (mishap => mishap') /\ mishap' \in BOOLEAN
        /\ editor[h].pc = "read" \/ (editor[h].pc = "write" /\ mishap')
    BY <1>1 DEF readJSONFileMap, NothingToReset, WriteFails
  <2> QED BY <2>1, StopsKeep
<1>2. CASE RemoveFile(h)
  BY <1>2, RemoveFileKeeps
<1>3. CASE Compute(h)
  BY <1>3, ComputeKeeps
<1>4. CASE writeTextFile(h)
  BY <1>4, TruncateKeeps
<1>5. CASE WriteContent(h)
  BY <1>5, WriteContentKeeps
<1> QED BY <1>1, <1>2, <1>3, <1>4, <1>5 DEF EditorStep

LEMMA ToolKeptInit == ToolInit => ToolKept
<1> SUFFICES ASSUME ToolInit PROVE ToolKept
  OBVIOUS
<1>1. ToolTypeOK
  <2>1. 0 \in 0..MaxEdits
    BY ToolAssumption DEF ToolAssumption
  <2> QED BY <2>1, SpecialSettings DEF ToolInit, ToolTypeOK
<1>2. \A f \in {"settings", "key"} : Selects(files[f])
  BY ToolAssumption DEF ToolInit, Selects, Missing
<1>3. \A h \in ToolHandlers : JobSound(editor[h]) /\ editor[h].pc = "idle"
  BY ToolAssumption DEF ToolInit, EditorIdle, JobSound, JobFitsTool, Asks, Selects, Missing
<1>4. Undisturbed
  BY <1>3 DEF ToolInit, Undisturbed, Missing, ToolFiles
<1> QED BY <1>1, <1>2, <1>3, <1>4 DEF ToolKept

LEMMA ToolKeptStep == ToolKept /\ [ToolNext]_toolVars => ToolKept'
<1> SUFFICES ASSUME ToolKept, [ToolNext]_toolVars PROVE ToolKept'
  OBVIOUS
<1>0. stray \in SUBSET ToolModels
  BY DEF ToolKept, ToolTypeOK
<1>1. ASSUME NEW h \in ToolHandlers, NEW ms \in SUBSET ToolModels, NEW m \in ToolModels,
             handleCLIToolSettingsPost(h, ms, m)
      PROVE  ToolKept'
  <2>1. /\ BeginEdit(h, "POST", ms, m) /\ stray \subseteq stray'
        /\ stray' \in SUBSET ToolModels /\ m \in ms \cup stray'
    BY <1>0, <1>1 DEF handleCLIToolSettingsPost
  <2> QED BY <2>1, BeginEditKeeps
<1>2. ASSUME NEW h \in ToolHandlers, NEW ms \in SUBSET ToolModels,
             handleCLIToolSettingsDelete(h, ms)
      PROVE  ToolKept'
  <2>1. BeginEdit(h, "DELETE", ms, "none") /\ stray' = stray
    BY <1>2 DEF handleCLIToolSettingsDelete
  <2> QED BY <1>0, <2>1, BeginEditKeeps
<1>3. ASSUME NEW h \in ToolHandlers, NEW clear \in BOOLEAN, handleCLIToolSettingsPatch(h, clear)
      PROVE  ToolKept'
  <2>1. PICK method \in {"PATCH", "CLEAR"} : BeginEdit(h, method, {}, "none")
    BY <1>3 DEF handleCLIToolSettingsPatch
  <2>2. stray' = stray /\ tool = "opencode"
    BY <1>3 DEF handleCLIToolSettingsPatch
  <2> QED BY <1>0, <2>1, <2>2, BeginEditKeeps
<1>4. CASE UNCHANGED toolVars
  BY <1>4 DEF toolVars, ToolKept, ToolTypeOK, Selects, JobSound, JobFitsTool, Asks, Undisturbed, KeepsUsers, ToolFiles
<1> QED BY <1>1, <1>2, <1>3, <1>4, EditorStepKeeps, UserEditsKeeps, ToolCrashKeeps DEF ToolNext

LEMMA ToolInvariance == ToolSpec => []ToolKept
BY ToolKeptInit, ToolKeptStep, PTL DEF ToolSpec

(* Every reachable state of the settings files and their editors is well   *)
(* typed.                                                                  *)
THEOREM ToolTypeCorrect == ToolSpec => []ToolTypeOK
<1>1. ToolKept => ToolTypeOK
  BY DEF ToolKept
<1> QED BY <1>1, ToolInvariance, PTL

(* The settings files of the tools, edited by the router and by the user:  *)
(* what a file selects it defines, or a request made it active without     *)
(* defining it, and while nothing overlaps and nothing fails every file    *)
(* keeps what the user wrote.                                              *)
THEOREM ToolSettingsAreSound == ToolSpec => []SettingsSound
<1>1. ToolKept => SettingsSound
  <2> SUFFICES ASSUME ToolKept PROVE SettingsSound
    OBVIOUS
  <2>1. ToolFiles \subseteq {"settings", "key"}
    BY DEF ToolFiles
  <2>2. ChosenIsThere
    BY <2>1 DEF ToolKept, Selects, ChosenIsThere
  <2>3. TheirsSurvive
    BY DEF ToolKept, Undisturbed, TheirsSurvive
  <2> QED BY <2>2, <2>3 DEF SettingsSound
<1> QED BY <1>1, ToolInvariance, PTL

-----------------------------------------------------------------------------
(* The configuration: what is in memory was validated.                     *)

(* The edits of a map are maps.                                            *)
LEMMA MapEdits ==
  ASSUME NEW D, NEW R, NEW f, IsMap(f, D, R)
  PROVE  /\ \A k \in D : \A v \in R : IsMap(Put(f, k, v), D, R)
         /\ \A k : IsMap(Drop(f, k), D, R)
         /\ \A k \in D : \A v \in R : \A g \in Added(f, k, v) \cup Replaced(f, k, v) : IsMap(g, D, R)
         /\ \A k : \A g \in Removed(f, k) : IsMap(g, D, R)
<1>1. \A k \in D : \A v \in R : IsMap(Put(f, k, v), D, R)
  BY DEF IsMap, Put
<1>2. \A k : IsMap(Drop(f, k), D, R)
  BY DEF IsMap, Drop
<1> QED BY <1>1, <1>2 DEF Added, Replaced, Removed

(* An edit of one field leaves the others, and the keys, as they were.     *)
SameKeys(c, d) == d.apiKey = c.apiKey /\ d.adminKeys = c.adminKeys

LEMMA ProvidersSet ==
  ASSUME NEW c, IsConfiguration(c), NEW f, IsMap(f, Names, Provider)
  PROVE  LET d == [c EXCEPT !.providers = f] IN IsConfiguration(d) /\ SameKeys(c, d)
BY DEF IsConfiguration, ConfigFields, SameKeys

LEMMA RoutesSet ==
  ASSUME NEW c, IsConfiguration(c), NEW f, IsMap(f, RouteNames, Seq(Names))
  PROVE  LET d == [c EXCEPT !.routes = f] IN IsConfiguration(d) /\ SameKeys(c, d)
BY DEF IsConfiguration, ConfigFields, SameKeys

LEMMA AliasesSet ==
  ASSUME NEW c, IsConfiguration(c), NEW f, IsMap(f, AliasNames, Names)
  PROVE  LET d == [c EXCEPT !.aliases = f] IN IsConfiguration(d) /\ SameKeys(c, d)
BY DEF IsConfiguration, ConfigFields, SameKeys

LEMMA ModelsSet ==
  ASSUME NEW c, IsConfiguration(c), NEW f, IsMap(f, ModelNames, Names)
  PROVE  LET d == [c EXCEPT !.models = f] IN IsConfiguration(d) /\ SameKeys(c, d)
BY DEF IsConfiguration, ConfigFields, SameKeys

LEMMA SettingsSet ==
  ASSUME NEW c, IsConfiguration(c), NEW s \in Settings
  PROVE  LET d == [c EXCEPT !.settings = s] IN IsConfiguration(d) /\ SameKeys(c, d)
BY DEF IsConfiguration, ConfigFields, SameKeys

LEMMA DefaultsSet ==
  ASSUME NEW c, IsConfiguration(c)
  PROVE  IsConfiguration(applyDefaults(c)) /\ SameKeys(c, applyDefaults(c))
BY DEF IsConfiguration, ConfigFields, SameKeys, applyDefaults

LEMMA KeysSet ==
  ASSUME NEW c, IsConfiguration(c), NEW k \in Keys, NEW s \in Seq(Keys)
  PROVE  /\ LET d == [c EXCEPT !.apiKey = k] IN
              IsConfiguration(d) /\ d.apiKey = k /\ d.adminKeys = c.adminKeys
         /\ LET d == [c EXCEPT !.adminKeys = s] IN
              IsConfiguration(d) /\ d.apiKey = c.apiKey /\ d.adminKeys = s
BY DEF IsConfiguration, ConfigFields

LEMMA EntryEdits ==
  ASSUME NEW c, IsConfiguration(c)
  PROVE  /\ \A n \in Names, old \in Names, p \in Provider :
              \A d \in AddProvider(c, n, p) \cup UpdateProvider(c, old, n, p) \cup DeleteProvider(c, n) :
                IsConfiguration(d) /\ SameKeys(c, d)
         /\ \A r \in RouteNames, t \in Seq(Names) :
              \A d \in AddRoute(c, r, t) \cup UpdateRoute(c, r, t) \cup DeleteRoute(c, r) :
                IsConfiguration(d) /\ SameKeys(c, d)
         /\ \A a \in AliasNames, n \in Names :
              \A d \in AddModelAlias(c, a, n) \cup UpdateModelAlias(c, a, n) \cup DeleteModelAlias(c, a)
                       \cup {[c EXCEPT !.aliases = Put(@, a, n)]} :
                IsConfiguration(d) /\ SameKeys(c, d)
         /\ \A m \in ModelNames, n \in Names :
              \A d \in AddCustomModel(c, m, n) \cup UpdateCustomModel(c, m, n) \cup DeleteCustomModel(c, m) :
                IsConfiguration(d) /\ SameKeys(c, d)
         /\ \A s \in Settings : \A d \in UpdateSettings(c, s) : IsConfiguration(d) /\ SameKeys(c, d)
<1>1. /\ IsMap(c.providers, Names, Provider) /\ IsMap(c.routes, RouteNames, Seq(Names))
      /\ IsMap(c.aliases, AliasNames, Names) /\ IsMap(c.models, ModelNames, Names)
  BY DEF IsConfiguration
<1>2. ASSUME NEW n \in Names, NEW old \in Names, NEW p \in Provider,
             NEW d \in AddProvider(c, n, p) \cup UpdateProvider(c, old, n, p) \cup DeleteProvider(c, n)
      PROVE  IsConfiguration(d) /\ SameKeys(c, d)
  <2>1. PICK f : d = [c EXCEPT !.providers = f] /\ IsMap(f, Names, Provider)
    <3>1. IsMap(Put(Drop(c.providers, old), n, p), Names, Provider)
      <4>1. IsMap(Drop(c.providers, old), Names, Provider)
        BY <1>1, MapEdits
      <4> QED BY <4>1, MapEdits
    <3>2. CASE d \in AddProvider(c, n, p)
      <4>1. \A f \in Added(c.providers, n, p) : IsMap(f, Names, Provider)
        BY <1>1, MapEdits
      <4> QED BY <3>2, <4>1 DEF AddProvider
    <3>3. CASE d \in UpdateProvider(c, old, n, p)
      BY <3>1, <3>3 DEF UpdateProvider
    <3>4. CASE d \in DeleteProvider(c, n)
      <4>1. \A f \in Removed(c.providers, n) : IsMap(f, Names, Provider)
        BY <1>1, MapEdits
      <4> QED BY <3>4, <4>1 DEF DeleteProvider
    <3> QED BY <3>2, <3>3, <3>4
  <2> QED BY <2>1, ProvidersSet
<1>3. ASSUME NEW r \in RouteNames, NEW t \in Seq(Names),
             NEW d \in AddRoute(c, r, t) \cup UpdateRoute(c, r, t) \cup DeleteRoute(c, r)
      PROVE  IsConfiguration(d) /\ SameKeys(c, d)
  <2>1. \A f \in Added(c.routes, r, t) \cup Replaced(c.routes, r, t) \cup Removed(c.routes, r) :
          IsMap(f, RouteNames, Seq(Names))
    BY <1>1, MapEdits
  <2>2. PICK f : d = [c EXCEPT !.routes = f] /\ IsMap(f, RouteNames, Seq(Names))
    BY <2>1 DEF AddRoute, UpdateRoute, DeleteRoute
  <2> QED BY <2>2, RoutesSet
<1>4. ASSUME NEW a \in AliasNames, NEW n \in Names,
             NEW d \in AddModelAlias(c, a, n) \cup UpdateModelAlias(c, a, n) \cup DeleteModelAlias(c, a)
                      \cup {[c EXCEPT !.aliases = Put(@, a, n)]}
      PROVE  IsConfiguration(d) /\ SameKeys(c, d)
  <2>1. \A f \in Added(c.aliases, a, n) \cup Replaced(c.aliases, a, n) \cup Removed(c.aliases, a)
                  \cup {Put(c.aliases, a, n)} :
          IsMap(f, AliasNames, Names)
    BY <1>1, MapEdits
  <2>2. PICK f : d = [c EXCEPT !.aliases = f] /\ IsMap(f, AliasNames, Names)
    BY <2>1 DEF AddModelAlias, UpdateModelAlias, DeleteModelAlias
  <2> QED BY <2>2, AliasesSet
<1>5. ASSUME NEW m \in ModelNames, NEW n \in Names,
             NEW d \in AddCustomModel(c, m, n) \cup UpdateCustomModel(c, m, n) \cup DeleteCustomModel(c, m)
      PROVE  IsConfiguration(d) /\ SameKeys(c, d)
  <2>1. \A f \in Added(c.models, m, n) \cup Replaced(c.models, m, n) \cup Removed(c.models, m) :
          IsMap(f, ModelNames, Names)
    BY <1>1, MapEdits
  <2>2. PICK f : d = [c EXCEPT !.models = f] /\ IsMap(f, ModelNames, Names)
    BY <2>1 DEF AddCustomModel, UpdateCustomModel, DeleteCustomModel
  <2> QED BY <2>2, ModelsSet
<1>6. ASSUME NEW s \in Settings, NEW d \in UpdateSettings(c, s)
      PROVE  IsConfiguration(d) /\ SameKeys(c, d)
  BY <1>6, SettingsSet DEF UpdateSettings
<1> QED BY <1>2, <1>3, <1>4, <1>5, <1>6

-----------------------------------------------------------------------------
(* The edits of the keys: each takes away the key it is asked to, at most. *)

LEMMA SetOfSeq ==
  ASSUME NEW S, NEW s \in Seq(S)
  PROVE  /\ \A x : x \in ToSet(s) <=> \E i \in 1..Len(s) : s[i] = x
         /\ ToSet(s) \subseteq S
<1>1. DOMAIN s = 1..Len(s) /\ \A i \in 1..Len(s) : s[i] \in S
  BY ElementOfSeq
<1> QED BY <1>1 DEF ToSet

LEMMA SetOfAppend ==
  ASSUME NEW S, NEW s \in Seq(S), NEW x \in S
  PROVE  Append(s, x) \in Seq(S) /\ ToSet(s) \subseteq ToSet(Append(s, x))
<1> DEFINE t == Append(s, x)
<1>1. /\ t \in Seq(S) /\ Len(t) = Len(s) + 1 /\ Len(s) \in Nat
      /\ \A i \in 1..Len(s) : t[i] = s[i]
  BY AppendProperties
<1> HIDE DEF t
<1>2. \A y \in ToSet(s) : y \in ToSet(t)
  <2> SUFFICES ASSUME NEW i \in 1..Len(s) PROVE s[i] \in ToSet(t)
    BY SetOfSeq
  <2>1. i \in 1..Len(t)
    BY <1>1
  <2> QED BY <1>1, <2>1, SetOfSeq
<1> QED BY <1>1, <1>2 DEF t

LEMMA SetOfReplace ==
  ASSUME NEW S, NEW s \in Seq(S), NEW x \in S, NEW i \in 1..Len(s)
  PROVE  LET t == [s EXCEPT ![i] = x] IN
         t \in Seq(S) /\ ToSet(s) \subseteq ToSet(t) \cup {s[i]}
<1> DEFINE t == [s EXCEPT ![i] = x]
<1>1. s \in [1..Len(s) -> S] /\ Len(s) \in Nat
  BY ElementOfSeq
<1>2. t \in [1..Len(s) -> S] /\ \A j \in 1..Len(s) : j # i => t[j] = s[j]
  BY <1>1
<1>3. t \in Seq(S) /\ Len(t) = Len(s)
  BY <1>1, <1>2, SeqDef, LenProperties
<1> HIDE DEF t
<1>4. ASSUME NEW j \in 1..Len(s) PROVE s[j] \in ToSet(t) \cup {s[i]}
  <2>1. CASE j = i
    BY <2>1
  <2>2. CASE j # i
    BY <1>2, <1>3, <2>2, SetOfSeq
  <2> QED BY <2>1, <2>2
<1>5. ToSet(s) \subseteq ToSet(t) \cup {s[i]}
  BY <1>4, SetOfSeq
<1> QED BY <1>3, <1>5 DEF t

LEMMA SetOfConcat ==
  ASSUME NEW S, NEW s \in Seq(S), NEW t \in Seq(S)
  PROVE  s \o t \in Seq(S) /\ ToSet(s \o t) = ToSet(s) \cup ToSet(t)
<1> DEFINE u == s \o t
<1>1. /\ u \in Seq(S) /\ Len(u) = Len(s) + Len(t) /\ Len(s) \in Nat /\ Len(t) \in Nat
      /\ \A i \in 1..(Len(s) + Len(t)) : u[i] = IF i <= Len(s) THEN s[i] ELSE t[i - Len(s)]
  BY ConcatProperties, LenProperties
<1> HIDE DEF u
<1>2. \A y \in ToSet(s) : y \in ToSet(u)
  <2> SUFFICES ASSUME NEW i \in 1..Len(s) PROVE s[i] \in ToSet(u)
    BY SetOfSeq
  <2>1. i \in 1..Len(u) /\ u[i] = s[i]
    BY <1>1
  <2> QED BY <1>1, <2>1, SetOfSeq
<1>3. \A y \in ToSet(t) : y \in ToSet(u)
  <2> SUFFICES ASSUME NEW i \in 1..Len(t) PROVE t[i] \in ToSet(u)
    BY SetOfSeq
  <2>1. i + Len(s) \in 1..Len(u) /\ ~(i + Len(s) <= Len(s)) /\ (i + Len(s)) - Len(s) = i
    BY <1>1
  <2>2. u[i + Len(s)] = t[i]
    BY <1>1, <2>1
  <2> QED BY <1>1, <2>1, <2>2, SetOfSeq
<1>4. \A y \in ToSet(u) : y \in ToSet(s) \cup ToSet(t)
  <2> SUFFICES ASSUME NEW i \in 1..Len(u) PROVE u[i] \in ToSet(s) \cup ToSet(t)
    BY <1>1, SetOfSeq
  <2>1. CASE i <= Len(s)
    <3>1. i \in 1..Len(s) /\ u[i] = s[i]
      BY <1>1, <2>1
    <3> QED BY <3>1, SetOfSeq
  <2>2. CASE ~(i <= Len(s))
    <3>1. i - Len(s) \in 1..Len(t) /\ u[i] = t[i - Len(s)]
      BY <1>1, <2>2
    <3> QED BY <3>1, SetOfSeq
  <2> QED BY <2>1, <2>2
<1> QED BY <1>1, <1>2, <1>3, <1>4 DEF u
LEMMA SetOfRemoveAt ==
  ASSUME NEW S, NEW s \in Seq(S), NEW i \in 1..Len(s)
  PROVE  RemoveAt(s, i) \in Seq(S) /\ ToSet(s) \subseteq ToSet(RemoveAt(s, i)) \cup {s[i]}
<1> DEFINE a == SubSeq(s, 1, i - 1)
           b == SubSeq(s, i + 1, Len(s))
<1>1. Len(s) \in Nat /\ \A j \in 1..Len(s) : s[j] \in S
  BY ElementOfSeq
<1>2. /\ a \in Seq(S) /\ Len(a) = i - 1 /\ \A j \in 1..(i - 1) : a[j] = s[j]
  <2>1. \A j \in 1..(i - 1) : s[j] \in S
    BY <1>1
  <2>2. /\ a \in Seq(S)
        /\ Len(a) = IF 1 <= i - 1 THEN (i - 1) - 1 + 1 ELSE 0
        /\ \A j \in 1..((i - 1) - 1 + 1) : a[j] = s[1 + j - 1]
    BY <1>1, <2>1, SubSeqProperties
  <2> HIDE DEF a
  <2>3. Len(a) = i - 1
    BY <1>1, <2>2
  <2>4. ASSUME NEW j \in 1..(i - 1) PROVE a[j] = s[j]
    <3>1. j \in 1..((i - 1) - 1 + 1) /\ 1 + j - 1 = j
      BY <1>1
    <3> QED BY <2>2, <3>1
  <2> QED BY <2>2, <2>3, <2>4
<1>3. /\ b \in Seq(S) /\ Len(b) = Len(s) - i /\ \A j \in 1..(Len(s) - i) : b[j] = s[i + j]
  <2>1. \A j \in (i + 1)..Len(s) : s[j] \in S
    BY <1>1
  <2>2. /\ b \in Seq(S)
        /\ Len(b) = IF i + 1 <= Len(s) THEN Len(s) - (i + 1) + 1 ELSE 0
        /\ \A j \in 1..(Len(s) - (i + 1) + 1) : b[j] = s[(i + 1) + j - 1]
    BY <1>1, <2>1, SubSeqProperties
  <2> HIDE DEF b
  <2>3. Len(b) = Len(s) - i
    BY <1>1, <2>2
  <2>4. ASSUME NEW j \in 1..(Len(s) - i) PROVE b[j] = s[i + j]
    <3>1. j \in 1..(Len(s) - (i + 1) + 1) /\ (i + 1) + j - 1 = i + j
      BY <1>1
    <3> QED BY <2>2, <3>1
  <2> QED BY <2>2, <2>3, <2>4
<1> HIDE DEF a, b
<1>4. a \o b \in Seq(S) /\ ToSet(a \o b) = ToSet(a) \cup ToSet(b)
  <2>1. a \in Seq(S) /\ b \in Seq(S)
    BY <1>2, <1>3
  <2> QED BY <2>1, SetOfConcat
<1>5. ASSUME NEW j \in 1..Len(s) PROVE s[j] \in ToSet(a) \cup ToSet(b) \cup {s[i]}
  <2>1. CASE j < i
    <3>1. j \in 1..Len(a) /\ a[j] = s[j]
      BY <1>1, <1>2, <2>1
    <3> QED BY <1>2, <3>1, SetOfSeq
  <2>2. CASE j = i
    BY <2>2
  <2>3. CASE j > i
    <3>1. j - i \in 1..Len(b) /\ i + (j - i) = j
      BY <1>1, <1>3, <2>3
    <3>2. b[j - i] = s[j]
      BY <1>3, <3>1
    <3> QED BY <1>3, <3>1, <3>2, SetOfSeq
  <2> QED BY <1>1, <2>1, <2>2, <2>3
<1>6. ToSet(s) \subseteq ToSet(a) \cup ToSet(b) \cup {s[i]}
  BY <1>5, SetOfSeq
<1> QED BY <1>4, <1>6 DEF RemoveAt, a, b

LEMMA SetOfTail ==
  ASSUME NEW S, NEW s \in Seq(S), s # << >>
  PROVE  Head(s) \in S /\ Tail(s) \in Seq(S) /\ ToSet(s) \subseteq {Head(s)} \cup ToSet(Tail(s))
<1> DEFINE t == Tail(s)
<1>1. /\ Head(s) \in S /\ t \in Seq(S) /\ Head(s) = s[1] /\ Len(t) = Len(s) - 1
      /\ Len(s) \in Nat \ {0} /\ \A i \in 1..Len(t) : t[i] = s[i + 1]
  BY HeadTailProperties
<1> HIDE DEF t
<1>2. ASSUME NEW i \in 1..Len(s) PROVE s[i] \in {Head(s)} \cup ToSet(t)
  <2>1. CASE i = 1
    BY <1>1, <2>1
  <2>2. CASE i # 1
    <3>1. i - 1 \in 1..Len(t) /\ (i - 1) + 1 = i
      BY <1>1, <2>2
    <3>2. t[i - 1] = s[i]
      BY <1>1, <3>1
    <3> QED BY <1>1, <3>1, <3>2, SetOfSeq
  <2> QED BY <2>1, <2>2
<1>3. ToSet(s) \subseteq {Head(s)} \cup ToSet(t)
  BY <1>2, SetOfSeq
<1> QED BY <1>1, <1>3 DEF t

LegacyKey(c) == IF c.apiKey = NoKey THEN {} ELSE {c.apiKey}

LEMMA KeysOfConfiguration ==
  ASSUME NEW c, IsConfiguration(c)
  PROVE  /\ ListAdminAPIKeys(c) \in Seq(Keys)
         /\ KeysOf(c) = LegacyKey(c) \cup ToSet(c.adminKeys)
<1> DEFINE a == IF c.apiKey = NoKey THEN << >> ELSE <<c.apiKey>>
           b == c.adminKeys
<1>1. a \in Seq(Keys) /\ b \in Seq(Keys)
  BY DEF IsConfiguration
<1>2. ToSet(a) = LegacyKey(c)
  <2>1. CASE c.apiKey = NoKey
    <3>1. Len(a) = 0
      BY <2>1
    <3>2. \A x : x \notin ToSet(a)
      <4> HIDE DEF a
      <4>1. 1..Len(a) = {}
        BY <3>1
      <4>2. \A x : x \in ToSet(a) <=> \E i \in 1..Len(a) : a[i] = x
        BY <1>1, SetOfSeq
      <4> QED BY <4>1, <4>2
    <3> QED BY <2>1, <3>2 DEF LegacyKey
  <2>2. CASE c.apiKey # NoKey
    <3>1. Len(a) = 1 /\ a[1] = c.apiKey
      BY <2>2
    <3>2. \A x : x \in ToSet(a) <=> x = c.apiKey
      <4> HIDE DEF a
      <4> QED BY <1>1, <3>1, SetOfSeq
    <3> QED BY <2>2, <3>2 DEF LegacyKey
  <2> QED BY <2>1, <2>2
<1> HIDE DEF a, b
<1>3. a \o b \in Seq(Keys) /\ ToSet(a \o b) = ToSet(a) \cup ToSet(b)
  BY <1>1, SetOfConcat
<1>4. ListAdminAPIKeys(c) = a \o b
  BY DEF ListAdminAPIKeys, a, b
<1> QED BY <1>2, <1>3, <1>4 DEF KeysOf, b

LEMMA KeyEdits ==
  ASSUME NEW c, IsConfiguration(c), NEW k \in Keys, NEW old
  PROVE  /\ \A d \in AddAdminAPIKey(c, k) : IsConfiguration(d) /\ KeysOf(c) \subseteq KeysOf(d)
         /\ \A d \in UpdateAdminAPIKey(c, old, k) \cup DeleteAdminAPIKey(c, old) :
              IsConfiguration(d) /\ KeysOf(c) \subseteq KeysOf(d) \cup {old}
<1> DEFINE s == c.adminKeys
<1>1. s \in Seq(Keys) /\ DOMAIN s = 1..Len(s) /\ k # NoKey
  BY AdminAssumption DEF IsConfiguration
<1>2. \A d : IsConfiguration(d) => KeysOf(d) = LegacyKey(d) \cup ToSet(d.adminKeys)
  BY KeysOfConfiguration
<1>3. ASSUME NEW d \in AddAdminAPIKey(c, k) PROVE IsConfiguration(d) /\ KeysOf(c) \subseteq KeysOf(d)
  <2>1. d = [c EXCEPT !.adminKeys = Append(s, k)]
    BY <1>3 DEF AddAdminAPIKey
  <2>2. Append(s, k) \in Seq(Keys) /\ ToSet(s) \subseteq ToSet(Append(s, k))
    BY <1>1, SetOfAppend
  <2>3. IsConfiguration(d) /\ d.apiKey = c.apiKey /\ d.adminKeys = Append(s, k)
    BY <2>1, <2>2, KeysSet
  <2> QED BY <1>2, <2>2, <2>3 DEF LegacyKey
<1>4. ASSUME NEW d \in UpdateAdminAPIKey(c, old, k)
      PROVE  IsConfiguration(d) /\ KeysOf(c) \subseteq KeysOf(d) \cup {old}
  <2>1. CASE c.apiKey = old
    <3>1. d = [c EXCEPT !.apiKey = k]
      BY <1>4, <2>1 DEF UpdateAdminAPIKey
    <3>2. IsConfiguration(d) /\ d.apiKey = k /\ d.adminKeys = s
      BY <1>1, <3>1, KeysSet, ZenonT(60)
    <3> QED BY <1>2, <2>1, <3>2 DEF LegacyKey
  <2>2. CASE c.apiKey # old
    <3>1. PICK i \in 1..Len(s) : s[i] = old /\ d = [c EXCEPT !.adminKeys = [s EXCEPT ![i] = k]]
      BY <1>1, <1>4, <2>2 DEF UpdateAdminAPIKey
    <3> DEFINE t == [s EXCEPT ![i] = k]
    <3>2. t \in Seq(Keys) /\ ToSet(s) \subseteq ToSet(t) \cup {s[i]} /\ d = [c EXCEPT !.adminKeys = t]
      BY <1>1, <3>1, SetOfReplace
    <3> HIDE DEF t
    <3>3. IsConfiguration(d) /\ d.apiKey = c.apiKey /\ d.adminKeys = t
      BY <3>2, KeysSet, ZenonT(60)
    <3> QED BY <1>2, <3>1, <3>2, <3>3 DEF LegacyKey
  <2> QED BY <2>1, <2>2
<1>5. ASSUME NEW d \in DeleteAdminAPIKey(c, old)
      PROVE  IsConfiguration(d) /\ KeysOf(c) \subseteq KeysOf(d) \cup {old}
  <2>1. CASE c.apiKey = old
    <3>1. s # << >> /\ d = [c EXCEPT !.apiKey = Head(s), !.adminKeys = Tail(s)]
      BY <1>5, <2>1 DEF DeleteAdminAPIKey
    <3>2. Head(s) \in Keys /\ Tail(s) \in Seq(Keys) /\ ToSet(s) \subseteq {Head(s)} \cup ToSet(Tail(s))
      BY <1>1, <3>1, SetOfTail
    <3>3. IsConfiguration(d) /\ d.apiKey = Head(s) /\ d.adminKeys = Tail(s) /\ Head(s) # NoKey
      <4> DEFINE x == Head(s)
                 t == Tail(s)
      <4>1. x \in Keys /\ t \in Seq(Keys) /\ d = [c EXCEPT !.apiKey = x, !.adminKeys = t] /\ x # NoKey
        BY <3>1, <3>2, AdminAssumption
      <4> HIDE DEF x, t
      <4>2. IsConfiguration(d) /\ d.apiKey = x /\ d.adminKeys = t
        BY <4>1 DEF IsConfiguration, ConfigFields
      <4> QED BY <4>1, <4>2 DEF x, t
    <3> QED BY <1>2, <2>1, <3>2, <3>3 DEF LegacyKey
  <2>2. CASE c.apiKey # old
    <3>1. PICK i \in 1..Len(s) : s[i] = old /\ d = [c EXCEPT !.adminKeys = RemoveAt(s, i)]
      BY <1>1, <1>5, <2>2 DEF DeleteAdminAPIKey
    <3>2. RemoveAt(s, i) \in Seq(Keys) /\ ToSet(s) \subseteq ToSet(RemoveAt(s, i)) \cup {s[i]}
      BY <1>1, SetOfRemoveAt
    <3>3. IsConfiguration(d) /\ d.apiKey = c.apiKey /\ d.adminKeys = RemoveAt(s, i)
      BY <3>1, <3>2, KeysSet
    <3> QED BY <1>2, <3>1, <3>2, <3>3 DEF LegacyKey
  <2> QED BY <2>1, <2>2
<1> QED BY <1>3, <1>4, <1>5
-----------------------------------------------------------------------------
(* The invariant: the configuration in memory is always one that validate  *)
(* accepts, whatever the file holds.                                       *)

AdminRecord == [op : {"none", "key", "delete", "settings"}, key : Keys \cup {NoKey},
                to : Keys \cup {NoKey}, settings : Settings]
AdminRequest == {q \in AdminRecord : q.op = "key" => q.to \in Keys}

AdminKept ==
    /\ AdminTypeOK /\ validate(config)
    /\ request \in [Admins -> AdminRequest]

(* The action of KeyActsOnWhatWasRead.                                     *)
KeyStep ==
    KeysOf(config) # KeysOf(config') /\ file' # file =>
      \A k \in KeysOf(config) \ KeysOf(config') :
        \E h \in Admins :
          /\ request[h].op \in {"key", "delete"} /\ request[h].key = k
          /\ request'[h] = Resting

LEMMA EngineTyped ==
  ASSUME NEW c, IsConfiguration(c), NEW r \in SUBSET RegistryNames
  PROVE  /\ Given(c, r).registry \subseteq RegistryNames /\ Given(c, r).proxy \in BOOLEAN
         /\ EnabledProviders(c) \subseteq RegistryNames
<1>1. c.settings["proxy"] \in BOOLEAN /\ EnabledProviders(c) \subseteq Names
  BY DEF IsConfiguration, IsMap, EnabledProviders, Settings, Fields
<1> QED BY <1>1 DEF Given, RegistryNames

LEMMA Commits ==
  ASSUME AdminKept, NEW c, IsConfiguration(c),
         UpdateWithReconfigure(c) \/ TransactionalUpdate(c) \/ Update(c),
         active' \subseteq Conns, request' \in [Admins -> AdminRequest]
  PROVE  AdminKept'
<1>1. config' = c /\ validate(c) /\ (file' = c \/ file' = file)
  BY DEF UpdateWithReconfigure, TransactionalUpdate, Update
<1>2. engine'.registry \subseteq RegistryNames /\ engine'.proxy \in BOOLEAN
  <2>1. CASE UNCHANGED engine
    BY <2>1 DEF AdminKept, AdminTypeOK
  <2>2. CASE engine' = Given(c, EnabledProviders(c))
    <3>1. EnabledProviders(c) \in SUBSET RegistryNames
      BY EngineTyped DEF RegistryNames
    <3> QED BY <2>2, <3>1, EngineTyped
  <2> QED BY <2>1, <2>2 DEF UpdateWithReconfigure, TransactionalUpdate, Update,
         reconfigureFromConfig, BuildRegistryFromConfig
<1>3. request' \in [Admins -> AdminRecord]
  BY DEF AdminRequest
<1> QED BY <1>1, <1>2, <1>3 DEF AdminKept, AdminTypeOK, AdminRecord

LEMMA KeysStay ==
  ASSUME NEW c, NEW d, SameKeys(c, d) PROVE KeysOf(d) = KeysOf(c)
BY DEF SameKeys, KeysOf, ListAdminAPIKeys

(* An edit that leaves the keys as they are.                               *)
KeptKeys(c) == IsConfiguration(c) /\ SameKeys(config, c)
EntryEdit ==
    \E c : /\ KeptKeys(c)
           /\ Edit(c) \/ (UpdateAndPersist(c) /\ UNCHANGED <<active, request, area>>)

LEMMA EditKeeps == ASSUME AdminKept, EntryEdit PROVE AdminKept' /\ KeyStep
<1> PICK c : /\ IsConfiguration(c) /\ SameKeys(config, c)
             /\ Edit(c) \/ (UpdateAndPersist(c) /\ UNCHANGED <<active, request, area>>)
  BY DEF EntryEdit, KeptKeys
<1>1. (UpdateWithReconfigure(c) \/ TransactionalUpdate(c)) /\ UNCHANGED <<active, request, area>>
  BY DEF Edit, UpdateAndPersist
<1>2. UNCHANGED <<active, request>> /\ config' = c
  BY DEF Edit, UpdateWithReconfigure, UpdateAndPersist, TransactionalUpdate
<1>3. AdminKept'
  BY <1>1, <1>2, Commits DEF AdminKept, AdminTypeOK, AdminRequest
<1>4. KeysOf(config') = KeysOf(config)
  BY <1>2, KeysStay
<1> QED BY <1>3, <1>4 DEF KeyStep

LEMMA ProviderStep == ASSUME AdminKept, ProviderRequests PROVE EntryEdit
<1>1. IsConfiguration(config) /\ Offered \subseteq Provider
  BY AdminAssumption DEF AdminKept, AdminTypeOK
<1>2. \A n \in Names, old \in Names, p \in Provider :
        \A d \in AddProvider(config, n, p) \cup UpdateProvider(config, old, n, p)
                  \cup DeleteProvider(config, n) : KeptKeys(d)
  BY <1>1, EntryEdits DEF KeptKeys
<1>3. \A old \in Names, p \in Provider : KeepSecret(old, p) \in Provider
  BY <1>1 DEF KeepSecret, Provider, IsConfiguration, IsMap
<1>4. PICK n \in Names :
        \/ \E p \in Offered : handleProvidersCreateNamed(n, p)
        \/ \E old \in Names, p \in Offered : handleProvidersUpdateNamed(old, n, p)
        \/ handleProvidersDeleteNamed(n)
  BY DEF ProviderRequests
<1>5. CASE \E p \in Offered : handleProvidersCreateNamed(n, p)
  <2>1. PICK p \in Offered : handleProvidersCreateNamed(n, p)
    BY <1>5
  <2>2. PICK c \in AddProvider(config, n, p) : Edit(c)
    BY <2>1 DEF handleProvidersCreateNamed
  <2>3. KeptKeys(c)
    BY <1>1, <1>2
  <2> QED BY <2>2, <2>3 DEF EntryEdit
<1>6. CASE \E old \in Names, p \in Offered : handleProvidersUpdateNamed(old, n, p)
  <2>1. PICK old \in Names, p \in Offered : handleProvidersUpdateNamed(old, n, p)
    BY <1>6
  <2>2. PICK c \in UpdateProvider(config, old, n, KeepSecret(old, p)) : Edit(c)
    BY <2>1 DEF handleProvidersUpdateNamed
  <2>3. KeptKeys(c)
    <3>1. KeepSecret(old, p) \in Provider
      BY <1>1, <1>3
    <3> QED BY <1>2, <3>1
  <2> QED BY <2>2, <2>3 DEF EntryEdit
<1>7. CASE handleProvidersDeleteNamed(n)
  <2>1. PICK c \in DeleteProvider(config, n) : Edit(c)
    BY <1>7 DEF handleProvidersDeleteNamed
  <2>2. KeptKeys(c)
    <3>1. PICK p : p \in Provider
      <4>1. n \in DOMAIN config.providers
        BY DEF DeleteProvider, Removed
      <4> QED BY <1>1, <4>1 DEF IsConfiguration, IsMap
    <3> QED BY <1>2, <3>1
  <2> QED BY <2>1, <2>2 DEF EntryEdit
<1> QED BY <1>4, <1>5, <1>6, <1>7

LEMMA ComboStep == ASSUME AdminKept, ComboRequests PROVE EntryEdit
<1>1. IsConfiguration(config)
  BY DEF AdminKept, AdminTypeOK
<1>2. \A r \in RouteNames, t \in Seq(Names) :
        \A d \in AddRoute(config, r, t) \cup UpdateRoute(config, r, t) \cup DeleteRoute(config, r) : KeptKeys(d)
  BY <1>1, EntryEdits DEF KeptKeys
<1>3. Routes(Names) \subseteq Seq(Names)
  <2>1. \A m \in Names, n \in Names : <<n>> \in Seq(Names) /\ <<m, n>> \in Seq(Names)
    OBVIOUS
  <2>2. ASSUME NEW t \in Routes(Names) PROVE t \in Seq(Names)
    <3>1. (\E n \in Names : t = <<n>>) \/ (\E m \in Names, n \in Names : t = <<m, n>>)
      BY DEF Routes
    <3> QED BY <2>1, <3>1
  <2> QED BY <2>2
<1>4. << >> \in Seq(Names)
  OBVIOUS
<1> QED BY <1>2, <1>3, <1>4
        DEF ComboRequests, handleCombosCreate, handleCombosUpdate, handleCombosDelete, EntryEdit

LEMMA ModelStep == ASSUME AdminKept, ModelRequests PROVE EntryEdit
<1>1. IsConfiguration(config)
  BY DEF AdminKept, AdminTypeOK
<1>2. \A a \in AliasNames, n \in Names :
        \A d \in AddModelAlias(config, a, n) \cup UpdateModelAlias(config, a, n)
                  \cup DeleteModelAlias(config, a) \cup {PutAlias(a, n)} : KeptKeys(d)
  BY <1>1, EntryEdits DEF KeptKeys, PutAlias
<1>3. \A m \in ModelNames, n \in Names :
        \A d \in AddCustomModel(config, m, n) \cup UpdateCustomModel(config, m, n)
                  \cup DeleteCustomModel(config, m) : KeptKeys(d)
  BY <1>1, EntryEdits DEF KeptKeys
<1>4. ASSUME NEW a \in AliasNames, NEW n \in Names,
             \/ handleModelAliasesCreate(a, n) \/ handleModelAliasesUpdate(a, n)
             \/ handleModelAliasesPut(a, n) \/ handleDashboardModelAliasPut(a, n)
      PROVE  EntryEdit
  BY <1>2, <1>4 DEF handleModelAliasesCreate, handleModelAliasesUpdate, handleModelAliasesPut,
     handleDashboardModelAliasPut, EntryEdit
<1>5. ASSUME NEW m \in ModelNames, NEW n \in Names,
             handleModelsCustomCreate(m, n) \/ handleModelsCustomUpdate(m, n)
      PROVE  EntryEdit
  BY <1>3, <1>5 DEF handleModelsCustomCreate, handleModelsCustomUpdate, EntryEdit
<1>6. ASSUME NEW a \in AliasNames, handleModelAliasesDelete(a) PROVE EntryEdit
  <2>1. PICK c \in DeleteModelAlias(config, a) : Edit(c)
    BY <1>6 DEF handleModelAliasesDelete
  <2>2. PICK n : n \in Names
    <3>1. a \in DOMAIN config.aliases
      BY DEF DeleteModelAlias, Removed
    <3> QED BY <1>1, <3>1 DEF IsConfiguration, IsMap
  <2>3. KeptKeys(c)
    BY <1>2, <2>2
  <2> QED BY <2>1, <2>3 DEF EntryEdit
<1>7. ASSUME NEW m \in ModelNames, handleModelsCustomDelete(m) PROVE EntryEdit
  <2>1. PICK c \in DeleteCustomModel(config, m) : Edit(c)
    BY <1>7 DEF handleModelsCustomDelete
  <2>2. PICK n : n \in Names
    <3>1. m \in DOMAIN config.models
      BY DEF DeleteCustomModel, Removed
    <3> QED BY <1>1, <3>1 DEF IsConfiguration, IsMap
  <2>3. KeptKeys(c)
    BY <1>3, <2>2
  <2> QED BY <2>1, <2>3 DEF EntryEdit
<1> QED BY <1>4, <1>5, <1>6, <1>7 DEF ModelRequests
(* The requests of two steps: what a handler remembers.                    *)
LEMMA RequestSet ==
  ASSUME NEW h \in Admins, NEW q \in AdminRequest, request \in [Admins -> AdminRequest],
         request' = [request EXCEPT ![h] = q]
  PROVE  request' \in [Admins -> AdminRequest] /\ request'[h] = q
OBVIOUS

LEMMA RestingTyped == Resting \in AdminRequest
BY DEF Resting, AdminRequest, AdminRecord, Settings

(* A step that only reads, or changes the database or the file.            *)
LEMMA ReadingKeeps ==
  ASSUME AdminKept, UNCHANGED <<config, engine>>, active' \subseteq Conns,
         IsConfiguration(file'), request' \in [Admins -> AdminRequest]
  PROVE  AdminKept' /\ KeyStep
<1>1. request' \in [Admins -> AdminRecord]
  BY DEF AdminRequest
<1> QED BY <1>1 DEF AdminKept, AdminTypeOK, AdminRecord, KeyStep

LEMMA SettingsStep == ASSUME AdminKept, SettingsRequests PROVE AdminKept' /\ KeyStep
<1>1. /\ IsConfiguration(config) /\ IsConfiguration(file) /\ request \in [Admins -> AdminRequest]
      /\ config.settings \in Settings /\ active \subseteq Conns
  BY DEF AdminKept, AdminTypeOK, IsConfiguration, AdminRequest
<1>2. \A s \in Settings : \A d \in UpdateSettings(config, s) : KeptKeys(d)
  BY <1>1, EntryEdits DEF KeptKeys
<1>3. ASSUME NEW s \in Settings, handleSettingsPut(s) PROVE EntryEdit
  BY <1>2, <1>3 DEF handleSettingsPut, EntryEdit
<1>4. ASSUME NEW on \in BOOLEAN, handleLocaleSet(on) PROVE EntryEdit
  <2> DEFINE s == [config.settings EXCEPT !["locale"] = on]
             c == [config EXCEPT !.settings = s]
  <2>1. s \in Settings
    BY <1>1 DEF Settings
  <2>2. c \in UpdateSettings(config, s)
    BY DEF UpdateSettings
  <2>3. KeptKeys(c)
    BY <1>2, <2>1, <2>2
  <2>4. [config EXCEPT !.settings["locale"] = on] = c
    OBVIOUS
  <2> QED BY <1>4, <2>3, <2>4 DEF handleLocaleSet, EntryEdit
<1>5. ASSUME NEW h \in Admins, NEW f \in Fields, NEW on \in BOOLEAN, handleSettingsPatch(h, f, on)
      PROVE  AdminKept' /\ KeyStep
  <2> DEFINE s == [config.settings EXCEPT ![f] = on]
             q == [request[h] EXCEPT !.op = "settings", !.settings = s]
  <2>1. s \in Settings
    BY <1>1 DEF Settings
  <2>2. request[h] \in AdminRequest
    BY <1>1
  <2>3. q \in AdminRequest
    <3> HIDE DEF s
    <3> QED BY <2>1, <2>2 DEF AdminRequest, AdminRecord
  <2>4. request' = [request EXCEPT ![h] = q]
    BY <1>1, <1>5, <2>2 DEF handleSettingsPatch, AdminRequest, AdminRecord
  <2>5. request' \in [Admins -> AdminRequest]
    <3> HIDE DEF q
    <3> QED BY <1>1, <2>3, <2>4, RequestSet
  <2> QED BY <1>1, <1>5, <2>5, ReadingKeeps DEF handleSettingsPatch
<1>6. ASSUME NEW h \in Admins, WriteSettings(h) PROVE AdminKept' /\ KeyStep
  <2>1. request' \in [Admins -> AdminRequest]
    BY <1>1, <1>6, RequestSet, RestingTyped DEF WriteSettings
  <2>2. request[h].settings \in Settings /\ active' = active
    BY <1>1, <1>6 DEF AdminRequest, AdminRecord, WriteSettings
  <2>3. PICK c \in UpdateSettings(config, request[h].settings) :
          UpdateWithReconfigure(c) \/ UNCHANGED <<config, file, engine>>
    BY <1>6 DEF WriteSettings
  <2>4. KeptKeys(c)
    BY <1>2, <2>2
  <2>5. CASE UpdateWithReconfigure(c)
    <3>1. AdminKept'
      BY <1>1, <2>1, <2>2, <2>4, <2>5, Commits DEF KeptKeys
    <3>2. KeysOf(config') = KeysOf(config)
      BY <2>4, <2>5, KeysStay DEF KeptKeys, UpdateWithReconfigure
    <3> QED BY <3>1, <3>2 DEF KeyStep
  <2>6. CASE UNCHANGED <<config, file, engine>>
    BY <1>1, <2>1, <2>2, <2>6, ReadingKeeps
  <2> QED BY <2>3, <2>5, <2>6
<1> QED BY <1>3, <1>4, <1>5, <1>6, EditKeeps DEF SettingsRequests

LEMMA KeyRequestStep == ASSUME AdminKept, KeyRequests PROVE AdminKept' /\ KeyStep
<1>1. /\ IsConfiguration(config) /\ IsConfiguration(file) /\ request \in [Admins -> AdminRequest]
      /\ active \subseteq Conns
  BY DEF AdminKept, AdminTypeOK, AdminRequest
<1>2. ASSUME NEW k \in Keys, handleKeysCreate(k) PROVE AdminKept' /\ KeyStep
  <2>1. PICK c \in AddAdminAPIKey(config, k) : TransactionalUpdate(c)
    BY <1>2 DEF handleKeysCreate
  <2>2. IsConfiguration(c) /\ KeysOf(config) \subseteq KeysOf(c)
    BY <1>1, KeyEdits
  <2>3. UNCHANGED <<active, request>> /\ config' = c
    BY <1>2, <2>1 DEF handleKeysCreate, TransactionalUpdate
  <2>4. AdminKept'
    BY <1>1, <2>1, <2>2, <2>3, Commits
  <2> QED BY <2>2, <2>3, <2>4 DEF KeyStep
<1>3. ASSUME NEW h \in Admins, NEW op \in {"key", "delete"}, NEW i, NEW to \in Keys \cup {NoKey},
             op = "key" => to \in Keys, ReadKey(h, op, i, to)
      PROVE  AdminKept' /\ KeyStep
  <2> DEFINE k == ListAdminAPIKeys(config)[i]
             q == [request[h] EXCEPT !.op = op, !.to = to, !.key = k]
  <2>1. k \in Keys
    <3>1. ListAdminAPIKeys(config) \in Seq(Keys) /\ i \in DOMAIN ListAdminAPIKeys(config)
      BY <1>1, <1>3, KeysOfConfiguration DEF ReadKey
    <3> QED BY <3>1
  <2>2. request[h] \in AdminRequest
    BY <1>1
  <2> HIDE DEF k
  <2>3. q \in AdminRequest
    BY <1>3, <2>1, <2>2 DEF AdminRequest, AdminRecord
  <2>4. request' = [request EXCEPT ![h] = q]
    BY <1>1, <1>3, <2>2 DEF ReadKey, AdminRequest, AdminRecord, k
  <2>5. request' \in [Admins -> AdminRequest]
    <3> HIDE DEF q
    <3> QED BY <1>1, <2>3, <2>4, RequestSet
  <2> QED BY <1>1, <1>3, <2>5, ReadingKeeps DEF ReadKey
<1>4. ASSUME NEW h \in Admins, WriteKeys(h) PROVE AdminKept' /\ KeyStep
  <2>1. request' \in [Admins -> AdminRequest] /\ request'[h] = Resting
    BY <1>1, <1>4, RequestSet, RestingTyped DEF WriteKeys
  <2>2. /\ request[h] \in AdminRequest /\ active' = active /\ request[h].op \in {"key", "delete"}
    BY <1>1, <1>4 DEF WriteKeys
  <2>3. CASE UNCHANGED <<config, file, engine>>
    BY <1>1, <2>1, <2>2, <2>3, ReadingKeeps
  <2>4. CASE \E c \in EditedKeys(h) : TransactionalUpdate(c)
    <3>1. PICK c \in EditedKeys(h) : TransactionalUpdate(c)
      BY <2>4
    <3> DEFINE old == request[h].key
    <3>2. IsConfiguration(c) /\ KeysOf(config) \subseteq KeysOf(c) \cup {old}
      <4>1. CASE request[h].op = "key"
        <5>1. request[h].to \in Keys /\ c \in UpdateAdminAPIKey(config, old, request[h].to)
          BY <2>2, <3>1, <4>1 DEF AdminRequest, EditedKeys
        <5> QED BY <1>1, <5>1, KeyEdits
      <4>2. CASE request[h].op # "key"
        <5>1. c \in DeleteAdminAPIKey(config, old)
          BY <3>1, <4>2 DEF EditedKeys
        <5>2. PICK k : k \in Keys
          BY AdminAssumption
        <5> QED BY <1>1, <5>1, <5>2, KeyEdits
      <4> QED BY <4>1, <4>2
    <3>3. AdminKept'
      BY <1>1, <2>1, <2>2, <3>1, <3>2, Commits
    <3>4. KeysOf(config') = KeysOf(c)
      BY <3>1 DEF TransactionalUpdate
    <3> QED BY <2>1, <2>2, <3>2, <3>3, <3>4 DEF KeyStep
  <2> QED BY <1>4, <2>3, <2>4 DEF WriteKeys
<1> QED BY <1>2, <1>3, <1>4 DEF KeyRequests, handleKeysUpdate, handleKeysDelete
LEMMA ConnectionStep == ASSUME AdminKept, ConnectionRequests PROVE AdminKept' /\ KeyStep
<1>1. /\ IsConfiguration(config) /\ IsConfiguration(file)
      /\ request \in [Admins -> AdminRequest] /\ active \subseteq Conns
  BY DEF AdminKept, AdminTypeOK
<1>2. ASSUME NEW i \in Conns, CreateConnection(i) \/ DeleteConnection(i) PROVE AdminKept' /\ KeyStep
  BY <1>1, <1>2, ReadingKeeps DEF CreateConnection, DeleteConnection
<1> QED BY <1>2 DEF ConnectionRequests

LEMMA ElsewhereStep == ASSUME AdminKept, Elsewhere PROVE AdminKept' /\ KeyStep
<1>1. /\ IsConfiguration(config) /\ IsConfiguration(file) /\ request \in [Admins -> AdminRequest]
      /\ active \subseteq Conns /\ \A c \in Files : IsConfiguration(c)
  BY AdminAssumption DEF AdminKept, AdminTypeOK
<1>2. ASSUME NEW c \in Files, handleConfigImport(c) PROVE AdminKept' /\ KeyStep
  <2>1. Update(c) /\ UNCHANGED <<active, request, area>> /\ IsConfiguration(c)
    BY <1>1, <1>2 DEF handleConfigImport
  <2>2. AdminKept'
    BY <1>1, <2>1, Commits
  <2> QED BY <2>1, <2>2 DEF KeyStep, Update
<1>3. ASSUME NEW c \in Files, EditFile(c) PROVE AdminKept' /\ KeyStep
  BY <1>1, <1>3, ReadingKeeps DEF EditFile
<1>4. ASSUME Reload \/ RunWithReload PROVE AdminKept' /\ KeyStep
  <2> DEFINE c == applyDefaults(file)
  <2>1. /\ IsConfiguration(c) /\ validate(c) /\ config' = c /\ Hydrate(c)
        /\ file' = file /\ active' = active
    BY <1>1, <1>4, DefaultsSet DEF Reload, RunWithReload
  <2>2. request' \in [Admins -> AdminRequest]
    BY <1>1, <1>4, RestingTyped DEF Reload, RunWithReload
  <2> HIDE DEF c
  <2>3. BuildHydratedRegistry(c) \in SUBSET RegistryNames
    <3>1. EnabledProviders(c) \subseteq RegistryNames
      BY <2>1, EngineTyped
    <3> QED BY <1>1, <3>1 DEF BuildHydratedRegistry, RegistryNames
  <2>4. engine'.registry \subseteq RegistryNames /\ engine'.proxy \in BOOLEAN
    BY <2>1, <2>3, EngineTyped DEF Hydrate
  <2>5. request' \in [Admins -> AdminRecord]
    BY <2>2 DEF AdminRequest
  <2>6. AdminKept'
    BY <1>1, <2>1, <2>2, <2>4, <2>5 DEF AdminKept, AdminTypeOK, AdminRecord
  <2> QED BY <2>1, <2>6 DEF KeyStep
<1> QED BY <1>2, <1>3, <1>4 DEF Elsewhere

LEMMA AdminNextKeeps == ASSUME AdminKept, [AdminNext]_adminVars PROVE AdminKept' /\ KeyStep
<1>1. CASE AdminNext
  BY <1>1, ProviderStep, ComboStep, ModelStep, EditKeeps, SettingsStep, KeyRequestStep, ConnectionStep,
     ElsewhereStep
     DEF AdminNext
<1>2. CASE UNCHANGED adminVars
  BY <1>2, ReadingKeeps DEF adminVars, AdminKept, AdminTypeOK
<1> QED BY <1>1, <1>2

LEMMA AdminInitKept == ASSUME AdminInit PROVE AdminKept
<1>1. /\ config.providers = [n \in {} |-> {}] /\ config.routes = [r \in {} |-> << >>]
      /\ config.aliases = [a \in {} |-> ""] /\ config.models = [m \in {} |-> ""]
      /\ config.complete = TRUE /\ config.settings = [f \in Fields |-> FALSE]
      /\ config.apiKey = (CHOOSE k \in Keys : TRUE) /\ config.adminKeys = << >>
      /\ config = [f \in ConfigFields |-> config[f]] /\ file = config
  <2> DEFINE P == [n \in {} |-> {}]
             R == [r \in {} |-> << >>]
             A == [a \in {} |-> ""]
             M == [m \in {} |-> ""]
             F == [f \in Fields |-> FALSE]
             k == CHOOSE k \in Keys : TRUE
             e == << >>
  <2>1. /\ config = [complete |-> TRUE, providers |-> P, routes |-> R, aliases |-> A, models |-> M,
                     settings |-> F, apiKey |-> k, adminKeys |-> e]
        /\ file = config
    BY DEF AdminInit
  <2> HIDE DEF P, R, A, M, F, k, e
  <2>2. config = [f \in ConfigFields |-> config[f]]
    BY <2>1 DEF ConfigFields
  <2>3. /\ config.providers = P /\ config.routes = R /\ config.aliases = A /\ config.models = M
        /\ config.complete = TRUE /\ config.settings = F /\ config.apiKey = k
        /\ config.adminKeys = e
    BY <2>1
  <2> QED BY <2>1, <2>2, <2>3 DEF P, R, A, M, F, k, e
<1>2. config.apiKey \in Keys /\ config.apiKey # NoKey
  BY <1>1, AdminAssumption
<1>3. IsConfiguration(config)
  <2>1. /\ IsMap(config.providers, Names, Provider) /\ IsMap(config.routes, RouteNames, Seq(Names))
        /\ IsMap(config.aliases, AliasNames, Names) /\ IsMap(config.models, ModelNames, Names)
    BY <1>1 DEF IsMap
  <2>2. config.settings \in Settings /\ config.adminKeys \in Seq(Keys)
    BY <1>1 DEF Settings
  <2> QED BY <1>1, <1>2, <2>1, <2>2 DEF IsConfiguration
<1>4. validate(config)
  <2> DEFINE s == ListAdminAPIKeys(config)
  <2>1. s = <<config.apiKey>>
    <3>1. <<config.apiKey>> \in Seq(Keys)
      BY <1>2
    <3>2. s = <<config.apiKey>> \o << >>
      BY <1>1, <1>2 DEF ListAdminAPIKeys
    <3> QED BY <3>1, <3>2, ConcatEmptySeq
  <2>2. s # << >> /\ IsInjective(s)
    BY <2>1 DEF IsInjective
  <2>3. NoKey \notin ToSet(config.adminKeys)
    BY <1>1 DEF ToSet
  <2>4. ValidServer(config)
    BY <1>1, <2>2, <2>3 DEF ValidServer
  <2>5. ValidProviders(config) /\ ValidRoutes(config) /\ ValidAliases(config) /\ ValidModels(config)
    BY <1>1 DEF ValidProviders, ValidRoutes, ValidAliases, ValidModels
  <2> QED BY <2>4, <2>5 DEF validate
<1>5. engine.registry = {} /\ engine.proxy \in BOOLEAN
  BY <1>3 DEF AdminInit, Given, IsConfiguration, Settings, Fields
<1>6. request \in [Admins -> AdminRequest] /\ request \in [Admins -> AdminRecord]
  BY RestingTyped DEF AdminInit, AdminRequest
<1> QED BY <1>1, <1>3, <1>4, <1>5, <1>6 DEF AdminInit, AdminKept, AdminTypeOK, AdminRecord

LEMMA AdminInvariant == AdminSpec => []AdminKept
<1>1. AdminKept /\ [AdminNext]_adminVars => AdminKept'
  BY AdminNextKeeps
<1> QED BY <1>1, AdminInitKept, PTL DEF AdminSpec

(* Every reachable state of the configuration's editors is well typed.     *)
THEOREM AdminTypeCorrect == AdminSpec => []AdminTypeOK
<1>1. AdminKept => AdminTypeOK
  BY DEF AdminKept
<1> QED BY <1>1, AdminInvariant, PTL

(* Whatever is edited, renamed, imported or reloaded in whatever order:    *)
(* the configuration names only providers it has, and has a key to log in  *)
(* with (validate in config.go, the edits of runtime.go).                  *)
THEOREM ConfigurationResolves == AdminSpec => []ReferencesResolve
<1>1. AdminKept => ReferencesResolve
  <2> SUFFICES ASSUME AdminKept PROVE ReferencesResolve
    OBVIOUS
  <2>1. IsConfiguration(config) /\ validate(config)
    BY DEF AdminKept, AdminTypeOK
  <2>2. KeysOf(config) # {}
    <3> DEFINE s == ListAdminAPIKeys(config)
    <3>1. s \in Seq(Keys) /\ s # << >>
      BY <2>1, KeysOfConfiguration DEF validate, ValidServer
    <3> HIDE DEF s
    <3>2. Len(s) \in Nat /\ Len(s) # 0
      BY <3>1, EmptySeq
    <3>3. 1 \in 1..Len(s)
      BY <3>2
    <3>4. s[1] \in ToSet(s)
      BY <3>1, <3>3, SetOfSeq
    <3> QED BY <3>4 DEF KeysOf, s
  <2> QED BY <2>1, <2>2 DEF ReferencesResolve, validate, ValidRoutes, ValidAliases, ValidModels
<1> QED BY <1>1, AdminInvariant, PTL

(* However requests of two steps overlap: a key that disappears by one of  *)
(* them is the key that it read (server.go, handleKeysUpdate and           *)
(* handleKeysDelete; runtime.go, UpdateAdminAPIKey and DeleteAdminAPIKey). *)
THEOREM KeysGoAsRead == AdminSpec => KeyActsOnWhatWasRead
<1>1. AdminKept /\ [AdminNext]_adminVars =>
        [KeysOf(config) # KeysOf(config') /\ file' # file =>
           \A k \in KeysOf(config) \ KeysOf(config') :
             \E h \in Admins :
               /\ request[h].op \in {"key", "delete"} /\ request[h].key = k
               /\ request'[h] = Resting]_adminVars
  BY AdminNextKeeps DEF KeyStep
<1> QED BY <1>1, AdminInvariant, PTL DEF AdminSpec, KeyActsOnWhatWasRead

-----------------------------------------------------------------------------
(* The connections and logins: a token about to be saved is the newest.    *)

Owners == OAuthProviders \cup Nodes

(* The account or node of a request about one is there, and a login is one that    *)
(* the provider as knows of.                                               *)
JobOK(j, as) ==
    /\ j.pc \in {"node", "alone", "insert", "write", "validate", "post", "save", "extra"} =>
         j.row.provider \in Owners
    /\ j.pc \in {"post", "save"} /\ j.id = Default => j.row.provider \in OAuthProviders
    /\ j.pc \in {"redeem", "extra", "import"} => j.via \in OAuthProviders
    /\ j.pc = "import" => j.via = "kiro"
    /\ j.pc = "rewrite" => j.row.url \in Urls
    /\ j.pc = "redeem" =>
         /\ j.attempt \in DOMAIN as /\ as[j.attempt].provider = j.via
         /\ as[j.attempt].kind = "social" => j.verifier

(* A login is refused only as ChallengeIsAnswered allows; a device login    *)
(* began with the challenge that the poll will answer, a social one with a  *)
(* challenge.                                                              *)
LoginOK(login) ==
    /\ login.state = "refused" =>
         IF login.given THEN login.kind = "code" /\ ~login.challenge ELSE login.challenge
    /\ login.kind = "device" => login.challenge = DeviceSendsChallenge(login.provider)
    /\ login.kind = "social" => login.challenge
LoginsKept == \A a \in DOMAIN attempts : LoginOK(attempts[a])

(* A refresh token anywhere was issued; and one that is about to be saved, *)
(* of a provider that rotates them, is the newest and held by nobody else. *)
Issued(t) == t = NoToken \/ (t.grant \in 1..Len(granted) /\ t.gen <= live[t.grant])
OlderToken(s, t) == s.grant = t.grant => s.gen < t.gen
Unsaved(h) == job[h].pc = "save" /\ job[h].via \in Rotating
OnlyNewest(h) ==
    LET t == job[h].row.refresh IN
    /\ t # NoToken /\ granted[t.grant] = job[h].via /\ t.gen = live[t.grant]
    /\ \A i \in DOMAIN rows : OlderToken(rows[i].refresh, t)
    /\ \A k \in DOMAIN tokens : OlderToken(tokens[k].refresh, t)
    /\ \A g \in Handlers \ {h} : OlderToken(job[g].row.refresh, t)
RefreshKept ==
    /\ \A i \in DOMAIN rows : Issued(rows[i].refresh)
    /\ \A k \in DOMAIN tokens : Issued(tokens[k].refresh)
    /\ \A h \in Handlers : Issued(job[h].row.refresh)
    /\ \A h \in Handlers : Unsaved(h) => OnlyNewest(h)

CredKept ==
    /\ CredTypeOK
    /\ \A h \in Handlers : JobOK(job[h], attempts)
    /\ LoginsKept
    /\ RefreshKept

-----------------------------------------------------------------------------
(* Steps that make no token newer. *)

(* Where a handler may have a token from: the tables, or the provider,     *)
(* which begins a new authorization.  M: the handlers that move.           *)
Copied(t, M) ==
    \/ t = NoToken
    \/ \E i \in DOMAIN rows : t = rows[i].refresh
    \/ \E k \in DOMAIN tokens : t = tokens[k].refresh
    \/ \E g \in M : t = job[g].row.refresh
    \/ Len(granted') = NextGrant /\ t = FirstToken(NextGrant)

GrantsGrow ==
    /\ live' = live
    /\ granted' = granted \/ \E p \in OAuthProviders : Authorize(p)

LEMMA GrantsStay ==
  ASSUME CredKept, GrantsGrow
  PROVE  /\ granted \in Seq(OAuthProviders) /\ granted' \in Seq(OAuthProviders)
         /\ Len(granted') <= MaxGrants /\ Len(granted) \in Nat
         /\ Len(granted') \in {Len(granted), Len(granted) + 1}
         /\ \A i \in 1..Len(granted) : granted'[i] = granted[i]
<1>1. granted \in Seq(OAuthProviders) /\ Len(granted) <= MaxGrants /\ Len(granted) \in Nat
  <2>1. granted \in Seq(OAuthProviders) /\ Len(granted) <= MaxGrants
    BY DEF CredKept, CredTypeOK, TokensTypeOK
  <2> QED BY <2>1, LenProperties
<1>2. CASE granted' = granted
  BY <1>1, <1>2
<1>3. ASSUME NEW p \in OAuthProviders, Authorize(p)
      PROVE  /\ granted' \in Seq(OAuthProviders) /\ Len(granted') = Len(granted) + 1
             /\ Len(granted') <= MaxGrants
             /\ \A i \in 1..Len(granted) : granted'[i] = granted[i]
  <2>1. granted' = Append(granted, p) /\ Len(granted) < MaxGrants
    BY <1>3 DEF Authorize
  <2>2. /\ granted' \in Seq(OAuthProviders) /\ Len(granted') = Len(granted) + 1
        /\ \A i \in 1..Len(granted) : granted'[i] = granted[i]
    BY <1>1, <2>1, AppendProperties
  <2>3. MaxGrants \in Nat
    BY TableAssumption
  <2> QED BY <1>1, <2>1, <2>2, <2>3
<1> QED BY <1>1, <1>2, <1>3 DEF GrantsGrow

LEMMA CopiesAreIssued ==
  ASSUME CredKept, GrantsGrow, NEW M \in SUBSET Handlers, NEW t \in Token, Copied(t, M)
  PROVE  t = NoToken \/ (t.grant \in 1..Len(granted') /\ t.gen <= live[t.grant])
<1>0. /\ Len(granted) \in Nat /\ Len(granted') \in {Len(granted), Len(granted) + 1}
      /\ Len(granted') <= MaxGrants /\ MaxGrants \in Nat /\ MaxGen \in Nat
  BY GrantsStay, TableAssumption
<1>1. CASE t = NoToken
  BY <1>1
<1>2. CASE Issued(t)
  <2>1. 1..Len(granted) \subseteq 1..Len(granted')
    BY <1>0
  <2> QED BY <1>2, <2>1 DEF Issued
<1>3. CASE Len(granted') = NextGrant /\ t = FirstToken(NextGrant)
  <2>1. t.grant = Len(granted') /\ t.gen = 1
    BY <1>3 DEF FirstToken
  <2>2. t.grant \in 1..MaxGrants /\ t.grant \in 1..Len(granted')
    BY <1>0, <1>3, <2>1 DEF NextGrant
  <2>3. live[t.grant] \in 1..MaxGen
    BY <2>2 DEF CredKept, CredTypeOK, TokensTypeOK
  <2>4. 1 <= live[t.grant]
    BY <1>0, <2>3
  <2> QED BY <2>1, <2>2, <2>4
<1> QED BY <1>1, <1>2, <1>3 DEF Copied, CredKept, RefreshKept

(* What is copied is older than a token that somebody else has to save.    *)
LEMMA CopiesAreOlder ==
  ASSUME CredKept, GrantsGrow, NEW M \in SUBSET Handlers, NEW t, Copied(t, M),
         NEW h \in Handlers, h \notin M, Unsaved(h)
  PROVE  OlderToken(t, job[h].row.refresh)
<1> DEFINE new == job[h].row.refresh
<1>1. OnlyNewest(h) /\ Issued(new)
  BY DEF CredKept, RefreshKept
<1>2. new.grant \in 1..Len(granted) /\ Len(granted) \in Nat
  BY <1>1, GrantsStay DEF OnlyNewest, Issued
<1>3. CASE t = NoToken
  <2>1. t.grant = 0
    BY <1>3 DEF NoToken
  <2>2. t.grant # new.grant
    BY <1>2, <2>1
  <2> QED BY <2>2 DEF OlderToken
<1>4. CASE Len(granted') = NextGrant /\ t = FirstToken(NextGrant)
  <2>1. t.grant = Len(granted) + 1
    BY <1>4 DEF NextGrant, FirstToken
  <2>2. t.grant # new.grant
    BY <1>2, <2>1
  <2> QED BY <2>2 DEF OlderToken
<1> QED BY <1>1, <1>3, <1>4 DEF Copied, OnlyNewest

LEMMA CopiesKeep ==
  ASSUME CredKept, GrantsGrow, NEW M \in SUBSET Handlers,
         CredTypeOK', LoginsKept',
         \A h \in Handlers \ M : job'[h] = job[h] /\ JobOK(job[h], attempts'),
         \A h \in M : /\ JobOK(job'[h], attempts') /\ job'[h].pc # "save"
                      /\ Copied(job'[h].row.refresh, M),
         \A i \in DOMAIN rows' : Copied(rows'[i].refresh, M),
         \A k \in DOMAIN tokens' : Copied(tokens'[k].refresh, M)
  PROVE  CredKept'
<1>1. /\ \A i \in DOMAIN rows' : rows'[i].refresh \in Token
      /\ \A k \in DOMAIN tokens' : tokens'[k].refresh \in Token
      /\ \A h \in Handlers : job'[h].row.refresh \in Token
  BY DEF CredTypeOK, TableTypeOK, TokensTypeOK, JobTypeOK, Row, TokenRecord, Job, JobRow
<1>2. ASSUME NEW t \in Token, t = NoToken \/ (t.grant \in 1..Len(granted') /\ t.gen <= live[t.grant])
      PROVE  Issued(t)'
  BY <1>2 DEF Issued, GrantsGrow
<1>3. /\ \A i \in DOMAIN rows' : Issued(rows[i].refresh)'
      /\ \A k \in DOMAIN tokens' : Issued(tokens[k].refresh)'
  BY <1>1, CopiesAreIssued DEF Issued, GrantsGrow
<1>4. \A h \in Handlers : Issued(job[h].row.refresh)'
  <2> SUFFICES ASSUME NEW h \in Handlers PROVE Issued(job[h].row.refresh)'
    OBVIOUS
  <2>1. CASE h \in M
    BY <1>1, <2>1, CopiesAreIssued DEF Issued, GrantsGrow
  <2>2. CASE h \notin M
    <3>1. Issued(job[h].row.refresh) /\ job'[h] = job[h]
      BY <2>2 DEF CredKept, RefreshKept
    <3>2. 1..Len(granted) \subseteq 1..Len(granted')
      BY GrantsStay
    <3> QED BY <3>1, <3>2 DEF Issued, GrantsGrow
  <2> QED BY <2>1, <2>2
<1>5. ASSUME NEW h \in Handlers, Unsaved(h)' PROVE OnlyNewest(h)'
  <2>1. h \notin M /\ job'[h] = job[h] /\ Unsaved(h)
    BY <1>5 DEF Unsaved
  <2>2. OnlyNewest(h) /\ Issued(job[h].row.refresh)
    BY <2>1 DEF CredKept, RefreshKept
  <2> DEFINE t == job[h].row.refresh
  <2>3. t # NoToken /\ t.grant \in 1..Len(granted) /\ granted[t.grant] = job[h].via /\ t.gen = live[t.grant]
    BY <2>2 DEF OnlyNewest, Issued
  <2>4. granted'[t.grant] = job[h].via /\ live' = live
    BY <2>3, GrantsStay DEF GrantsGrow
  <2>5. /\ \A i \in DOMAIN rows' : OlderToken(rows'[i].refresh, t)
        /\ \A k \in DOMAIN tokens' : OlderToken(tokens'[k].refresh, t)
    BY <2>1, CopiesAreOlder
  <2>6. \A g \in Handlers \ {h} : OlderToken(job'[g].row.refresh, t)
    <3> SUFFICES ASSUME NEW g \in Handlers \ {h} PROVE OlderToken(job'[g].row.refresh, t)
      OBVIOUS
    <3>1. CASE g \in M
      BY <2>1, <3>1, CopiesAreOlder
    <3>2. CASE g \notin M
      BY <2>2, <3>2 DEF OnlyNewest
    <3> QED BY <3>1, <3>2
  <2> QED BY <2>1, <2>3, <2>4, <2>5, <2>6 DEF OnlyNewest, OlderToken
<1>6. \A h \in Handlers : JobOK(job[h], attempts)'
  <2> SUFFICES ASSUME NEW h \in Handlers PROVE JobOK(job'[h], attempts')
    BY DEF JobOK
  <2> QED OBVIOUS
<1>7. RefreshKept'
  BY <1>3, <1>4, <1>5 DEF RefreshKept
<1> QED BY <1>6, <1>7 DEF CredKept

(* The step of a handler that leaves the tables and the provider alone.    *)
LEMMA JobMoves ==
  ASSUME CredKept, NEW h \in Handlers, NEW j \in Job, job' = [job EXCEPT ![h] = j],
         UNCHANGED <<tables, store, upstream, attempts, offered>>,
         JobOK(j, attempts), j.pc # "save", Copied(j.row.refresh, {h})
  PROVE  CredKept'
<1>1. /\ job' \in [Handlers -> Job] /\ job'[h] = j
      /\ \A g \in Handlers \ {h} : job'[g] = job[g]
  BY DEF CredKept, CredTypeOK, JobTypeOK
<1>2. CredTypeOK'
  <2>1. TableTypeOK'
    BY DEF CredKept, CredTypeOK, TableTypeOK, tables
  <2>2. JobTypeOK'
    BY <1>1 DEF JobTypeOK
  <2>3. TokensTypeOK'
    BY DEF CredKept, CredTypeOK, TokensTypeOK, store, upstream
  <2>4. FlowsTypeOK'
    BY DEF CredKept, CredTypeOK, FlowsTypeOK
  <2> QED BY <2>1, <2>2, <2>3, <2>4 DEF CredTypeOK
<1>3. LoginsKept'
  BY DEF CredKept, LoginsKept
<1>4. GrantsGrow /\ attempts' = attempts /\ rows' = rows /\ tokens' = tokens
  BY DEF GrantsGrow, upstream, tables, store
<1>5. \A g \in Handlers \ {h} : JobOK(job[g], attempts')
  BY <1>4 DEF CredKept
<1>6. /\ \A i \in DOMAIN rows' : Copied(rows'[i].refresh, {h})
      /\ \A k \in DOMAIN tokens' : Copied(tokens'[k].refresh, {h})
  BY <1>4 DEF Copied
<1>7. \A g \in {h} : /\ JobOK(job'[g], attempts') /\ job'[g].pc # "save"
                     /\ Copied(job'[g].row.refresh, {h})
  BY <1>1, <1>4
<1> QED BY <1>1, <1>2, <1>3, <1>4, <1>5, <1>6, <1>7, CopiesKeep

-----------------------------------------------------------------------------
(* Jobs and rows. *)

LEMMA Idles ==
  /\ NoToken \in Token /\ NewRow("", NoToken, NoToken, "") \in JobRow
  /\ IdleJob \in Job /\ IdleJob.pc = "idle" /\ IdleJob.id = 0 /\ IdleJob.via = ""
  /\ IdleJob.attempt = 0 /\ IdleJob.row \in JobRow /\ IdleJob.row.refresh = NoToken
<1>1. NoToken \in Token
  BY TableAssumption DEF NoToken, Token
<1>2. 0 \in 0..MaxRows /\ 0 \in 0..MaxAttempts
  <2>1. MaxRows \in Nat
    BY TableAssumption
  <2>2. MaxAttempts \in Nat
    BY ConnectionAssumption
  <2> QED BY <2>1, <2>2
<1>3. NewRow("", NoToken, NoToken, "") \in JobRow /\ NewRow("", NoToken, NoToken, "").refresh = NoToken
  BY <1>1 DEF NewRow, JobRow, Statuses
<1> QED BY <1>1, <1>2, <1>3 DEF IdleJob, Job, JobPC, Default

LEMMA NewRows ==
  ASSUME NEW p \in Owners, NEW t \in Token, NEW u \in Token, NEW status \in Statuses
  PROVE  /\ NewRow(p, t, u, status) \in Row /\ NewRow(p, t, u, status) \in JobRow
         /\ NewRow(p, t, u, status).provider = p /\ NewRow(p, t, u, status).refresh = u
         /\ NewRow(p, t, u, status).access = t
BY DEF NewRow, Row, JobRow, Owners

LEMMA RowsAreRows ==
  ASSUME NEW r
  PROVE  r \in Row <=> r \in JobRow /\ r.provider \in Owners
BY DEF Row, JobRow, Owners

LEMMA OldRows ==
  ASSUME CredKept, NEW i \in DOMAIN rows
  PROVE  /\ rows[i] \in Row /\ rows[i] \in JobRow /\ rows[i].provider \in Owners
         /\ i \in 1..MaxRows /\ i # Default
<1>1. rows[i] \in Row /\ i \in 1..created /\ created \in 0..MaxRows /\ MaxRows \in Nat
  BY TableAssumption DEF CredKept, CredTypeOK, TableTypeOK
<1>2. i \in 1..MaxRows /\ i # 0
  BY <1>1
<1> QED BY <1>1, <1>2, RowsAreRows DEF Default

LEMMA OldJobs ==
  ASSUME CredKept, NEW h \in Handlers
  PROVE  /\ job[h] \in Job /\ job[h].row \in JobRow /\ JobOK(job[h], attempts)
         /\ job[h].id \in 0..MaxRows /\ job[h].via \in OAuthProviders \cup {""}
         /\ job[h].attempt \in 0..MaxAttempts
BY DEF CredKept, CredTypeOK, JobTypeOK, Job

(* A handler that is given another step, and what changes in its job.      *)
LEMMA Going ==
  ASSUME NEW j \in Job, NEW pc \in JobPC
  PROVE  LET k == [j EXCEPT !.pc = pc]
         IN  /\ k \in Job /\ k.pc = pc /\ k.id = j.id /\ k.row = j.row /\ k.via = j.via
             /\ k.attempt = j.attempt
BY DEF Job

LEMMA Answers ==
  ASSUME CredKept, NEW h \in Handlers, Answer(h),
         UNCHANGED <<tables, store, upstream, attempts, offered>>
  PROVE  CredKept'
<1>1. job' = [job EXCEPT ![h] = IdleJob]
  BY DEF Answer
<1>2. IdleJob \in Job /\ JobOK(IdleJob, attempts) /\ Copied(IdleJob.row.refresh, {h}) /\ IdleJob.pc # "save"
  BY Idles DEF JobOK, Copied
<1> QED BY <1>1, <1>2, JobMoves

(* A handler that goes on with the row that it has. *)
LEMMA Gotos ==
  ASSUME CredKept, NEW h \in Handlers, NEW pc \in JobPC, Goto(h, pc), pc # "save",
         JobOK([job[h] EXCEPT !.pc = pc], attempts),
         UNCHANGED <<tables, store, upstream, attempts, offered>>
  PROVE  CredKept'
<1> DEFINE j == [job[h] EXCEPT !.pc = pc]
<1>1. job[h] \in Job
  BY OldJobs
<1>2. j \in Job /\ j.pc = pc /\ j.row = job[h].row
  BY <1>1, Going
<1>3. job' = [job EXCEPT ![h] = j]
  BY DEF Goto
<1>4. Copied(j.row.refresh, {h})
  BY <1>2 DEF Copied
<1> HIDE DEF j
<1> QED BY <1>2, <1>3, <1>4, JobMoves DEF j

-----------------------------------------------------------------------------
(* Connections *)

LEMMA ProvidersCreateKeeps ==
  ASSUME CredKept, UNCHANGED <<store, upstream, attempts, offered>>,
         NEW h \in Handlers, NEW p \in Owners, NEW pool \in pools \cup {""},
         handleProvidersCreate(h, p, pool)
  PROVE  CredKept'
<1> DEFINE r == parseConnectionPayload(p, pool)
           j == [IdleJob EXCEPT !.row = r, !.pc = FirstCheck(p, "insert")]
<1>1. pool \in Pools \cup {""}
  BY DEF CredKept, CredTypeOK, TableTypeOK
<1>2. r \in JobRow /\ r.provider = p /\ r.refresh = NoToken
  <2> DEFINE n == NewRow(p, NoToken, NoToken, "")
  <2>1. n \in JobRow /\ n.provider = p /\ n.refresh = NoToken
    <3>1. "" \in Statuses
      BY DEF Statuses
    <3>2. NoToken \in Token
      BY Idles
    <3> QED BY <3>1, <3>2 DEF NewRow, JobRow, Owners
  <2> HIDE DEF n
  <2>2. LET s == [n EXCEPT !.pool = pool] IN s \in JobRow /\ s.provider = p /\ s.refresh = NoToken
    BY <1>1, <2>1 DEF JobRow
  <2> QED BY <2>2 DEF n, parseConnectionPayload
<1> HIDE DEF r
<1>3. FirstCheck(p, "insert") \in {"node", "insert"}
  BY DEF FirstCheck
<1>4. j \in Job /\ j.row = r /\ j.pc \in {"node", "insert"} /\ j.id = 0 /\ j.via = ""
  BY <1>2, <1>3, Idles DEF Job, JobPC
<1>5. job' = [job EXCEPT ![h] = j] /\ UNCHANGED tables
  BY DEF handleProvidersCreate, Begin, r
<1> HIDE DEF j
<1>6. JobOK(j, attempts) /\ Copied(j.row.refresh, {h}) /\ j.pc # "save"
  BY <1>2, <1>4 DEF JobOK, Copied
<1> QED BY <1>4, <1>5, <1>6, JobMoves

LEMMA CheckNodeKeeps ==
  ASSUME CredKept, UNCHANGED <<store, upstream, attempts, offered>>,
         NEW h \in Handlers, CheckNode(h)
  PROVE  CredKept'
<1>1. job[h].pc = "node" /\ UNCHANGED tables
  BY DEF CheckNode
<1>2. CASE job[h].row.provider \notin DOMAIN nodes
  BY <1>1, <1>2, Answers DEF CheckNode
<1>3. CASE job[h].row.provider \in DOMAIN nodes
  <2> DEFINE url == nodes[job[h].row.provider]
             j == [job[h] EXCEPT !.pc = "alone", !.row.url = url]
  <2>1. url \in Urls
    BY <1>3 DEF CredKept, CredTypeOK, TableTypeOK
  <2>2. job' = [job EXCEPT ![h] = j]
    BY <1>3 DEF CheckNode
  <2> HIDE DEF url
  <2>3. /\ j \in Job /\ j.pc = "alone" /\ j.id = job[h].id /\ j.row.provider = job[h].row.provider
        /\ j.row.refresh = job[h].row.refresh
    BY <2>1, OldJobs, ZenonT(60) DEF Job, JobPC, JobRow
  <2> HIDE DEF j
  <2>4. JobOK(j, attempts) /\ Copied(j.row.refresh, {h}) /\ j.pc # "save"
    BY <1>1, <2>3, OldJobs DEF JobOK, Copied
  <2> QED BY <1>1, <2>2, <2>3, <2>4, JobMoves
<1> QED BY <1>2, <1>3

LEMMA CheckAloneKeeps ==
  ASSUME CredKept, UNCHANGED <<store, upstream, attempts, offered>>,
         NEW h \in Handlers, CheckAlone(h)
  PROVE  CredKept'
<1>1. job[h].pc = "alone" /\ UNCHANGED tables /\ (Goto(h, AfterCheck(h)) \/ Answer(h))
  BY DEF CheckAlone
<1>2. AfterCheck(h) \in {"insert", "write"}
  BY DEF AfterCheck
<1>3. JobOK([job[h] EXCEPT !.pc = AfterCheck(h)], attempts)
  <2> DEFINE j == [job[h] EXCEPT !.pc = AfterCheck(h)]
  <2>1. j.pc = AfterCheck(h) /\ j.row = job[h].row
    <3>1. AfterCheck(h) \in JobPC
      BY <1>2 DEF JobPC
    <3> QED BY <3>1, OldJobs, Going
  <2> HIDE DEF j
  <2>2. JobOK(j, attempts)
    BY <1>1, <1>2, <2>1, OldJobs DEF JobOK
  <2> QED BY <2>2 DEF j
<1> QED BY <1>1, <1>2, <1>3, Gotos, Answers DEF JobPC

LEMMA PatchedRows ==
  ASSUME NEW r \in Row, NEW patch \in Patches
  PROVE  LET u == applyConnectionPatch(r, patch)
         IN  u \in Row /\ u.refresh \in {NoToken, r.refresh}
<1> DEFINE p == IF patch.provider = "" THEN r.provider ELSE patch.provider
           a == PatchedSecret(r.access, patch.access, patch.clear)
           t == PatchedSecret(r.refresh, patch.refresh, patch.clear)
           l == IF patch.pool = "absent" THEN r.pool
                ELSE IF patch.pool = "none" THEN "" ELSE patch.pool
<1>1. /\ patch.provider \in OAuthProviders \cup Nodes \cup {""}
      /\ patch.pool \in Pools \cup {"absent", "none"}
  BY ConnectionAssumption
<1>2. p \in Owners /\ l \in Pools \cup {""}
  BY <1>1 DEF Row, Owners
<1>3. a \in Token /\ t \in Token /\ t \in {NoToken, r.refresh}
  BY Idles DEF Row, PatchedSecret
<1>4. applyConnectionPatch(r, patch) =
        [r EXCEPT !.provider = p, !.access = a, !.refresh = t, !.pool = l]
  BY DEF applyConnectionPatch
<1> HIDE DEF p, a, t, l
<1> QED BY <1>2, <1>3, <1>4 DEF Row, Owners

LEMMA ProvidersUpdateKeeps ==
  ASSUME CredKept, UNCHANGED <<store, upstream, attempts, offered>>,
         NEW h \in Handlers, NEW i \in DOMAIN rows, NEW patch \in Patches,
         handleProvidersUpdate(h, i, patch)
  PROVE  CredKept'
<1> DEFINE u == applyConnectionPatch(rows[i], patch)
           pc == FirstCheck(u.provider, "write")
           j == [IdleJob EXCEPT !.id = i, !.row = u, !.pc = pc]
<1>1. u \in Row /\ u.refresh \in {NoToken, rows[i].refresh}
  BY OldRows, PatchedRows
<1>2. u \in JobRow /\ u.provider \in Owners
  BY <1>1, RowsAreRows
<1>3. pc \in {"node", "write"}
  BY DEF FirstCheck
<1>4. job' = [job EXCEPT ![h] = j] /\ UNCHANGED tables
  BY DEF handleProvidersUpdate, Begin
<1> HIDE DEF u, pc
<1>5. i \in 0..MaxRows
  BY OldRows
<1>6. j \in Job /\ j.row = u /\ j.pc = pc
  BY <1>2, <1>3, <1>5, Idles DEF Job, JobPC
<1> HIDE DEF j
<1>7. JobOK(j, attempts) /\ Copied(j.row.refresh, {h}) /\ j.pc # "save"
  BY <1>1, <1>2, <1>3, <1>6 DEF JobOK, Copied
<1> QED BY <1>4, <1>6, <1>7, JobMoves

LEMMA ProviderTestKeeps ==
  ASSUME CredKept, UNCHANGED <<store, upstream, attempts, offered>>,
         NEW h \in Handlers, NEW i \in DOMAIN rows, handleProviderTest(h, i)
  PROVE  CredKept'
<1> DEFINE j == [IdleJob EXCEPT !.id = i, !.row = rows[i], !.pc = "validate"]
<1>1. job' = [job EXCEPT ![h] = j] /\ UNCHANGED tables
  BY DEF handleProviderTest, Begin
<1>2. i \in 0..MaxRows /\ rows[i] \in JobRow /\ rows[i].provider \in Owners
  BY OldRows
<1>3. j \in Job /\ j.row = rows[i] /\ j.pc = "validate"
  BY <1>2, Idles DEF Job, JobPC
<1> HIDE DEF j
<1>4. JobOK(j, attempts) /\ Copied(j.row.refresh, {h})
  BY <1>2, <1>3 DEF JobOK, Copied
<1> QED BY <1>1, <1>3, <1>4, JobMoves

LEMMA ValidateKeeps ==
  ASSUME CredKept, UNCHANGED <<store, upstream, attempts, offered>>,
         NEW h \in Handlers, NEW valid \in BOOLEAN, ValidateProvider(h, valid)
  PROVE  CredKept'
<1> DEFINE status == IF valid THEN "ok" ELSE "failed"
           j == [job[h] EXCEPT !.pc = "write", !.row.status = status]
<1>1. job[h].pc = "validate" /\ job' = [job EXCEPT ![h] = j] /\ UNCHANGED tables
  BY DEF ValidateProvider
<1>2. status \in Statuses
  BY DEF Statuses
<1> HIDE DEF status
<1>3. /\ j \in Job /\ j.pc = "write" /\ j.row.provider = job[h].row.provider
      /\ j.row.refresh = job[h].row.refresh
  <2>1. job[h] \in Job
    BY OldJobs
  <2> DEFINE old == job[h].row
             new == [old EXCEPT !.status = status]
  <2>2. /\ old \in JobRow /\ new \in JobRow
        /\ new.provider = old.provider /\ new.refresh = old.refresh
    BY <1>2, <2>1 DEF Job, JobRow
  <2>3. j = [job[h] EXCEPT !.pc = "write", !.row = new]
    BY <2>1 DEF Job
  <2> HIDE DEF j, new
  <2>4. j \in Job /\ j.pc = "write" /\ j.row = new
    BY <2>1, <2>2, <2>3 DEF Job, JobPC
  <2> QED BY <2>2, <2>4
<1> HIDE DEF j
<1>4. JobOK(j, attempts) /\ Copied(j.row.refresh, {h})
  BY <1>1, <1>3, OldJobs DEF JobOK, Copied
<1> QED BY <1>1, <1>3, <1>4, JobMoves

LEMMA NodesUpdateKeeps ==
  ASSUME CredKept, UNCHANGED <<store, upstream, attempts, offered>>,
         NEW h \in Handlers, NEW n \in Nodes, NEW url \in Urls, handleProviderNodesUpdate(h, n, url)
  PROVE  CredKept'
<1> DEFINE j == [IdleJob EXCEPT !.pc = "rewrite", !.row.provider = n, !.row.url = url]
<1>1. job' = [job EXCEPT ![h] = j] /\ UNCHANGED tables
  BY DEF handleProviderNodesUpdate, Begin
<1>2. j \in Job /\ j.pc = "rewrite" /\ j.row.refresh = NoToken /\ j.row.url = url
  BY Idles DEF Job, JobPC, JobRow
<1> HIDE DEF j
<1>3. JobOK(j, attempts) /\ Copied(j.row.refresh, {h})
  BY <1>2 DEF JobOK, Copied
<1> QED BY <1>1, <1>2, <1>3, JobMoves

-----------------------------------------------------------------------------
(* Steps that write the tables. *)

(* The rows after a statement. *)
RowsMove(M) == TableTypeOK' /\ \A i \in DOMAIN rows' : Copied(rows'[i].refresh, M)

LEMMA RowInserted ==
  ASSUME CredKept, NEW M, NEW r \in Row, Copied(r.refresh, M),
         CreateProviderConnection(r), UNCHANGED <<nodes, pools>>
  PROVE  RowsMove(M)
<1>1. /\ created < MaxRows /\ created' = created + 1
      /\ rows' = [i \in DOMAIN rows \cup {created + 1} |->
                    IF i = created + 1 THEN r ELSE rows[i]]
  BY DEF CreateProviderConnection
<1>2. created \in 0..MaxRows /\ DOMAIN rows \subseteq 1..created /\ MaxRows \in Nat
  BY TableAssumption DEF CredKept, CredTypeOK, TableTypeOK
<1>3. created' \in 0..MaxRows /\ DOMAIN rows' \subseteq 1..created'
  <2>1. created' \in 0..MaxRows /\ created + 1 \in 1..created' /\ 1..created \subseteq 1..created'
    BY <1>1, <1>2
  <2> QED BY <1>1, <1>2, <2>1
<1>4. \A i \in DOMAIN rows' : rows'[i] = r \/ (i \in DOMAIN rows /\ rows'[i] = rows[i])
  BY <1>1
<1>5. \A i \in DOMAIN rows' : rows'[i] \in Row
  BY <1>4, OldRows
<1>6. TableTypeOK'
  BY <1>3, <1>5 DEF CredKept, CredTypeOK, TableTypeOK
<1> QED BY <1>4, <1>6 DEF RowsMove, Copied

LEMMA RowUpdated ==
  ASSUME CredKept, NEW M, NEW i, NEW r \in Row, Copied(r.refresh, M),
         UpdateProviderConnection(i, r), UNCHANGED <<created, nodes, pools>>
  PROVE  RowsMove(M)
<1>1. rows' = [j \in DOMAIN rows |-> IF j = i THEN r ELSE rows[j]]
  BY DEF UpdateProviderConnection
<1>2. DOMAIN rows' = DOMAIN rows
  BY <1>1
<1>3. \A j \in DOMAIN rows' : rows'[j] = r \/ (j \in DOMAIN rows /\ rows'[j] = rows[j])
  BY <1>1
<1>4. \A j \in DOMAIN rows' : rows'[j] \in Row
  BY <1>3, OldRows
<1>5. TableTypeOK'
  BY <1>2, <1>4 DEF CredKept, CredTypeOK, TableTypeOK
<1> QED BY <1>3, <1>5 DEF RowsMove, Copied

LEMMA RowDeleted ==
  ASSUME CredKept, NEW M, NEW i,
         DeleteProviderConnection(i), UNCHANGED <<created, nodes, pools>>
  PROVE  RowsMove(M)
<1>1. rows' = [j \in DOMAIN rows \ {i} |-> rows[j]]
  BY DEF DeleteProviderConnection
<1>2. DOMAIN rows' \subseteq DOMAIN rows
  BY <1>1
<1>3. \A j \in DOMAIN rows' : j \in DOMAIN rows /\ rows'[j] = rows[j]
  BY <1>1
<1>4. \A j \in DOMAIN rows' : rows'[j] \in Row
  BY <1>3, OldRows
<1>5. TableTypeOK'
  BY <1>2, <1>4 DEF CredKept, CredTypeOK, TableTypeOK
<1> QED BY <1>3, <1>5 DEF RowsMove, Copied

LEMMA RowsStay ==
  ASSUME CredKept, NEW M, UNCHANGED <<rows, created>>,
         DOMAIN nodes' \subseteq Nodes, \A n \in DOMAIN nodes' : nodes'[n] \in Urls,
         pools' \subseteq Pools
  PROVE  RowsMove(M)
<1>1. TableTypeOK'
  BY DEF CredKept, CredTypeOK, TableTypeOK
<1> QED BY <1>1 DEF RowsMove, Copied

(* The token store after a statement. *)
StoreMoves(M) ==
    /\ DOMAIN tokens' \subseteq OAuthProviders \X (0..MaxRows)
    /\ \A k \in DOMAIN tokens' : tokens'[k] \in TokenRecord /\ Copied(tokens'[k].refresh, M)

LEMMA OldTokens ==
  ASSUME CredKept
  PROVE  /\ DOMAIN tokens \subseteq OAuthProviders \X (0..MaxRows)
         /\ \A k \in DOMAIN tokens : /\ tokens[k] \in TokenRecord
                                     /\ tokens[k].access \in Token /\ tokens[k].refresh \in Token
BY DEF CredKept, CredTypeOK, TokensTypeOK, TokenRecord

LEMMA TokensStay ==
  ASSUME CredKept, NEW M, tokens' = tokens
  PROVE  StoreMoves(M)
BY OldTokens DEF StoreMoves, Copied

LEMMA TokenSaved ==
  ASSUME CredKept, NEW M, NEW p \in OAuthProviders, NEW rec \in TokenRecord,
         Copied(rec.refresh, M), SaveToken(<<p, Default>>, rec)
  PROVE  StoreMoves(M)
<1> DEFINE k == <<p, Default>>
<1>1. k \in OAuthProviders \X (0..MaxRows)
  BY TableAssumption DEF Default
<1>2. tokens' = [l \in DOMAIN tokens \cup {k} |-> IF l = k THEN rec ELSE tokens[l]]
  BY DEF SaveToken
<1> HIDE DEF k
<1>3. DOMAIN tokens' = DOMAIN tokens \cup {k}
  BY <1>2
<1>4. \A l \in DOMAIN tokens' : tokens'[l] = rec \/ (l \in DOMAIN tokens /\ tokens'[l] = tokens[l])
  BY <1>2
<1> QED BY <1>1, <1>3, <1>4, OldTokens DEF StoreMoves, Copied

LEMMA TokenDeleted ==
  ASSUME CredKept, NEW M, NEW k, DeleteToken(k)
  PROVE  StoreMoves(M)
<1>1. tokens' = [l \in DOMAIN tokens \ {k} |-> tokens[l]]
  BY DEF DeleteToken
<1>2. \A l \in DOMAIN tokens' : l \in DOMAIN tokens /\ tokens'[l] = tokens[l]
  BY <1>1
<1> QED BY <1>2, OldTokens DEF StoreMoves, Copied

LEMMA LoginsStay ==
  ASSUME CredKept, UNCHANGED <<attempts, offered>>
  PROVE  LoginsKept' /\ FlowsTypeOK'
BY DEF CredKept, CredTypeOK, LoginsKept, FlowsTypeOK

(* A handler's step that writes a table or begins an authorization.        *)
LEMMA Writes ==
  ASSUME CredKept, NEW h \in Handlers, NEW j \in Job, job' = [job EXCEPT ![h] = j],
         JobOK(j, attempts), j.pc # "save", Copied(j.row.refresh, {h}),
         RowsMove({h}), StoreMoves({h}), GrantsGrow, UNCHANGED <<attempts, offered>>
  PROVE  CredKept'
<1>1. /\ job' \in [Handlers -> Job] /\ job'[h] = j
      /\ \A g \in Handlers \ {h} : job'[g] = job[g]
  BY DEF CredKept, CredTypeOK, JobTypeOK
<1>2. TokensTypeOK'
  BY GrantsStay DEF StoreMoves, CredKept, CredTypeOK, TokensTypeOK, GrantsGrow
<1>3. CredTypeOK'
  BY <1>1, <1>2, LoginsStay DEF CredTypeOK, JobTypeOK, RowsMove
<1>4. \A g \in Handlers \ {h} : job'[g] = job[g] /\ JobOK(job[g], attempts')
  BY <1>1 DEF CredKept
<1>5. \A g \in {h} : /\ JobOK(job'[g], attempts') /\ job'[g].pc # "save"
                     /\ Copied(job'[g].row.refresh, {h})
  BY <1>1
<1>6. LoginsKept'
  BY LoginsStay
<1> QED BY <1>3, <1>4, <1>5, <1>6, CopiesKeep DEF RowsMove, StoreMoves

(* A request of one statement. *)
LEMMA Statement ==
  ASSUME CredKept, RowsMove({}), StoreMoves({}), GrantsGrow, UNCHANGED <<job, attempts, offered>>
  PROVE  CredKept'
<1>1. TokensTypeOK'
  BY GrantsStay DEF StoreMoves, CredKept, CredTypeOK, TokensTypeOK, GrantsGrow
<1>2. CredTypeOK'
  BY <1>1, LoginsStay DEF CredKept, CredTypeOK, JobTypeOK, RowsMove
<1>3. \A g \in Handlers \ {} : job'[g] = job[g] /\ JobOK(job[g], attempts')
  BY DEF CredKept
<1>4. LoginsKept'
  BY LoginsStay
<1>5. {} \in SUBSET Handlers
  OBVIOUS
<1>6. \A g \in {} : /\ JobOK(job'[g], attempts') /\ job'[g].pc # "save"
                    /\ Copied(job'[g].row.refresh, {})
  OBVIOUS
<1> QED BY <1>2, <1>3, <1>4, <1>5, <1>6, CopiesKeep DEF RowsMove, StoreMoves

LEMMA AnswersWriting ==
  ASSUME CredKept, NEW h \in Handlers, Answer(h),
         RowsMove({h}), StoreMoves({h}), UNCHANGED <<upstream, attempts, offered>>
  PROVE  CredKept'
<1>1. job' = [job EXCEPT ![h] = IdleJob]
  BY DEF Answer
<1>2. IdleJob \in Job /\ JobOK(IdleJob, attempts) /\ Copied(IdleJob.row.refresh, {h}) /\ IdleJob.pc # "save"
  BY Idles DEF JobOK, Copied
<1>3. GrantsGrow
  BY DEF GrantsGrow, upstream
<1> QED BY <1>1, <1>2, <1>3, Writes

LEMMA InsertKeeps ==
  ASSUME CredKept, UNCHANGED <<store, upstream, attempts, offered>>,
         NEW h \in Handlers, InsertConnection(h)
  PROVE  CredKept'
<1>1. /\ job[h].pc = "insert" /\ CreateProviderConnection(job[h].row) /\ Answer(h)
      /\ UNCHANGED <<nodes, pools>> /\ tokens' = tokens
  BY DEF InsertConnection, store
<1>2. job[h].row \in Row /\ Copied(job[h].row.refresh, {h})
  BY <1>1, OldJobs, RowsAreRows DEF JobOK, Copied
<1>3. RowsMove({h}) /\ StoreMoves({h})
  BY <1>1, <1>2, RowInserted, TokensStay
<1> QED BY <1>1, <1>3, AnswersWriting

LEMMA WriteConnectionKeeps ==
  ASSUME CredKept, UNCHANGED <<store, upstream, attempts, offered>>,
         NEW h \in Handlers, WriteConnection(h)
  PROVE  CredKept'
<1>1. /\ job[h].pc = "write" /\ UpdateProviderConnection(job[h].id, job[h].row) /\ Answer(h)
      /\ UNCHANGED <<created, nodes, pools>> /\ tokens' = tokens
  BY DEF WriteConnection, store
<1>2. job[h].row \in Row /\ Copied(job[h].row.refresh, {h})
  BY <1>1, OldJobs, RowsAreRows DEF JobOK, Copied
<1>3. RowsMove({h}) /\ StoreMoves({h})
  BY <1>1, <1>2, RowUpdated, TokensStay
<1> QED BY <1>1, <1>3, AnswersWriting

LEMMA WriteNodeKeeps ==
  ASSUME CredKept, UNCHANGED <<store, upstream, attempts, offered>>,
         NEW h \in Handlers, WriteNode(h)
  PROVE  CredKept'
<1>1. /\ job[h].pc = "rewrite" /\ Answer(h) /\ UNCHANGED <<rows, created, pools>>
      /\ nodes' = [m \in DOMAIN nodes |-> IF m = job[h].row.provider THEN job[h].row.url ELSE nodes[m]]
      /\ tokens' = tokens
  BY DEF WriteNode, UpdateProviderNode, store
<1>2. job[h].row.url \in Urls
  BY <1>1, OldJobs DEF JobOK
<1>3. /\ DOMAIN nodes' \subseteq Nodes /\ \A n \in DOMAIN nodes' : nodes'[n] \in Urls
      /\ pools' \subseteq Pools
  BY <1>1, <1>2 DEF CredKept, CredTypeOK, TableTypeOK
<1>4. RowsMove({h}) /\ StoreMoves({h})
  BY <1>1, <1>3, RowsStay, TokensStay
<1> QED BY <1>1, <1>4, AnswersWriting

LEMMA SingleStatementKeeps ==
  ASSUME CredKept, UNCHANGED <<store, upstream, attempts, offered>>,
         NEW ids, SingleStatement(ids)
  PROVE  CredKept'
<1>0. /\ GrantsGrow /\ StoreMoves({}) /\ tokens' = tokens
  BY TokensStay DEF GrantsGrow, store, upstream
<1>1. ASSUME NEW i \in DOMAIN rows, handleProvidersDelete(i) PROVE CredKept'
  <2>1. RowsMove({}) /\ job' = job
    BY <1>1, RowDeleted DEF handleProvidersDelete
  <2> QED BY <1>0, <2>1, Statement
<1>2. ASSUME NEW n \in Nodes, NEW url \in Urls, handleProviderNodesCreate(n, url) PROVE CredKept'
  <2>1. /\ DOMAIN nodes' \subseteq Nodes /\ \A m \in DOMAIN nodes' : nodes'[m] \in Urls
        /\ pools' \subseteq Pools /\ UNCHANGED <<rows, created, job>>
    BY <1>2 DEF handleProviderNodesCreate, CreateProviderNode, CredKept, CredTypeOK, TableTypeOK
  <2>2. RowsMove({})
    BY <2>1, RowsStay
  <2> QED BY <1>0, <2>1, <2>2, Statement
<1>3. ASSUME NEW n \in Nodes, handleProviderNodesDelete(n) PROVE CredKept'
  <2>1. /\ DOMAIN nodes' \subseteq Nodes /\ \A m \in DOMAIN nodes' : nodes'[m] \in Urls
        /\ pools' \subseteq Pools /\ UNCHANGED <<rows, created, job>>
    BY <1>3 DEF handleProviderNodesDelete, DeleteProviderNode, CredKept, CredTypeOK, TableTypeOK
  <2>2. RowsMove({})
    BY <2>1, RowsStay
  <2> QED BY <1>0, <2>1, <2>2, Statement
<1>4. ASSUME NEW p \in Pools, saveProxyPool(p) \/ handleProxyPoolsDelete(p) PROVE CredKept'
  <2>1. /\ DOMAIN nodes' \subseteq Nodes /\ \A m \in DOMAIN nodes' : nodes'[m] \in Urls
        /\ pools' \subseteq Pools /\ UNCHANGED <<rows, created, job>>
    BY <1>4 DEF saveProxyPool, SaveProxyPool, handleProxyPoolsDelete, DeleteProxyPool, CredKept,
       CredTypeOK, TableTypeOK
  <2>2. RowsMove({})
    BY <2>1, RowsStay
  <2> QED BY <1>0, <2>1, <2>2, Statement
<1> QED BY <1>1, <1>2, <1>3, <1>4 DEF SingleStatement

LEMMA ConnectionsKeep ==
  ASSUME CredKept, UNCHANGED <<store, upstream, attempts, offered>>, NEW h \in Handlers,
         HandlerStep(h) \/ ConnectionRequest(h, offered)
  PROVE  CredKept'
<1>1. CASE HandlerStep(h)
  BY <1>1, CheckNodeKeeps, CheckAloneKeeps, InsertKeeps, WriteConnectionKeeps, WriteNodeKeeps,
     ValidateKeeps DEF HandlerStep
<1>2. CASE ConnectionRequest(h, offered)
  <2>1. ASSUME NEW p \in (OAuthProviders \cup Nodes) \cap offered, NEW pool \in pools \cup {""},
               handleProvidersCreate(h, p, pool)
        PROVE  CredKept'
    BY <2>1, ProvidersCreateKeeps DEF Owners
  <2> QED BY <1>2, <2>1, ProviderTestKeeps, ProvidersUpdateKeeps, NodesUpdateKeeps DEF ConnectionRequest
<1> QED BY <1>1, <1>2

-----------------------------------------------------------------------------
(* Refreshing *)

LEMMA RefreshFromStoreKeeps ==
  ASSUME CredKept, UNCHANGED <<attempts, offered>>,
         NEW h \in Handlers, NEW p \in OAuthProviders, RefreshFromStore(h, p)
  PROVE  CredKept'
<1> DEFINE k == <<p, Default>>
           r == NewRow(p, tokens[k].access, tokens[k].refresh, "")
           j == [IdleJob EXCEPT !.pc = "post", !.id = Default, !.row = r, !.via = p]
<1>1. k \in DOMAIN tokens /\ job' = [job EXCEPT ![h] = j] /\ UNCHANGED <<tables, store, upstream>>
  BY DEF RefreshFromStore, GetToken, Begin, RefreshJob
<1> HIDE DEF k
<1>2. tokens[k].access \in Token /\ tokens[k].refresh \in Token
  BY <1>1, OldTokens
<1>3. r \in JobRow /\ r.provider = p /\ r.refresh = tokens[k].refresh
  BY <1>2 DEF NewRow, JobRow, Statuses
<1> HIDE DEF r
<1>4. 0 \in 0..MaxRows
  BY TableAssumption
<1>5. j \in Job /\ j.pc = "post" /\ j.row = r
  BY <1>3, <1>4, Idles DEF Job, JobPC, Default
<1> HIDE DEF j
<1>6. JobOK(j, attempts) /\ Copied(j.row.refresh, {h})
  BY <1>1, <1>3, <1>5 DEF JobOK, Copied, Owners
<1> QED BY <1>1, <1>5, <1>6, JobMoves

LEMMA RefreshFromRowKeeps ==
  ASSUME CredKept, UNCHANGED <<attempts, offered>>,
         NEW h \in Handlers, NEW p \in OAuthProviders, NEW named, RefreshFromRow(h, p, named)
  PROVE  CredKept'
<1>1. PICK i \in findRefreshableConnection(p, named) :
        Begin(h, RefreshJob(p, i, rows[i]))
  BY DEF RefreshFromRow
<1>2. i \in DOMAIN rows
  BY DEF findRefreshableConnection, RowsOf
<1> DEFINE j == [IdleJob EXCEPT !.pc = "post", !.id = i, !.row = rows[i], !.via = p]
<1>3. job' = [job EXCEPT ![h] = j] /\ UNCHANGED <<tables, store, upstream>>
  BY <1>1 DEF RefreshFromRow, Begin, RefreshJob
<1>4. i \in 0..MaxRows /\ i # Default /\ rows[i] \in JobRow /\ rows[i].provider \in Owners
  BY <1>2, OldRows
<1>5. j \in Job /\ j.pc = "post" /\ j.row = rows[i] /\ j.id = i
  BY <1>4, Idles DEF Job, JobPC
<1> HIDE DEF j
<1>6. JobOK(j, attempts) /\ Copied(j.row.refresh, {h})
  BY <1>2, <1>4, <1>5 DEF JobOK, Copied
<1> QED BY <1>3, <1>5, <1>6, JobMoves

(* The provider issues the successor of the token that h sent: it was the  *)
(* newest, if the provider rotates them, so nobody had a newer one to save.*)
LEMMA IssueKeeps ==
  ASSUME CredKept, NEW h \in Handlers, NEW t, t = job[h].row.refresh,
         Accepts(job[h].via, t), Issue(t), job[h].pc = "post",
         NEW j \in Job, job' = [job EXCEPT ![h] = j], JobOK(j, attempts),
         UNCHANGED <<tables, store, granted, attempts, offered>>,
         \/ j.pc # "save" /\ j.row.refresh = NoToken
         \/ /\ j.via = job[h].via /\ j.row.refresh.grant = t.grant
            /\ j.row.refresh.gen <= live[t.grant] + 1
            /\ j.via \in Rotating => j.row.refresh.gen = live[t.grant] + 1
            /\ j.row.refresh \in Token
  PROVE  CredKept'
<1>1. /\ job' \in [Handlers -> Job] /\ job'[h] = j
      /\ \A g \in Handlers \ {h} : job'[g] = job[g]
  BY DEF CredKept, CredTypeOK, JobTypeOK
<1>2. t \in Token /\ Issued(t) /\ t # NoToken /\ granted[t.grant] = job[h].via
      /\ (job[h].via \in Rotating => t.gen = live[t.grant]) /\ live[t.grant] < MaxGen
  BY OldJobs DEF CredKept, RefreshKept, JobRow, Accepts
<1>3. /\ Len(granted) <= MaxGrants /\ Len(granted) \in Nat /\ MaxGrants \in Nat /\ MaxGen \in Nat
      /\ granted \in Seq(OAuthProviders)
  <2>1. granted \in Seq(OAuthProviders) /\ Len(granted) <= MaxGrants
    BY DEF CredKept, CredTypeOK, TokensTypeOK
  <2> QED BY <2>1, LenProperties, TableAssumption
<1>4. t.grant \in 1..Len(granted) /\ t.grant \in 1..MaxGrants
  BY <1>2, <1>3 DEF Issued
<1>5. live \in [1..MaxGrants -> 1..MaxGen]
  BY DEF CredKept, CredTypeOK, TokensTypeOK
<1>6. /\ live' \in [1..MaxGrants -> 1..MaxGen]
      /\ live'[t.grant] = live[t.grant] + 1
      /\ \A g \in 1..MaxGrants \ {t.grant} : live'[g] = live[g]
      /\ \A g \in 1..MaxGrants : live[g] <= live'[g] /\ live[g] \in Int
  <2>1. live[t.grant] \in 1..MaxGen /\ live[t.grant] + 1 \in 1..MaxGen
    <3>1. live[t.grant] \in 1..MaxGen
      BY <1>4, <1>5
    <3>2. live[t.grant] < MaxGen
      BY <1>2
    <3> QED BY <1>3, <3>1, <3>2, SMTT(60)
  <2>2. live' = [live EXCEPT ![t.grant] = live[t.grant] + 1]
    BY DEF Issue
  <2>3. /\ live' \in [1..MaxGrants -> 1..MaxGen] /\ live'[t.grant] = live[t.grant] + 1
        /\ \A g \in 1..MaxGrants \ {t.grant} : live'[g] = live[g]
    BY <1>4, <1>5, <2>1, <2>2
  <2>4. \A g \in 1..MaxGrants : live[g] \in Int
    BY <1>3, <1>5
  <2>5. \A g \in 1..MaxGrants : live[g] <= live'[g]
    BY <2>3, <2>4
  <2> QED BY <2>3, <2>4, <2>5
<1>7. CredTypeOK' /\ LoginsKept'
  <2>1. TableTypeOK'
    BY DEF CredKept, CredTypeOK, TableTypeOK, tables
  <2>2. TokensTypeOK'
    BY <1>6 DEF CredKept, CredTypeOK, TokensTypeOK, store
  <2> QED BY <1>1, <2>1, <2>2, LoginsStay DEF CredTypeOK, JobTypeOK
<1>8. \A g \in Handlers : JobOK(job[g], attempts)'
  <2> SUFFICES ASSUME NEW g \in Handlers PROVE JobOK(job'[g], attempts')
    BY DEF JobOK
  <2> QED BY <1>1 DEF CredKept
<1>9. ASSUME NEW u \in Token, Issued(u) PROVE Issued(u)'
  <2>1. CASE u = NoToken
    BY <2>1 DEF Issued
  <2>2. CASE u # NoToken
    <3>1. u.grant \in 1..Len(granted) /\ u.gen <= live[u.grant] /\ u.gen \in Int
      BY <1>9, <2>2, TableAssumption DEF Issued, Token
    <3>2. u.grant \in 1..MaxGrants
      BY <1>3, <3>1
    <3>3. u.gen <= live'[u.grant]
      BY <1>6, <3>1, <3>2
    <3>4. live'[u.grant] \in Int
      BY <1>3, <1>6, <3>2
    <3> QED BY <3>1, <3>3 DEF Issued
  <2> QED BY <2>1, <2>2
<1>10. /\ \A i \in DOMAIN rows : rows[i].refresh \in Token /\ Issued(rows[i].refresh)
       /\ \A k \in DOMAIN tokens : tokens[k].refresh \in Token /\ Issued(tokens[k].refresh)
       /\ \A g \in Handlers : job[g].row.refresh \in Token /\ Issued(job[g].row.refresh)
  BY OldRows, OldTokens, OldJobs DEF CredKept, RefreshKept, JobRow
<1>11. rows' = rows /\ tokens' = tokens /\ granted' = granted
  BY DEF tables, store
<1>12. Issued(job[h].row.refresh)'
  <2>1. CASE j.row.refresh = NoToken
    BY <1>1, <2>1 DEF Issued
  <2>2. CASE j.row.refresh # NoToken
    <3>1. j.row.refresh.grant = t.grant /\ j.row.refresh.gen <= live'[t.grant]
      BY <1>6, <2>2
    <3> QED BY <1>1, <1>4, <1>11, <3>1 DEF Issued
  <2> QED BY <2>1, <2>2
<1>13. /\ \A i \in DOMAIN rows' : Issued(rows[i].refresh)'
       /\ \A k \in DOMAIN tokens' : Issued(tokens[k].refresh)'
       /\ \A g \in Handlers : Issued(job[g].row.refresh)'
  BY <1>1, <1>9, <1>10, <1>11, <1>12 DEF Issued
<1>14. ASSUME NEW g \in Handlers, Unsaved(g)' PROVE OnlyNewest(g)'
  <2>1. CASE g = h
    <3> DEFINE n == j.row.refresh
    <3>1. /\ n.grant = t.grant /\ n.gen = live'[t.grant] /\ granted[n.grant] = j.via /\ n # NoToken
      <4>1. j.pc = "save" /\ j.via \in Rotating
        BY <1>1, <1>14, <2>1 DEF Unsaved
      <4>2. n.grant = t.grant /\ n.gen = live'[t.grant] /\ granted[n.grant] = j.via
        BY <1>2, <1>6, <4>1
      <4>3. n.grant # 0
        BY <1>3, <1>4, <4>2
      <4> QED BY <4>2, <4>3 DEF NoToken
    <3>2. ASSUME NEW u \in Token, Issued(u) PROVE OlderToken(u, n)
      <4> SUFFICES ASSUME u.grant = n.grant PROVE u.gen < n.gen
        BY DEF OlderToken
      <4>1. u.grant = t.grant /\ u.grant # 0 /\ u.gen \in Int
        BY <1>3, <1>4, <3>1, TableAssumption DEF Token
      <4>2. u.gen <= live[t.grant]
        BY <3>2, <4>1 DEF Issued, NoToken
      <4>3. n.gen = live[t.grant] + 1 /\ live[t.grant] \in Int
        BY <1>4, <1>6, <3>1
      <4> HIDE DEF n
      <4> QED BY <4>1, <4>2, <4>3
    <3>3. /\ \A i \in DOMAIN rows : OlderToken(rows[i].refresh, n)
          /\ \A k \in DOMAIN tokens : OlderToken(tokens[k].refresh, n)
          /\ \A f \in Handlers \ {h} : OlderToken(job[f].row.refresh, n)
      BY <1>10, <3>2
    <3> QED BY <1>1, <1>11, <2>1, <3>1, <3>3 DEF OnlyNewest, OlderToken
  <2>2. CASE g # h
    <3> DEFINE n == job[g].row.refresh
    <3>1. job'[g] = job[g] /\ Unsaved(g)
      BY <1>1, <1>14, <2>2 DEF Unsaved
    <3>2. OnlyNewest(g)
      BY <3>1 DEF CredKept, RefreshKept
    <3>3. n # NoToken /\ granted[n.grant] = job[g].via /\ n.gen = live[n.grant] /\ n.grant \in 1..MaxGrants
      <4>1. n # NoToken /\ granted[n.grant] = job[g].via /\ n.gen = live[n.grant]
        BY <3>2, Zenon DEF OnlyNewest
      <4>2. Issued(n)
        BY <1>10
      <4> HIDE DEF n
      <4>3. n.grant \in 1..Len(granted)
        BY <4>1, <4>2 DEF Issued
      <4>4. n.grant \in 1..MaxGrants
        BY <1>3, <4>3
      <4> QED BY <4>1, <4>4
    <3>4. n.grant # t.grant
      <4> SUFFICES ASSUME n.grant = t.grant PROVE FALSE
        OBVIOUS
      <4>1. job[h].via \in Rotating
        BY <1>2, <3>1, <3>3 DEF Unsaved
      <4>2. t.gen = n.gen
        BY <1>2, <3>3, <4>1
      <4>3. t.gen < n.gen
        BY <2>2, <3>2 DEF OnlyNewest, OlderToken
      <4>4. t.gen \in Int
        BY <1>2, TableAssumption DEF Token
      <4> HIDE DEF n
      <4> QED BY <4>2, <4>3, <4>4
    <3>5. live'[n.grant] = live[n.grant]
      BY <1>6, <3>3, <3>4
    <3>6. OlderToken(j.row.refresh, n)
      <4>1. j.row.refresh.grant # n.grant
        BY <1>3, <3>3, <3>4 DEF NoToken
      <4> QED BY <4>1 DEF OlderToken
    <3>7. \A f \in Handlers \ {g} : OlderToken(job'[f].row.refresh, n)
      BY <1>1, <3>2, <3>6 DEF OnlyNewest
    <3> QED BY <1>11, <3>1, <3>2, <3>3, <3>5, <3>7 DEF OnlyNewest, OlderToken
  <2> QED BY <2>1, <2>2
<1>15. RefreshKept'
  BY <1>13, <1>14 DEF RefreshKept
<1> QED BY <1>7, <1>8, <1>15 DEF CredKept

LEMMA RefreshAnsweredKeeps ==
  ASSUME CredKept, UNCHANGED <<attempts, offered>>, NEW h \in Handlers, RefreshAnswered(h)
  PROVE  CredKept'
<1> DEFINE t == job[h].row.refresh
           v == job[h].via
           n == [t EXCEPT !.gen = live[t.grant] + 1]
           u == IF v \in Rotating THEN n ELSE t
           j == [job[h] EXCEPT !.pc = "save", !.row.access = n, !.row.refresh = u]
<1>1. job[h].pc = "post" /\ UNCHANGED <<tables, store, granted>>
  BY DEF RefreshAnswered
<1>2. CASE ~Accepts(v, t)
  <2>1. Answer(h) /\ UNCHANGED live
    BY <1>2 DEF RefreshAnswered
  <2> QED BY <1>1, <2>1, Answers DEF upstream
<1>3. CASE Accepts(v, t)
  <2>1. Issue(t)
    BY <1>3 DEF RefreshAnswered
  <2>2. job' = [job EXCEPT ![h] = j]
    BY <1>3 DEF RefreshAnswered, Refreshed
  <2>3. /\ t \in Token /\ Issued(t) /\ t # NoToken /\ live[t.grant] < MaxGen
        /\ MaxGen \in Nat /\ MaxGrants \in Nat
    BY <1>3, OldJobs, TableAssumption DEF CredKept, RefreshKept, JobRow, Accepts
  <2>4. /\ t.grant \in 1..Len(granted) /\ t.gen <= live[t.grant]
    BY <2>3 DEF Issued
  <2>5. /\ granted \in Seq(OAuthProviders) /\ Len(granted) <= MaxGrants
        /\ live \in [1..MaxGrants -> 1..MaxGen]
    BY DEF CredKept, CredTypeOK, TokensTypeOK
  <2>6. Len(granted) \in Nat
    BY <2>5, LenProperties
  <2>7. t.grant \in 1..MaxGrants /\ t.grant \in 0..MaxGrants
    BY <2>3, <2>4, <2>5, <2>6
  <2>8. live[t.grant] \in 1..MaxGen
    BY <2>5, <2>7
  <2>9. live[t.grant] + 1 \in 0..MaxGen /\ live[t.grant] \in Int
    BY <2>3, <2>8
  <2>10. n \in Token /\ n.grant = t.grant /\ n.gen = live[t.grant] + 1
    BY <2>3, <2>9 DEF Token
  <2> HIDE DEF n
  <2>11. t.gen \in Int
    BY <2>3, TableAssumption DEF Token
  <2>12. /\ u \in Token /\ u.grant = t.grant /\ u.gen <= live[t.grant] + 1
         /\ v \in Rotating => u.gen = live[t.grant] + 1
    <3>1. CASE v \in Rotating
      BY <2>9, <2>10, <3>1
    <3>2. CASE v \notin Rotating
      <4>1. t.gen <= live[t.grant] + 1
        BY <2>4, <2>9, <2>11
      <4> QED BY <2>3, <3>2, <4>1
    <3> QED BY <3>1, <3>2
  <2> HIDE DEF u
  <2>13. /\ j \in Job /\ j.pc = "save" /\ j.via = v /\ j.id = job[h].id /\ j.row.refresh = u
         /\ j.row.provider = job[h].row.provider
    <3> DEFINE row == [job[h].row EXCEPT !.access = n, !.refresh = u]
    <3>1. job[h] \in Job /\ job[h].row \in JobRow
      BY OldJobs
    <3>2. row \in JobRow /\ row.refresh = u /\ row.provider = job[h].row.provider
      BY <2>10, <2>12, <3>1 DEF JobRow
    <3>3. j = [job[h] EXCEPT !.pc = "save", !.row = row]
      BY <3>1 DEF Job, JobRow
    <3> HIDE DEF row, j
    <3> QED BY <3>1, <3>2, <3>3 DEF Job, JobPC
  <2> HIDE DEF j
  <2>14. JobOK(j, attempts)
    BY <1>1, <2>13, OldJobs DEF JobOK
  <2> QED BY <1>1, <1>3, <2>1, <2>2, <2>12, <2>13, <2>14, IssueKeeps
<1> QED BY <1>2, <1>3

LEMMA RefreshLostKeeps ==
  ASSUME CredKept, UNCHANGED <<attempts, offered>>, NEW h \in Handlers, RefreshLost(h)
  PROVE  CredKept'
<1>1. /\ job[h].pc = "post" /\ Answer(h) /\ UNCHANGED <<tables, store, granted>>
      /\ UNCHANGED live \/ (Accepts(job[h].via, job[h].row.refresh) /\ Issue(job[h].row.refresh))
  BY DEF RefreshLost
<1>2. CASE UNCHANGED live
  BY <1>1, <1>2, Answers DEF upstream
<1>3. CASE Accepts(job[h].via, job[h].row.refresh) /\ Issue(job[h].row.refresh)
  <2>1. job' = [job EXCEPT ![h] = IdleJob]
    BY <1>1 DEF Answer
  <2>2. IdleJob \in Job /\ JobOK(IdleJob, attempts) /\ IdleJob.row.refresh = NoToken /\ IdleJob.pc # "save"
    BY Idles DEF JobOK
  <2> QED BY <1>1, <1>3, <2>1, <2>2, IssueKeeps
<1> QED BY <1>1, <1>2, <1>3

LEMMA SaveRefreshedKeeps ==
  ASSUME CredKept, UNCHANGED <<attempts, offered>>, NEW h \in Handlers, SaveRefreshed(h)
  PROVE  CredKept'
<1> DEFINE r == job[h].row
           rec == [access |-> r.access, refresh |-> r.refresh]
<1>1. job[h].pc = "save" /\ Answer(h) /\ UNCHANGED upstream
  BY DEF SaveRefreshed
<1>2. /\ r \in JobRow /\ r \in Row /\ Copied(r.refresh, {h})
      /\ job[h].id = Default => r.provider \in OAuthProviders
  BY <1>1, OldJobs, RowsAreRows DEF JobOK, Copied
<1>3. rec \in TokenRecord /\ rec.refresh = r.refresh
  BY <1>2 DEF TokenRecord, JobRow
<1>4. CASE job[h].id = Default
  <2>1. SaveToken(<<r.provider, Default>>, rec) /\ UNCHANGED tables
    BY <1>4 DEF SaveRefreshed
  <2>2. StoreMoves({h})
    <3> HIDE DEF rec
    <3> QED BY <1>2, <1>3, <1>4, <2>1, TokenSaved
  <2>3. RowsMove({h})
    <3>1. UNCHANGED <<rows, created, nodes, pools>>
      BY <2>1 DEF tables
    <3> QED BY <3>1, RowsStay DEF CredKept, CredTypeOK, TableTypeOK
  <2> QED BY <1>1, <2>2, <2>3, AnswersWriting
<1>5. CASE job[h].id # Default
  <2>1. UpdateProviderConnection(job[h].id, r) /\ UNCHANGED <<created, nodes, pools, store>>
    BY <1>5 DEF SaveRefreshed
  <2>2. RowsMove({h}) /\ StoreMoves({h})
    BY <1>2, <2>1, RowUpdated, TokensStay DEF store
  <2> QED BY <1>1, <2>2, AnswersWriting
<1> QED BY <1>4, <1>5

LEMMA OAuthDeleteKeeps ==
  ASSUME CredKept, UNCHANGED <<attempts, offered>>,
         NEW h \in Handlers, NEW p \in OAuthProviders, NEW i \in DOMAIN rows, handleOAuthDelete(h, p, i)
  PROVE  CredKept'
<1> DEFINE j == [IdleJob EXCEPT !.pc = "clear", !.id = i, !.row.provider = p]
<1>1. /\ DeleteProviderConnection(i) /\ job' = [job EXCEPT ![h] = j]
      /\ UNCHANGED <<created, nodes, pools, store, upstream>>
  BY DEF handleOAuthDelete, Begin
<1>2. i \in 0..MaxRows
  BY OldRows
<1>3. j \in Job /\ j.pc = "clear" /\ j.row.refresh = NoToken
  BY <1>2, Idles DEF Job, JobPC, JobRow
<1> HIDE DEF j
<1>4. JobOK(j, attempts) /\ Copied(j.row.refresh, {h})
  BY <1>3 DEF JobOK, Copied
<1>5. RowsMove({h}) /\ StoreMoves({h}) /\ GrantsGrow
  BY <1>1, RowDeleted, TokensStay DEF store, upstream, GrantsGrow
<1> QED BY <1>1, <1>3, <1>4, <1>5, Writes

LEMMA ClearTokenKeeps ==
  ASSUME CredKept, UNCHANGED <<attempts, offered>>, NEW h \in Handlers, ClearToken(h)
  PROVE  CredKept'
<1>1. /\ DeleteToken(<<job[h].row.provider, job[h].id>>) /\ Answer(h)
      /\ UNCHANGED upstream /\ UNCHANGED <<rows, created, nodes, pools>>
  BY DEF ClearToken, tables
<1>2. RowsMove({h}) /\ StoreMoves({h})
  <2>1. StoreMoves({h})
    BY <1>1, TokenDeleted
  <2>2. RowsMove({h})
    BY <1>1, RowsStay DEF CredKept, CredTypeOK, TableTypeOK
  <2> QED BY <2>1, <2>2
<1> QED BY <1>1, <1>2, AnswersWriting

LEMMA TokenDeleteKeeps ==
  ASSUME CredKept, UNCHANGED <<attempts, offered>>, NEW p \in OAuthProviders, handleOAuthTokenDelete(p)
  PROVE  CredKept'
<1>1. /\ DeleteToken(<<p, Default>>) /\ UNCHANGED <<rows, created, nodes, pools>>
      /\ UNCHANGED <<upstream, job>>
  BY DEF handleOAuthTokenDelete, tables
<1>2. RowsMove({}) /\ StoreMoves({}) /\ GrantsGrow
  <2>1. StoreMoves({})
    BY <1>1, TokenDeleted
  <2>2. RowsMove({})
    BY <1>1, RowsStay DEF CredKept, CredTypeOK, TableTypeOK
  <2> QED BY <1>1, <2>1, <2>2 DEF GrantsGrow, upstream
<1> QED BY <1>1, <1>2, Statement

(* The first tokens of an authorization. *)
LEMMA FirstTokens ==
  ASSUME CredKept, NEW p \in OAuthProviders, Authorize(p), live' = live
  PROVE  /\ FirstToken(NextGrant) \in Token /\ GrantsGrow
         /\ \A M : Copied(FirstToken(NextGrant), M)
<1>1. GrantsGrow
  BY DEF GrantsGrow
<1>2. granted' = Append(granted, p) /\ Len(granted) < MaxGrants /\ granted \in Seq(OAuthProviders)
  BY DEF Authorize, CredKept, CredTypeOK, TokensTypeOK
<1>3. Len(granted) \in Nat /\ MaxGrants \in Nat /\ MaxGen \in Nat \ {0}
  BY <1>2, LenProperties, TableAssumption
<1>4. Len(granted') = Len(granted) + 1
  BY <1>2, AppendProperties
<1>5. NextGrant \in 0..MaxGrants /\ 1 \in 0..MaxGen
  BY <1>2, <1>3 DEF NextGrant
<1>6. FirstToken(NextGrant) \in Token
  BY <1>5 DEF FirstToken, Token
<1>7. \A M : Copied(FirstToken(NextGrant), M)
  BY <1>4 DEF Copied, NextGrant
<1> QED BY <1>1, <1>6, <1>7

LEMMA CallbackKeeps ==
  ASSUME CredKept, UNCHANGED <<attempts, offered>>,
         NEW p \in OAuthProviders, NEW offline \in BOOLEAN, handleOAuthCallback(p, offline)
  PROVE  CredKept'
<1>1. /\ Authorize(p) /\ SaveToken(<<p, Default>>, ExchangeCode(offline))
      /\ UNCHANGED <<rows, created, nodes, pools>> /\ live' = live /\ job' = job
  BY DEF handleOAuthCallback, tables
<1>2. /\ FirstToken(NextGrant) \in Token /\ GrantsGrow
      /\ \A M : Copied(FirstToken(NextGrant), M)
  BY <1>1, FirstTokens
<1>3. /\ ExchangeCode(offline) \in TokenRecord
      /\ ExchangeCode(offline).refresh \in {FirstToken(NextGrant), NoToken}
  BY <1>2, Idles DEF ExchangeCode, TokenRecord
<1>4. Copied(ExchangeCode(offline).refresh, {})
  <2>1. Copied(NoToken, {}) /\ Copied(FirstToken(NextGrant), {})
    BY <1>2, SMTT(30) DEF Copied
  <2> QED BY <1>3, <2>1
<1>5. StoreMoves({})
  BY <1>1, <1>3, <1>4, TokenSaved
<1>6. RowsMove({})
  BY <1>1, RowsStay DEF CredKept, CredTypeOK, TableTypeOK
<1> QED BY <1>1, <1>2, <1>5, <1>6, Statement

LEMMA TokensKeep ==
  ASSUME CredKept, UNCHANGED <<attempts, offered>>,
         \/ \E h \in Handlers : \/ TokenStep(h)
                                \/ \E p \in OAuthProviders \cap offered : TokenRequest(h, p)
         \/ \E p \in OAuthProviders \cap offered :
              \/ handleOAuthTokenDelete(p)
              \/ \E offline \in BOOLEAN : handleOAuthCallback(p, offline)
  PROVE  CredKept'
<1>1. ASSUME NEW h \in Handlers, TokenStep(h) PROVE CredKept'
  BY <1>1, RefreshAnsweredKeeps, RefreshLostKeeps, SaveRefreshedKeeps, ClearTokenKeeps DEF TokenStep
<1>2. ASSUME NEW h \in Handlers, NEW p \in OAuthProviders, TokenRequest(h, p) PROVE CredKept'
  BY <1>2, RefreshFromStoreKeeps, RefreshFromRowKeeps, OAuthDeleteKeeps DEF TokenRequest
<1> QED BY <1>1, <1>2, TokenDeleteKeeps, CallbackKeeps

-----------------------------------------------------------------------------
(* Logging in *)

LEMMA OldAttempts ==
  ASSUME CredKept
  PROVE  /\ attempts \in Seq(Attempt) /\ Len(attempts) <= MaxAttempts
         /\ DOMAIN attempts = 1..Len(attempts) /\ Len(attempts) \in Nat
         /\ \A a \in DOMAIN attempts :
              /\ attempts[a] \in Attempt /\ attempts[a].provider \in OAuthProviders
              /\ a \in 0..MaxAttempts
<1>1. attempts \in Seq(Attempt) /\ Len(attempts) <= MaxAttempts
  BY DEF CredKept, CredTypeOK, FlowsTypeOK
<1>2. DOMAIN attempts = 1..Len(attempts) /\ Len(attempts) \in Nat
  BY <1>1, LenProperties
<1>3. \A a \in DOMAIN attempts : attempts[a] \in Attempt
  BY <1>1, <1>2, ElementOfSeq
<1>4. \A a \in DOMAIN attempts : attempts[a].provider \in OAuthProviders
  BY <1>3 DEF Attempt
<1>5. MaxAttempts \in Nat
  BY ConnectionAssumption
<1>6. \A a \in DOMAIN attempts : a \in 0..MaxAttempts
  BY <1>1, <1>2, <1>5
<1> QED BY <1>1, <1>2, <1>3, <1>4, <1>6

(* A login keeps its provider and its kind. *)
LoginsGrow ==
    /\ attempts' \in Seq(Attempt) /\ Len(attempts') <= MaxAttempts
    /\ \A a \in DOMAIN attempts :
         /\ a \in DOMAIN attempts' /\ attempts'[a].provider = attempts[a].provider
         /\ attempts'[a].kind = attempts[a].kind

LEMMA LoginMoves ==
  ASSUME CredKept, NEW M \in SUBSET Handlers, LoginsGrow, LoginsKept', GrantsGrow,
         UNCHANGED <<tables, store, offered>>, job' \in [Handlers -> Job],
         \A h \in Handlers \ M : job'[h] = job[h],
         \A h \in M : /\ JobOK(job'[h], attempts') /\ job'[h].pc # "save"
                      /\ Copied(job'[h].row.refresh, M)
  PROVE  CredKept'
<1>1. UNCHANGED <<rows, created, nodes, pools>> /\ tokens' = tokens
  BY DEF tables, store
<1>2. RowsMove(M) /\ StoreMoves(M)
  BY <1>1, RowsStay, TokensStay DEF CredKept, CredTypeOK, TableTypeOK
<1>3. TokensTypeOK'
  BY <1>2, GrantsStay DEF StoreMoves, CredKept, CredTypeOK, TokensTypeOK, GrantsGrow
<1>4. FlowsTypeOK'
  BY DEF CredKept, CredTypeOK, FlowsTypeOK, LoginsGrow
<1>5. CredTypeOK'
  BY <1>2, <1>3, <1>4 DEF CredTypeOK, JobTypeOK, RowsMove
<1>6. \A h \in Handlers \ M : job'[h] = job[h] /\ JobOK(job[h], attempts')
  BY DEF CredKept, JobOK, LoginsGrow
<1> QED BY <1>2, <1>5, <1>6, CopiesKeep DEF RowsMove, StoreMoves

LEMMA StartAttemptKeeps ==
  ASSUME CredKept, offered' = offered, NEW p \in OAuthProviders,
         NEW kind \in {"code", "device", "social"}, NEW challenge \in BOOLEAN,
         StartAttempt(p, kind, challenge), kind = "device" => challenge = DeviceSendsChallenge(p),
         kind = "social" => challenge
  PROVE  CredKept'
<1> DEFINE new == [provider |-> p, kind |-> kind, challenge |-> challenge, given |-> FALSE,
                   state |-> "pending"]
<1>1. /\ Len(attempts) < MaxAttempts /\ attempts' = Append(attempts, new)
      /\ UNCHANGED <<tables, job, store, upstream>>
  BY DEF StartAttempt
<1>2. new \in Attempt
  BY DEF Attempt
<1>3. LoginOK(new)
  BY DEF LoginOK
<1> HIDE DEF new
<1>4. /\ attempts' \in Seq(Attempt) /\ Len(attempts') = Len(attempts) + 1
      /\ \A a \in 1..Len(attempts) : attempts'[a] = attempts[a]
      /\ attempts'[Len(attempts) + 1] = new
  BY <1>1, <1>2, OldAttempts, AppendProperties
<1>5. DOMAIN attempts' = 1..(Len(attempts) + 1)
  BY <1>4, LenProperties
<1>6. LoginsGrow
  <2>1. \A a \in DOMAIN attempts : a \in 1..(Len(attempts) + 1) /\ a \in 1..Len(attempts)
    BY OldAttempts
  <2>2. MaxAttempts \in Nat
    BY ConnectionAssumption
  <2>3. Len(attempts') <= MaxAttempts
    BY <1>1, <1>4, <2>2, OldAttempts
  <2> QED BY <1>4, <1>5, <2>1, <2>3 DEF LoginsGrow
<1>7. LoginsKept'
  <2> SUFFICES ASSUME NEW a \in DOMAIN attempts' PROVE LoginOK(attempts'[a])
    BY DEF LoginsKept, LoginOK, DeviceSendsChallenge
  <2>1. a \in 1..Len(attempts) \/ a = Len(attempts) + 1
    BY <1>5, OldAttempts
  <2>2. CASE a \in 1..Len(attempts)
    BY <1>4, <2>2, OldAttempts DEF CredKept, LoginsKept
  <2>3. CASE a = Len(attempts) + 1
    BY <1>3, <1>4, <2>3
  <2> QED BY <2>1, <2>2, <2>3
<1>8. GrantsGrow /\ job' \in [Handlers -> Job] /\ job' = job
  BY <1>1 DEF GrantsGrow, upstream, CredKept, CredTypeOK, JobTypeOK
<1>9. {} \in SUBSET Handlers
  OBVIOUS
<1>10. /\ \A h \in Handlers \ {} : job'[h] = job[h]
       /\ \A h \in {} : /\ JobOK(job'[h], attempts') /\ job'[h].pc # "save"
                        /\ Copied(job'[h].row.refresh, {})
  BY <1>8
<1> QED BY <1>1, <1>6, <1>7, <1>8, <1>9, <1>10, LoginMoves

(* What becomes of a login. *)
LEMMA Outcomes ==
  ASSUME CredKept, NEW a \in DOMAIN attempts, NEW new \in Attempt,
         attempts' = [attempts EXCEPT ![a] = new], LoginOK(new),
         new.provider = attempts[a].provider, new.kind = attempts[a].kind
  PROVE  LoginsGrow /\ LoginsKept'
<1>1. attempts' \in Seq(Attempt) /\ Len(attempts') = Len(attempts)
  BY OldAttempts, ExceptSeq
<1>2. DOMAIN attempts' = DOMAIN attempts
  OBVIOUS
<1>3. attempts'[a] = new /\ \A b \in DOMAIN attempts : b # a => attempts'[b] = attempts[b]
  OBVIOUS
<1>4. LoginsGrow
  BY <1>1, <1>2, <1>3, OldAttempts DEF LoginsGrow
<1>5. LoginsKept'
  <2> SUFFICES ASSUME NEW b \in DOMAIN attempts' PROVE LoginOK(attempts'[b])
    BY DEF LoginsKept, LoginOK, DeviceSendsChallenge
  <2>1. CASE b = a
    BY <1>3, <2>1
  <2>2. CASE b # a
    BY <1>2, <1>3, <2>2 DEF CredKept, LoginsKept
  <2> QED BY <2>1, <2>2
<1> QED BY <1>4, <1>5

LEMMA DecideKeeps ==
  ASSUME CredKept, offered' = offered, NEW a \in DOMAIN attempts,
         NEW state \in {"approved", "denied"}, Decide(a, state)
  PROVE  CredKept'
<1>1. attempts' = [attempts EXCEPT ![a].state = state] /\ UNCHANGED <<tables, job, store, upstream>>
  BY DEF Decide
<1>2. LoginsGrow /\ LoginsKept'
  <2> DEFINE new == [attempts[a] EXCEPT !.state = state]
  <2>1. attempts' = [attempts EXCEPT ![a] = new]
    BY <1>1
  <2>2. attempts[a] \in Attempt /\ LoginOK(attempts[a])
    BY OldAttempts DEF CredKept, LoginsKept
  <2>3. new \in Attempt /\ new.provider = attempts[a].provider /\ new.kind = attempts[a].kind
    BY <2>2 DEF Attempt
  <2>4. LoginOK(new)
    BY <2>2 DEF Attempt, LoginOK
  <2> HIDE DEF new
  <2> QED BY <2>1, <2>3, <2>4, Outcomes
<1>3. GrantsGrow /\ job' \in [Handlers -> Job] /\ job' = job
  BY <1>1 DEF GrantsGrow, upstream, CredKept, CredTypeOK, JobTypeOK
<1>4. {} \in SUBSET Handlers
  OBVIOUS
<1>5. /\ \A h \in Handlers \ {} : job'[h] = job[h]
      /\ \A h \in {} : /\ JobOK(job'[h], attempts') /\ job'[h].pc # "save"
                       /\ Copied(job'[h].row.refresh, {})
  BY <1>3
<1> QED BY <1>1, <1>2, <1>3, <1>4, <1>5, LoginMoves

LEMMA DynamicGetKeeps ==
  ASSUME CredKept, offered' = offered, NEW p \in OAuthProviders, handleOAuthDynamicGet(p)
  PROVE  CredKept'
<1>1. CASE handleOAuthAuthorizeGeneric(p)
  <2>1. StartAttempt(p, "code", AuthorizeSendsChallenge(p)) /\ AuthorizeSendsChallenge(p) \in BOOLEAN
    BY <1>1 DEF handleOAuthAuthorizeGeneric, AuthorizeSendsChallenge
  <2> QED BY <2>1, StartAttemptKeeps
<1>2. DeviceSendsChallenge(p) \in BOOLEAN
  BY DEF DeviceSendsChallenge
<1>3. CASE handleOAuthDeviceCode(p) /\ p # "kiro"
  <2>1. StartAttempt(p, "device", DeviceSendsChallenge(p))
    BY <1>3 DEF handleOAuthDeviceCode, RequestDeviceCode
  <2> QED BY <1>2, <2>1, StartAttemptKeeps
<1>4. CASE handleOAuthDeviceCode(p) /\ p = "kiro"
  <2>1. StartAttempt(p, "device", FALSE)
    BY <1>4 DEF handleOAuthDeviceCode, requestKiroDeviceCode
  <2>2. DeviceSendsChallenge(p) = FALSE
    BY <1>4 DEF DeviceSendsChallenge, Registry, JSONProviders
  <2> QED BY <2>1, <2>2, StartAttemptKeeps
<1>5. CASE p = "kiro" /\ handleKiroSocialAuthorize
  <2>1. StartAttempt(p, "social", TRUE)
    BY <1>5 DEF handleKiroSocialAuthorize
  <2> QED BY <2>1, StartAttemptKeeps
<1> QED BY <1>1, <1>3, <1>4, <1>5 DEF handleOAuthDynamicGet

LEMMA RedeemKeeps ==
  ASSUME CredKept, offered' = offered, NEW h \in Handlers, NEW a \in DOMAIN attempts,
         NEW given \in BOOLEAN, Redeem(h, a, given), attempts[a].kind = "social" => given
  PROVE  CredKept'
<1> DEFINE p == attempts[a].provider
           j == [IdleJob EXCEPT !.pc = "redeem", !.attempt = a, !.verifier = given, !.via = p]
<1>1. job' = [job EXCEPT ![h] = j] /\ UNCHANGED <<tables, store, upstream, attempts>>
  BY DEF Redeem, Begin
<1>2. p \in OAuthProviders /\ a \in 0..MaxAttempts
  BY OldAttempts
<1> HIDE DEF p
<1>3. /\ j \in Job /\ j.pc = "redeem" /\ j.attempt = a /\ j.via = p /\ j.row.refresh = NoToken
      /\ j.verifier = given
  BY <1>2, Idles DEF Job, JobPC
<1> HIDE DEF j
<1>4. JobOK(j, attempts) /\ Copied(j.row.refresh, {h})
  BY <1>2, <1>3 DEF JobOK, Copied, p
<1> QED BY <1>1, <1>3, <1>4, JobMoves

(* The provider answers, whatever it makes of the verifier. *)
LEMMA AnsweredKeeps ==
  ASSUME CredKept, UNCHANGED <<tables, store, live, offered>>, NEW h \in Handlers,
         NEW sent \in BOOLEAN, job[h].pc = "redeem", Answered(h, sent),
         LET login == attempts[job[h].attempt] IN
           \/ login.kind \in {"code", "social"} /\ sent = job[h].verifier
           \/ /\ login.kind = "device"
              /\ job[h].verifier => sent = login.challenge
              /\ ~job[h].verifier => ~sent
  PROVE  CredKept'
<1> DEFINE a == job[h].attempt
           t == FirstToken(NextGrant)
           r == NewRow(job[h].via, t, t, "active")
           j == [job[h] EXCEPT !.pc = "extra", !.row = r]
<1>1. PICK verdict \in Verdicts(attempts[a], sent) :
        /\ attempts' = [attempts EXCEPT ![a].state = verdict, ![a].given = job[h].verifier]
        /\ \/ verdict = "spent" /\ Authorize(job[h].via) /\ job' = [job EXCEPT ![h] = j]
           \/ verdict # "spent" /\ Answer(h) /\ UNCHANGED granted
  BY DEF Answered, MapTokens
<1>2. a \in DOMAIN attempts /\ job[h].via \in OAuthProviders /\ job[h].verifier \in BOOLEAN
  BY OldJobs DEF JobOK, Job
<1>3. attempts[a] \in Attempt /\ LoginOK(attempts[a])
  BY <1>2, OldAttempts DEF CredKept, LoginsKept
<1>4. LoginsGrow /\ LoginsKept'
  <2> DEFINE mid == [attempts[a] EXCEPT !.state = verdict]
             new == [mid EXCEPT !.given = job[h].verifier]
  <2>1. verdict \in {"spent", "refused"}
    BY <1>1 DEF Verdicts
  <2>2. /\ mid \in Attempt /\ mid.state = verdict /\ mid.kind = attempts[a].kind
        /\ mid.challenge = attempts[a].challenge /\ mid.provider = attempts[a].provider
    BY <1>3, <2>1 DEF Attempt
  <2> HIDE DEF mid
  <2>3. /\ new \in Attempt /\ new.state = verdict /\ new.kind = attempts[a].kind
        /\ new.challenge = attempts[a].challenge /\ new.provider = attempts[a].provider
        /\ new.given = job[h].verifier
    BY <1>2, <2>2 DEF Attempt
  <2>4. attempts' = [attempts EXCEPT ![a] = new]
    BY <1>1 DEF mid
  <2> HIDE DEF new
  <2>5. new.state = "refused" =>
          IF new.given THEN new.kind = "code" /\ ~new.challenge ELSE new.challenge
    <3>1. CASE sent = attempts[a].challenge
      BY <1>1, <2>3, <3>1 DEF Verdicts
    <3>2. CASE sent # attempts[a].challenge
      BY <1>3, <2>3, <3>2, OldJobs DEF LoginOK, Attempt, JobOK
    <3> QED BY <3>1, <3>2
  <2>6. LoginOK(new)
    BY <1>3, <2>3, <2>5 DEF LoginOK
  <2> QED BY <1>2, <2>3, <2>4, <2>6, Outcomes
<1>5. CASE verdict = "spent"
  <2>1. live' = live /\ Authorize(job[h].via) /\ job' = [job EXCEPT ![h] = j]
    BY <1>1, <1>5
  <2>2. t \in Token /\ GrantsGrow /\ \A M : Copied(t, M)
    BY <1>2, <2>1, FirstTokens
  <2> HIDE DEF t
  <2>3. r \in JobRow /\ r.refresh = t /\ r.provider = job[h].via
    BY <1>2, <2>2 DEF NewRow, JobRow, Statuses
  <2> HIDE DEF r
  <2>4. j \in Job /\ j.pc = "extra" /\ j.via = job[h].via /\ j.row = r
    BY <2>3, OldJobs DEF Job, JobPC
  <2> HIDE DEF j, a
  <2>5. JobOK(j, attempts')
    BY <1>2, <2>3, <2>4 DEF JobOK, Owners
  <2>6. Copied(j.row.refresh, {h})
    BY <2>2, <2>3, <2>4
  <2>7. /\ job' \in [Handlers -> Job] /\ \A g \in Handlers \ {h} : job'[g] = job[g]
        /\ job'[h] = j
    BY <2>1, <2>4 DEF CredKept, CredTypeOK, JobTypeOK
  <2>8. \A g \in {h} : /\ JobOK(job'[g], attempts') /\ job'[g].pc # "save"
                       /\ Copied(job'[g].row.refresh, {h})
    BY <2>4, <2>5, <2>6, <2>7
  <2> QED BY <1>4, <2>2, <2>7, <2>8, LoginMoves
<1>6. CASE verdict # "spent"
  <2>1. job' = [job EXCEPT ![h] = IdleJob] /\ granted' = granted /\ live' = live
    BY <1>1, <1>6 DEF Answer
  <2>2. GrantsGrow
    BY <2>1 DEF GrantsGrow
  <2>3. IdleJob \in Job /\ JobOK(IdleJob, attempts') /\ IdleJob.pc # "save" /\ Copied(IdleJob.row.refresh, {h})
    BY Idles DEF JobOK, Copied
  <2>4. /\ job' \in [Handlers -> Job] /\ \A g \in Handlers \ {h} : job'[g] = job[g]
        /\ job'[h] = IdleJob
    BY <2>1, <2>3 DEF CredKept, CredTypeOK, JobTypeOK
  <2>5. \A g \in {h} : /\ JobOK(job'[g], attempts') /\ job'[g].pc # "save"
                       /\ Copied(job'[g].row.refresh, {h})
    BY <2>3, <2>4
  <2> QED BY <1>4, <2>2, <2>4, <2>5, LoginMoves
<1> QED BY <1>5, <1>6

LEMMA ExchangesKeep ==
  ASSUME CredKept, offered' = offered, NEW h \in Handlers,
         (\E b \in BOOLEAN : ExchangeToken(h, b)) \/ exchangeKiroSocialCode(h)
  PROVE  CredKept'
<1>1. /\ job[h].pc = "redeem" /\ UNCHANGED <<tables, store, live>>
      /\ attempts[job[h].attempt].kind \in {"code", "social"}
      /\ Answered(h, job[h].verifier) \/ (Answer(h) /\ UNCHANGED <<granted, attempts>>)
  BY DEF ExchangeToken, exchangeKiroSocialCode, Redeeming
<1>2. CASE Answered(h, job[h].verifier)
  <2>1. job[h].verifier \in BOOLEAN
    BY OldJobs DEF Job
  <2> QED BY <1>1, <1>2, <2>1, AnsweredKeeps
<1>3. CASE Answer(h) /\ UNCHANGED <<granted, attempts>>
  BY <1>1, <1>3, Answers DEF upstream
<1> QED BY <1>1, <1>2, <1>3

LEMMA PollsKeep ==
  ASSUME CredKept, offered' = offered, NEW h \in Handlers,
         PollDeviceToken(h) \/ pollKilocodeToken(h)
  PROVE  CredKept'
<1> DEFINE p == job[h].via
           a == job[h].attempt
<1>1. job[h].pc = "redeem" /\ attempts[a].kind = "device" /\ UNCHANGED <<tables, store, live>>
  BY DEF PollDeviceToken, pollKilocodeToken, Redeeming
<1>2. /\ a \in DOMAIN attempts /\ p \in OAuthProviders /\ attempts[a].provider = p
      /\ job[h].verifier \in BOOLEAN
  BY <1>1, OldJobs DEF JobOK, Job
<1>3. attempts[a].challenge = DeviceSendsChallenge(p)
  BY <1>1, <1>2 DEF CredKept, LoginsKept, LoginOK
<1>4. CASE State(h) = "approved"
  <2>1. CASE PollDeviceToken(h)
    <3>1. Answered(h, PollSendsVerifier(p, job[h].verifier))
      BY <1>4, <2>1 DEF PollDeviceToken
    <3>2. PollSendsVerifier(p, job[h].verifier) = (DeviceSendsChallenge(p) /\ job[h].verifier)
      BY DEF PollSendsVerifier, DeviceSendsChallenge
    <3> DEFINE sent == PollSendsVerifier(p, job[h].verifier)
    <3>3. /\ sent \in BOOLEAN /\ Answered(h, sent)
          /\ job[h].verifier => sent = attempts[a].challenge
          /\ ~job[h].verifier => ~sent
      BY <1>2, <1>3, <3>1, <3>2 DEF PollSendsVerifier, DeviceSendsChallenge
    <3> HIDE DEF sent
    <3> QED BY <1>1, <3>3, AnsweredKeeps
  <2>2. CASE pollKilocodeToken(h)
    <3>1. Answered(h, FALSE) /\ p = "kilocode"
      BY <1>4, <2>2 DEF pollKilocodeToken
    <3>2. attempts[a].challenge = FALSE
      BY <1>3, <3>1 DEF DeviceSendsChallenge, Registry, JSONProviders
    <3> QED BY <1>1, <3>1, <3>2, AnsweredKeeps
  <2> QED BY <2>1, <2>2
<1>5. CASE State(h) # "approved"
  <2> DEFINE r == NewRow(p, NoToken, NoToken, "active")
             j == [job[h] EXCEPT !.pc = "insert", !.row = r]
  <2>1. UNCHANGED <<granted, attempts>> /\ (Answer(h) \/ job' = [job EXCEPT ![h] = j])
    BY <1>5 DEF PollDeviceToken, pollKilocodeToken
  <2>2. CASE Answer(h)
    BY <1>1, <2>1, <2>2, Answers DEF upstream
  <2>3. CASE job' = [job EXCEPT ![h] = j]
    <3>1. r \in JobRow /\ r.refresh = NoToken /\ r.provider = p
      BY <1>2, Idles DEF NewRow, JobRow, Statuses
    <3> HIDE DEF r
    <3>2. j \in Job /\ j.pc = "insert" /\ j.row = r
      BY <3>1, OldJobs DEF Job, JobPC
    <3> HIDE DEF j
    <3>3. JobOK(j, attempts) /\ Copied(j.row.refresh, {h})
      BY <1>2, <3>1, <3>2 DEF JobOK, Copied, Owners
    <3> QED BY <1>1, <2>1, <2>3, <3>2, <3>3, JobMoves DEF upstream
  <2> QED BY <2>1, <2>2, <2>3
<1> QED BY <1>4, <1>5

LEMMA PostExchangeKeeps ==
  ASSUME CredKept, offered' = offered, NEW h \in Handlers, PostExchange(h)
  PROVE  CredKept'
<1>1. /\ job[h].pc = "extra" /\ UNCHANGED <<tables, store, upstream, attempts>>
      /\ Goto(h, "insert") \/ Answer(h)
  BY DEF PostExchange, FetchAPIKey, FetchExtras
<1>2. JobOK([job[h] EXCEPT !.pc = "insert"], attempts)
  <2> DEFINE j == [job[h] EXCEPT !.pc = "insert"]
  <2>1. j.pc = "insert" /\ j.row = job[h].row
    BY OldJobs, Going, ZenonT(60) DEF JobPC
  <2> HIDE DEF j
  <2>2. JobOK(j, attempts)
    BY <1>1, <2>1, OldJobs DEF JobOK
  <2> QED BY <2>2 DEF j
<1>3. "insert" \in JobPC
  BY DEF JobPC
<1> QED BY <1>1, <1>2, <1>3, Gotos, Answers

LEMMA ImportKeeps ==
  ASSUME CredKept, offered' = offered, NEW p \in OAuthProviders, NEW status \in Statuses,
         createOAuthConnection(p, status)
  PROVE  CredKept'
<1> DEFINE t == FirstToken(NextGrant)
           r == NewRow(p, t, NoToken, status)
<1>1. /\ Authorize(p) /\ CreateProviderConnection(r)
      /\ UNCHANGED <<nodes, pools, job, store, live, attempts>>
  BY DEF createOAuthConnection
<1>2. t \in Token /\ GrantsGrow
  BY <1>1, FirstTokens
<1> HIDE DEF t
<1>3. r \in Row /\ Copied(r.refresh, {})
  BY <1>2, Idles DEF NewRow, Row, Copied
<1> HIDE DEF r
<1>4. RowsMove({}) /\ StoreMoves({})
  BY <1>1, <1>3, RowInserted, TokensStay DEF store
<1> QED BY <1>1, <1>2, <1>4, Statement

LEMMA OfferedImports ==
  ASSUME CredKept, NEW p \in Imported, p \in offered
  PROVE  p \in OAuthProviders
BY FlowsAssumption DEF CredKept, CredTypeOK, FlowsTypeOK

LEMMA ImportsKeep ==
  ASSUME CredKept, offered' = offered,
         handleCursorImport \/ handleIFlowCookie \/ handleGitLabPAT \/ handleWebCookie
  PROVE  CredKept'
<1>1. PICK p \in Imported, status \in Statuses : createOAuthConnection(p, status)
  BY DEF handleCursorImport, handleIFlowCookie, handleGitLabPAT, handleWebCookie, Imported, Statuses
<1>2. p \in OAuthProviders
  BY <1>1, OfferedImports DEF createOAuthConnection
<1> QED BY <1>1, <1>2, ImportKeeps

LEMMA KiroImportKeeps ==
  ASSUME CredKept, offered' = offered, NEW h \in Handlers, handleKiroImport(h)
  PROVE  CredKept'
<1> DEFINE j == [IdleJob EXCEPT !.pc = "import", !.via = "kiro"]
<1>1. job' = [job EXCEPT ![h] = j] /\ UNCHANGED <<tables, store, upstream, attempts>>
  BY DEF handleKiroImport, Begin
<1>2. "kiro" \in OAuthProviders
  BY OfferedImports DEF handleKiroImport, Imported
<1>3. j \in Job /\ j.pc = "import" /\ j.via = "kiro" /\ j.row.refresh = NoToken
  BY <1>2, Idles DEF Job, JobPC
<1> HIDE DEF j
<1>4. JobOK(j, attempts) /\ Copied(j.row.refresh, {h})
  BY <1>2, <1>3 DEF JobOK, Copied
<1> QED BY <1>1, <1>3, <1>4, JobMoves

LEMMA ValidateImportKeeps ==
  ASSUME CredKept, offered' = offered, NEW h \in Handlers, NEW ok \in BOOLEAN,
         validateKiroImportToken(h, ok)
  PROVE  CredKept'
<1>1. job[h].pc = "import" /\ UNCHANGED <<tables, store, live, attempts>>
  BY DEF validateKiroImportToken
<1>2. CASE ok = FALSE
  BY <1>1, <1>2, Answers DEF validateKiroImportToken, upstream
<1>3. CASE ok = TRUE
  <2> DEFINE t == FirstToken(NextGrant)
             r == NewRow(job[h].via, t, t, "active")
             j == [job[h] EXCEPT !.pc = "insert", !.row = r]
  <2>1. Authorize("kiro") /\ job' = [job EXCEPT ![h] = j]
    BY <1>3 DEF validateKiroImportToken, MapTokens
  <2>2. job[h].via \in OAuthProviders /\ job[h].via = "kiro" /\ "kiro" \in OAuthProviders
    BY <1>1, OldJobs DEF JobOK
  <2>3. t \in Token /\ GrantsGrow /\ \A M : Copied(t, M)
    BY <1>1, <2>1, <2>2, FirstTokens
  <2> HIDE DEF t
  <2>4. r \in JobRow /\ r.refresh = t /\ r.provider = job[h].via
    BY <2>2, <2>3 DEF NewRow, JobRow, Statuses
  <2> HIDE DEF r
  <2>5. j \in Job /\ j.pc = "insert" /\ j.row = r
    BY <2>4, OldJobs DEF Job, JobPC
  <2> HIDE DEF j
  <2>6. JobOK(j, attempts) /\ Copied(j.row.refresh, {h})
    BY <2>2, <2>3, <2>4, <2>5 DEF JobOK, Owners
  <2>7. RowsMove({h}) /\ StoreMoves({h})
    BY <1>1, RowsStay, TokensStay DEF CredKept, CredTypeOK, TableTypeOK, tables, store
  <2> QED BY <1>1, <2>1, <2>3, <2>5, <2>6, <2>7, Writes
<1> QED BY <1>2, <1>3

LEMMA BackfillKeeps ==
  ASSUME CredKept, offered' = offered, NEW h \in Handlers, NEW i \in DOMAIN rows,
         backfillCodexEmails(h, i)
  PROVE  CredKept'
<1> DEFINE j == [IdleJob EXCEPT !.pc = "write", !.id = i, !.row = rows[i]]
<1>1. job' = [job EXCEPT ![h] = j] /\ UNCHANGED <<tables, store, upstream, attempts>>
  BY DEF backfillCodexEmails, Begin
<1>2. i \in 0..MaxRows /\ rows[i] \in JobRow /\ rows[i].provider \in Owners
  BY OldRows
<1>3. j \in Job /\ j.row = rows[i] /\ j.pc = "write"
  BY <1>2, Idles DEF Job, JobPC
<1> HIDE DEF j
<1>4. JobOK(j, attempts) /\ Copied(j.row.refresh, {h})
  BY <1>2, <1>3 DEF JobOK, Copied
<1> QED BY <1>1, <1>3, <1>4, JobMoves

LEMMA LoginsKeep ==
  ASSUME CredKept, offered' = offered, NEW h \in Handlers,
         LoginStep(h) \/ handleOAuthDynamicPost(h)
  PROVE  CredKept'
<1>1. CASE LoginStep(h)
  <2>1. CASE ClientLeaves(h)
    BY <2>1, Answers DEF ClientLeaves
  <2> QED BY <1>1, <2>1, ExchangesKeep, PollsKeep, PostExchangeKeeps, ValidateImportKeeps DEF LoginStep
<1>2. CASE handleOAuthDynamicPost(h)
  <2>1. ASSUME NEW a \in DOMAIN attempts,
               \/ \E given \in BOOLEAN : handleOAuthExchange(h, a, given) \/ handleOAuthPoll(h, a, given)
               \/ handleKiroSocialExchange(h, a)
        PROVE  CredKept'
    BY <2>1, RedeemKeeps DEF handleOAuthExchange, handleOAuthPoll, handleKiroSocialExchange
  <2> QED BY <1>2, <2>1, ImportsKeep, KiroImportKeeps DEF handleOAuthDynamicPost
<1> QED BY <1>1, <1>2

-----------------------------------------------------------------------------
LEMMA CredKeptInit == CredInit => CredKept
<1> SUFFICES ASSUME CredInit PROVE CredKept
  OBVIOUS
<1>1. /\ DOMAIN rows = {} /\ created = 0 /\ DOMAIN nodes = {} /\ pools = {}
      /\ \A h \in Handlers : job[h] = IdleJob
      /\ job = [h \in Handlers |-> IdleJob]
      /\ DOMAIN tokens = {} /\ granted = <<>> /\ live = [g \in 1..MaxGrants |-> 1]
      /\ attempts = <<>> /\ offered \in Offers
  BY DEF CredInit, TableInit, JobInit, TokensInit
<1>2. /\ MaxRows \in Nat /\ MaxGrants \in Nat /\ 1 \in 1..MaxGen
  BY TableAssumption
<1>3. MaxAttempts \in Nat
  BY ConnectionAssumption
<1>4. TableTypeOK
  <2>1. created \in 0..MaxRows
    BY <1>1, <1>2
  <2> QED BY <1>1, <2>1 DEF TableTypeOK
<1>5. JobTypeOK
  BY <1>1, Idles DEF JobTypeOK
<1>6. TokensTypeOK
  <2>1. granted \in Seq(OAuthProviders) /\ Len(granted) = 0
    BY <1>1, EmptySeq
  <2>2. live \in [1..MaxGrants -> 1..MaxGen]
    BY <1>1, <1>2
  <2> QED BY <1>1, <1>2, <2>1, <2>2 DEF TokensTypeOK
<1>7. FlowsTypeOK
  <2>1. attempts \in Seq(Attempt) /\ Len(attempts) = 0
    BY <1>1, EmptySeq
  <2> QED BY <1>1, <1>3, <2>1 DEF FlowsTypeOK
<1>8. \A h \in Handlers : JobOK(job[h], attempts) /\ job[h].pc = "idle" /\ job[h].row.refresh = NoToken
  BY <1>1, Idles DEF JobOK
<1>9. LoginsKept
  BY <1>1 DEF LoginsKept
<1>10. RefreshKept
  BY <1>1, <1>8 DEF RefreshKept, Issued, Unsaved
<1> QED BY <1>4, <1>5, <1>6, <1>7, <1>8, <1>9, <1>10 DEF CredKept, CredTypeOK

LEMMA CredKeptStep == CredKept /\ [CredNext]_credVars => CredKept'
<1> SUFFICES ASSUME CredKept, [CredNext]_credVars PROVE CredKept'
  OBVIOUS
<1>1. CASE UNCHANGED credVars
  <2>1. /\ UNCHANGED <<rows, created, nodes, pools, job, tokens, granted, live, attempts, offered>>
    BY <1>1 DEF credVars, tables, store, upstream
  <2>2. RowsMove({}) /\ StoreMoves({}) /\ GrantsGrow
    BY <2>1, RowsStay, TokensStay DEF CredKept, CredTypeOK, TableTypeOK, GrantsGrow
  <2> QED BY <2>1, <2>2, Statement
<1>2. CASE CredNext
  <2>1. offered' = offered
    BY <1>2 DEF CredNext
  <2>2. CASE /\ UNCHANGED <<store, upstream, attempts>>
             /\ \/ \E h \in Handlers : HandlerStep(h) \/ ConnectionRequest(h, offered)
                \/ SingleStatement(offered)
    BY <2>1, <2>2, ConnectionsKeep, SingleStatementKeeps
  <2>3. CASE /\ UNCHANGED attempts
             /\ \/ \E h \in Handlers :
                     TokenStep(h) \/ \E p \in OAuthProviders \cap offered : TokenRequest(h, p)
                \/ \E p \in OAuthProviders \cap offered :
                     \/ handleOAuthTokenDelete(p)
                     \/ \E offline \in BOOLEAN : handleOAuthCallback(p, offline)
    BY <2>1, <2>3, TokensKeep
  <2>4. CASE \E p \in OAuthProviders \cap offered : handleOAuthDynamicGet(p)
    BY <2>1, <2>4, DynamicGetKeeps
  <2>5. CASE \E a \in DOMAIN attempts, state \in {"approved", "denied"} : Decide(a, state)
    BY <2>1, <2>5, DecideKeeps
  <2>6. CASE \E h \in Handlers : \/ LoginStep(h) \/ handleOAuthDynamicPost(h)
                                 \/ \E i \in DOMAIN rows : backfillCodexEmails(h, i)
    BY <2>1, <2>6, LoginsKeep, BackfillKeeps
  <2> QED BY <1>2, <2>2, <2>3, <2>4, <2>5, <2>6 DEF CredNext
<1> QED BY <1>1, <1>2

LEMMA CredInvariance == CredSpec => []CredKept
BY CredKeptInit, CredKeptStep, PTL DEF CredSpec

(* The states of the connections, the token store, the logins and the      *)
(* requests that serve them are well formed.                               *)
THEOREM CredTypeCorrect == CredSpec => []CredTypeOK
<1>1. CredKept => CredTypeOK
  BY DEF CredKept
<1> QED BY <1>1, CredInvariance, PTL

(* Whatever logs in, refreshes, edits and deletes at once: a login that    *)
(* the user approved is refused for its verifier only if the client left   *)
(* out the one of a challenge, or gave one in a code login that had no     *)
(* challenge; and a rotated token that is about to be saved is the newest. *)
THEOREM CredentialsStayGood == CredSpec => [](ChallengeIsAnswered /\ UnsavedTokenIsLive)
<1>1. CredKept => ChallengeIsAnswered /\ UnsavedTokenIsLive
  BY DEF CredKept, LoginsKept, LoginOK, RefreshKept, Unsaved, OnlyNewest, ChallengeIsAnswered,
     UnsavedTokenIsLive
<1> QED BY <1>1, CredInvariance, PTL

-----------------------------------------------------------------------------
(* What a step may add to the rows. *)
NothingBack == DOMAIN rows' \ DOMAIN rows \subseteq (created + 1)..created'

LEMMA RowsAreNew ==
  ASSUME CredKept, \/ rows' = rows
                   \/ \E i, r : UpdateProviderConnection(i, r)
                   \/ \E i : DeleteProviderConnection(i)
                   \/ \E r : CreateProviderConnection(r)
  PROVE  NothingBack
<1>1. ASSUME NEW r, CreateProviderConnection(r) PROVE NothingBack
  <2>1. created' = created + 1 /\ DOMAIN rows' = DOMAIN rows \cup {created + 1}
    BY <1>1 DEF CreateProviderConnection
  <2>2. created \in Int
    BY TableAssumption DEF CredKept, CredTypeOK, TableTypeOK
  <2>3. created + 1 \in (created + 1)..created'
    BY <2>1, <2>2
  <2> QED BY <2>1, <2>3 DEF NothingBack
<1>2. ASSUME NEW i, NEW r, UpdateProviderConnection(i, r) PROVE NothingBack
  BY <1>2 DEF UpdateProviderConnection, NothingBack
<1>3. ASSUME NEW i, DeleteProviderConnection(i) PROVE NothingBack
  BY <1>3 DEF DeleteProviderConnection, NothingBack
<1>4. CASE rows' = rows
  BY <1>4 DEF NothingBack
<1> QED BY <1>1, <1>2, <1>3, <1>4

LEMMA ConnectionRows ==
  ASSUME CredKept,
         \/ \E h \in Handlers : HandlerStep(h) \/ ConnectionRequest(h, offered)
         \/ SingleStatement(offered)
  PROVE  NothingBack
<1>1. ASSUME NEW h \in Handlers, HandlerStep(h) PROVE NothingBack
  BY <1>1, RowsAreNew DEF HandlerStep, CheckNode, CheckAlone, InsertConnection, WriteConnection,
     WriteNode, ValidateProvider, tables
<1>2. ASSUME NEW h \in Handlers, ConnectionRequest(h, offered) PROVE NothingBack
  BY <1>2, RowsAreNew DEF ConnectionRequest, handleProvidersCreate, handleProviderTest,
     handleProvidersUpdate, handleProviderNodesUpdate, tables
<1>3. CASE SingleStatement(offered)
  BY <1>3, RowsAreNew DEF SingleStatement, handleProvidersDelete, handleProviderNodesCreate,
     handleProviderNodesDelete, saveProxyPool, handleProxyPoolsDelete
<1> QED BY <1>1, <1>2, <1>3

LEMMA TokenRows ==
  ASSUME CredKept, NEW h \in Handlers, NEW p,
         \/ TokenStep(h) \/ TokenRequest(h, p) \/ handleOAuthTokenDelete(p)
         \/ \E offline \in BOOLEAN : handleOAuthCallback(p, offline)
  PROVE  NothingBack
<1>1. CASE TokenStep(h)
  BY <1>1, RowsAreNew DEF TokenStep, RefreshAnswered, RefreshLost, SaveRefreshed, ClearToken, tables
<1>2. CASE TokenRequest(h, p)
  BY <1>2, RowsAreNew DEF TokenRequest, RefreshFromStore, RefreshFromRow, handleOAuthDelete, tables
<1>3. CASE \/ handleOAuthTokenDelete(p)
           \/ \E offline \in BOOLEAN : handleOAuthCallback(p, offline)
  BY <1>3, RowsAreNew DEF handleOAuthTokenDelete, handleOAuthCallback, tables
<1> QED BY <1>1, <1>2, <1>3

LEMMA LoginRows ==
  ASSUME CredKept, NEW h \in Handlers, LoginStep(h) \/ handleOAuthDynamicPost(h)
  PROVE  NothingBack
<1>1. CASE LoginStep(h)
  BY <1>1, RowsAreNew DEF LoginStep, ExchangeToken, exchangeKiroSocialCode, Redeeming,
     PollDeviceToken, pollKilocodeToken, PostExchange, FetchAPIKey, FetchExtras, ClientLeaves,
     validateKiroImportToken, tables
<1>2. CASE handleOAuthDynamicPost(h)
  BY <1>2, RowsAreNew DEF handleOAuthDynamicPost, handleOAuthExchange, handleOAuthPoll,
     handleKiroSocialExchange, Redeem, handleCursorImport, handleIFlowCookie, handleGitLabPAT,
     handleWebCookie, createOAuthConnection, handleKiroImport, tables
<1> QED BY <1>1, <1>2

(* A row's number is never given again, and a request that read a row      *)
(* before it was deleted does not bring it back.                           *)
THEOREM DeletedStaysDeleted == CredSpec => NoResurrection
<1>1. CredKept /\ [CredNext]_credVars => [NothingBack]_tables
  <2> SUFFICES ASSUME CredKept, CredNext PROVE NothingBack \/ UNCHANGED tables
    BY DEF credVars
  <2>1. ASSUME NEW p \in OAuthProviders, handleOAuthDynamicGet(p) PROVE UNCHANGED tables
    BY <2>1 DEF handleOAuthDynamicGet, handleOAuthAuthorizeGeneric, handleOAuthDeviceCode,
       requestKiroDeviceCode, RequestDeviceCode, handleKiroSocialAuthorize, StartAttempt
  <2>2. ASSUME NEW a, NEW state, Decide(a, state) PROVE UNCHANGED tables
    BY <2>2 DEF Decide
  <2>3. ASSUME NEW h \in Handlers, NEW i, backfillCodexEmails(h, i) PROVE UNCHANGED tables
    BY <2>3 DEF backfillCodexEmails
  <2>4. ASSUME NEW p, handleOAuthTokenDelete(p) \/ \E offline \in BOOLEAN : handleOAuthCallback(p, offline)
        PROVE  UNCHANGED tables
    BY <2>4 DEF handleOAuthTokenDelete, handleOAuthCallback
  <2> QED BY <2>1, <2>2, <2>3, <2>4, ConnectionRows, TokenRows, LoginRows DEF CredNext
<1> QED BY <1>1, CredInvariance, PTL DEF CredSpec, NoResurrection, NothingBack

-----------------------------------------------------------------------------
(* The parts together (MCAdmin): a step of one leaves the others alone, so *)
(* that every behaviour of all is one of each, and their theorems hold.    *)

LEMMA EveryPartTakesPart ==
    ManagedSpec =>
      HealthSpec /\ CredSpec /\ AdminSpec /\ MitmSpec /\ ToolSpec /\ UpdateSpec
<1>1. ManagedInit =>
        HealthInit /\ CredInit /\ AdminInit /\ MitmInit /\ ToolInit /\ UpdateInit
    BY DEF ManagedInit
<1>2. [ManagedNext]_managedVars => [HealthNext]_healthVars
    BY DEF ManagedNext, managedVars
<1>3. [ManagedNext]_managedVars => [CredNext]_credVars
    BY DEF ManagedNext, managedVars
<1>4. [ManagedNext]_managedVars => [AdminNext]_adminVars
    BY DEF ManagedNext, managedVars
<1>5. [ManagedNext]_managedVars => [MitmNext]_mitmVars
    BY DEF ManagedNext, managedVars
<1>6. [ManagedNext]_managedVars => [ToolNext]_toolVars
    BY DEF ManagedNext, managedVars
<1>7. [ManagedNext]_managedVars => [UpdateNext]_updateVars
    BY DEF ManagedNext, managedVars
<1> QED
    BY <1>1, <1>2, <1>3, <1>4, <1>5, <1>6, <1>7, PTL
    DEF ManagedSpec, HealthSpec, CredSpec, AdminSpec, MitmSpec, ToolSpec, UpdateSpec

(* Whatever the dashboard, the command line and the clock do, every part's *)
(* state is of its type.                                                   *)
THEOREM ManagedTypeCorrect == ManagedSpec => []ManagedTypeOK
<1>1. /\ HealthTypeOK /\ CredTypeOK /\ AdminTypeOK
      /\ MitmTypeOK /\ ToolTypeOK /\ UpdateTypeOK
      => ManagedTypeOK
    BY DEF ManagedTypeOK
<1> QED
    BY <1>1, EveryPartTakesPart, HealthTyped, CredTypeCorrect, AdminTypeCorrect,
       MitmTypeCorrect, ToolTypeCorrect, UpdateTypeCorrect, PTL

(* And all that is checked of the parts holds of them together, for every  *)
(* value of the constants.                                                 *)
THEOREM ManagedKeepsItsWord ==
    ManagedSpec =>
      /\ [](/\ ChallengeIsAnswered /\ UnsavedTokenIsLive /\ ReferencesResolve /\ StateSurvives
            /\ SettingsSound /\ LeavesExecutable /\ CountersMatchState)
      /\ NoResurrection /\ KeyActsOnWhatWasRead /\ ImplementsGate
      /\ ClosingIsEarned /\ LocksEndOnTime /\ LocksComeFromLocks
<1>1. HealthSpec =>
        /\ []CountersMatchState /\ ImplementsGate
        /\ ClosingIsEarned /\ LocksEndOnTime /\ LocksComeFromLocks
    BY BreakersTakePart, CountersAgree, BreakersImplementGate,
       HealthClosingIsEarned, HealthLocksEnd, HealthLocksBegin, PTL
<1>2. CredSpec => [](ChallengeIsAnswered /\ UnsavedTokenIsLive) /\ NoResurrection
    BY CredentialsStayGood, DeletedStaysDeleted, PTL
<1>3. AdminSpec => []ReferencesResolve /\ KeyActsOnWhatWasRead
    BY ConfigurationResolves, KeysGoAsRead, PTL
<1> QED
    BY <1>1, <1>2, <1>3, EveryPartTakesPart, RestartFindsState, ToolSettingsAreSound,
       UpdateLeavesExecutable, PTL

=============================================================================
