------------------------------ MODULE CLITools -------------------------------
(***************************************************************************)
(* The settings files of the command-line tools that the dashboard points  *)
(* at the router (/api/cli-tools/..., internal/api/server.go).  A request  *)
(* reads a file, changes the router's part of it and writes it back: the   *)
(* write truncates the file first, nothing locks it, and the user or the   *)
(* tool itself edits it too.  Tools share no file: `tool' is the one that  *)
(* a behaviour is about.                                                   *)
(***************************************************************************)
EXTENDS Integers, FiniteSets

CONSTANTS
    ToolHandlers, \* goroutines that serve requests
    ToolModels,   \* model names
    ToolNames,    \* the tools, see cliToolPath
    MaxEdits      \* bound: edits by the user

ASSUME ToolAssumption ==
    /\ ToolNames \subseteq {"claude", "codex", "opencode", "copilot", "droid",
                            "hermes", "openclaw", "other"}
    /\ MaxEdits \in Nat
    /\ ToolModels \cap {"none", "theirs", "default"} = {}

VARIABLES
    tool,
    files,    \* its settings file, and for codex and hermes the one with the key
    editor,   \* handlers
    edits,    \* what the user wrote last into both files
    mishap,   \* history: a crash, a failed write, or steps that overlapped
    stray     \* history: models that a request made active and did not define

toolVars == <<tool, files, editor, edits, mishap, stray>>

(* ours: the entries that point at the router, by model, "default" for one *)
(* that names none; chosen: the model in use, "theirs" when it is not one  *)
(* of the router's; theirs: the user's part, by edit.                      *)
ToolSettings ==
    [is : {"missing", "torn", "whole"}, ours : SUBSET (ToolModels \cup {"default"}),
     chosen : ToolModels \cup {"none", "theirs"}, theirs : 0..MaxEdits]
Missing == [is |-> "missing", ours |-> {}, chosen |-> "none", theirs |-> 0]
Torn == [Missing EXCEPT !.is = "torn"]
Empty == [Missing EXCEPT !.is = "whole"]
AllModels == {}  \* DELETE without ?model=

(* cliToolPath *)
ToolFiles ==
    IF tool \in {"codex", "hermes"} THEN {"settings", "key"} ELSE {"settings"}
IsText(f) == tool = "hermes" \/ (tool = "codex" /\ f = "settings")

EditorIdle == [pc |-> "idle", on |-> "settings", method |-> "POST", models |-> {},
               model |-> "none", new |-> Missing]
EditorJob == [pc : {"idle", "read", "truncate", "write"}, on : {"settings", "key"},
              method : {"POST", "PATCH", "CLEAR", "DELETE"}, models : SUBSET ToolModels,
              model : ToolModels \cup {"none"}, new : ToolSettings]

ToolTypeOK ==
    /\ tool \in ToolNames
    /\ files \in [{"settings", "key"} -> ToolSettings]
    /\ editor \in [ToolHandlers -> EditorJob]
    /\ edits \in 0..MaxEdits
    /\ mishap \in BOOLEAN
    /\ stray \in SUBSET ToolModels

ToolInit ==
    /\ tool \in ToolNames
    /\ files = [f \in {"settings", "key"} |-> Missing]
    /\ editor = [h \in ToolHandlers |-> EditorIdle]
    /\ edits = 0 /\ mishap = FALSE /\ stray = {}

-----------------------------------------------------------------------------
(* What POST makes of the settings s that it read, when it asks for the    *)
(* models ms of which m is the active one.                                 *)

Chosen(s, m) == [s EXCEPT !.chosen = m]
writeClaude(s, ms, m) == [s EXCEPT !.ours = @ \cup {"default"}]
writeCodex(s, ms, m) == [Empty EXCEPT !.ours = {"default"}]
writeOpenCodeState(s, ms, m) == [Chosen(s, m) EXCEPT !.ours = @ \cup ms]
writeCopilotState(s, ms, m) == [s EXCEPT !.ours = ms]
ReplaceDroidState(s, ms, m) == [Empty EXCEPT !.ours = ms] \* mutant: other models go
writeDroidState(s, ms, m) == [s EXCEPT !.ours = ms]
writeHermesState(s, ms, m) == [s EXCEPT !.ours = {"default"}]
writeOpenClawState(s, ms, m) == [Chosen(s, m) EXCEPT !.ours = ms]
writeOther(s, ms, m) == [Empty EXCEPT !.ours = {"default"}]

(* PATCH, for OpenCode, with clearActiveModel: no model in use. *)
patchOpenCodeState(s) == [s EXCEPT !.chosen = IF @ = "theirs" THEN @ ELSE "none"]

(* DELETE, of all models or of one. *)
OursRemoved(s) == [s EXCEPT !.ours = {}, !.chosen = IF @ = "theirs" THEN @ ELSE "none"]
KeepChosen(s, ms) == \* mutant: the model in use stays when it is removed
    IF ms = AllModels THEN OursRemoved(s) ELSE [s EXCEPT !.ours = @ \ ms]
deleteOpenCodeState(s, ms) ==
    IF ms = AllModels THEN OursRemoved(s)
    ELSE [s EXCEPT !.ours = @ \ ms, !.chosen = IF @ \in ms THEN "none" ELSE @]
deleteCopilotState(s) == OursRemoved(s)
deleteDroidState(s) == OursRemoved(s)
deleteHermesState(s) == OursRemoved(s)
deleteOpenClawState(s) == OursRemoved(s)

upsertEnvLine(s) == [s EXCEPT !.ours = {"default"}]

writeCLIToolState(s, ms, m) ==
    CASE tool = "claude" -> writeClaude(s, ms, m)
      [] tool = "codex" -> writeCodex(s, ms, m)
      [] tool = "opencode" -> writeOpenCodeState(s, ms, m)
      [] tool = "copilot" -> writeCopilotState(s, ms, m)
      [] tool = "droid" -> writeDroidState(s, ms, m)
      [] tool = "hermes" -> writeHermesState(s, ms, m)
      [] tool = "openclaw" -> writeOpenClawState(s, ms, m)
      [] OTHER -> writeOther(s, ms, m)

deleteCLIToolState(s, ms) ==
    CASE tool = "opencode" -> deleteOpenCodeState(s, ms)
      [] tool = "copilot" -> deleteCopilotState(s)
      [] tool = "droid" -> deleteDroidState(s)
      [] tool = "hermes" -> deleteHermesState(s)
      [] tool = "openclaw" -> deleteOpenClawState(s)
      [] OTHER -> OursRemoved(s)

(* The second file: the key is put in, or taken out of codex's.            *)
NewKeys(s, method) ==
    IF method = "DELETE" THEN OursRemoved(s)
    ELSE IF tool = "hermes" THEN upsertEnvLine(s) ELSE writeCodex(s, {}, "none")

NewSettings(j, s) ==
    IF j.on = "key" THEN NewKeys(s, j.method)
    ELSE CASE j.method = "POST" -> writeCLIToolState(s, j.models, j.model)
           [] j.method = "PATCH" -> s
           [] j.method = "CLEAR" -> patchOpenCodeState(s)
           [] j.method = "DELETE" -> deleteCLIToolState(s, j.models)

-----------------------------------------------------------------------------
(* Handlers *)

Alone(h) == \A g \in ToolHandlers \ {h} : editor[g].pc = "idle"

BeginEdit(h, method, ms, m) ==
    /\ editor[h].pc = "idle"
    /\ editor' = [editor EXCEPT ![h] =
         [EditorIdle EXCEPT !.pc = "read", !.method = method, !.models = ms, !.model = m]]
    /\ mishap' = (mishap \/ ~Alone(h))
    /\ UNCHANGED <<tool, files, edits>>

(* OpenClaw's model is put among its models; OpenCode's activeModel may be *)
(* any.                                                                    *)
handleCLIToolSettingsPost(h, ms, m) ==
    /\ ms # {} /\ (m \in ms \/ tool = "opencode")
    /\ BeginEdit(h, "POST", ms, m)
    /\ stray' = stray \cup ({m} \ ms)

handleCLIToolSettingsPatch(h, clear) ==
    /\ tool = "opencode"
    /\ BeginEdit(h, IF clear THEN "CLEAR" ELSE "PATCH", {}, "none")
    /\ UNCHANGED stray

(* All models, or the one that ?model= names. *)
handleCLIToolSettingsDelete(h, ms) ==
    /\ ms = AllModels \/ (tool = "opencode" /\ \E m \in ToolModels : ms = {m})
    /\ BeginEdit(h, "DELETE", ms, "none")
    /\ UNCHANGED stray

Editing(h) == files[editor[h].on]
EditorSet(h, j) == editor' = [editor EXCEPT ![h] = j]

(* Codex and unknown tools get a new file: nothing is read for it.         *)
Overwrites(j) == j.method = "POST" /\ (tool = "codex" \/ tool = "other")
RemovesFile(j) ==
    j.method = "DELETE" /\ j.on = "settings" /\ tool \in {"codex", "other"}

(* Codex's second file always follows, Hermes's when a key was posted.     *)
NextFile(h) ==
    LET key == {[editor[h] EXCEPT !.pc = "read", !.on = "key", !.new = Missing]}
    IN  IF editor[h].on = "settings" /\ tool = "codex" THEN key
        ELSE IF /\ editor[h].on = "settings" /\ tool = "hermes"
                /\ editor[h].method = "POST"
             THEN key \cup {EditorIdle}
             ELSE {EditorIdle}

(* JSON that is torn is an error; text is taken as it is.                  *)
readJSONFileMap(h) ==
    /\ editor[h].pc = "read"
    /\ Editing(h).is = "torn" /\ ~IsText(editor[h].on)
    /\ ~Overwrites(editor[h]) /\ ~RemovesFile(editor[h])
    /\ EditorSet(h, EditorIdle)
    /\ UNCHANGED <<tool, files, edits, mishap, stray>>

NothingToReset(h) ==
    /\ editor[h].pc = "read" /\ editor[h].method = "DELETE"
    /\ Editing(h).is = "missing" /\ ~RemovesFile(editor[h])
    /\ EditorSet(h, EditorIdle)
    /\ UNCHANGED <<tool, files, edits, mishap, stray>>

RemoveFile(h) ==
    /\ editor[h].pc = "read" /\ RemovesFile(editor[h])
    /\ files' = [files EXCEPT !.settings = Missing]
    /\ \E next \in NextFile(h) : EditorSet(h, next)
    /\ UNCHANGED <<tool, edits, mishap, stray>>

Compute(h) ==
    /\ editor[h].pc = "read" /\ ~RemovesFile(editor[h])
    /\ editor[h].method = "DELETE" => Editing(h).is # "missing"
    /\ Editing(h).is = "torn" => IsText(editor[h].on) \/ Overwrites(editor[h])
    /\ EditorSet(h, [editor[h] EXCEPT
         !.pc = "truncate", !.models = {}, !.model = "none",
         !.method = IF "key" \in ToolFiles THEN @ ELSE "POST", \* only a second file asks
         !.new = NewSettings(editor[h], [Editing(h) EXCEPT !.is = "whole"])])
    /\ UNCHANGED <<tool, files, edits, mishap, stray>>

(* os.WriteFile *)
writeTextFile(h) ==
    /\ editor[h].pc = "truncate"
    /\ files' = [files EXCEPT ![editor[h].on] = Torn]
    /\ EditorSet(h, [editor[h] EXCEPT !.pc = "write"])
    /\ UNCHANGED <<tool, edits, mishap, stray>>

(* Two that write at a time may leave the end of the longer text. *)
WriteContent(h) ==
    /\ editor[h].pc = "write"
    /\ \E content \in {editor[h].new} \cup (IF Alone(h) THEN {} ELSE {Torn}) :
         files' = [files EXCEPT ![editor[h].on] = content]
    /\ \E next \in NextFile(h) : EditorSet(h, next)
    /\ UNCHANGED <<tool, edits, mishap, stray>>

WriteFails(h) ==
    /\ editor[h].pc = "write"
    /\ mishap' = TRUE
    /\ EditorSet(h, EditorIdle)
    /\ UNCHANGED <<tool, files, edits, stray>>

-----------------------------------------------------------------------------
(* The user edits the files, and may choose a model of another provider;   *)
(* the program dies and is started again.                                  *)

UserEdits(other) ==
    /\ edits < MaxEdits
    /\ edits' = edits + 1
    /\ files' = [f \in DOMAIN files |->
         IF f \notin ToolFiles THEN files[f]
         ELSE [files[f] EXCEPT !.is = "whole", !.theirs = edits',
                               !.chosen = IF other THEN "theirs" ELSE @]]
    /\ mishap' = (mishap \/ \E h \in ToolHandlers : editor[h].pc # "idle")
    /\ UNCHANGED <<tool, editor, stray>>

ToolCrash ==
    /\ editor' = [h \in ToolHandlers |-> EditorIdle]
    /\ mishap' = (mishap \/ \E h \in ToolHandlers : editor[h].pc # "idle")
    /\ UNCHANGED <<tool, files, edits, stray>>

EditorStep(h) ==
    \/ readJSONFileMap(h) \/ NothingToReset(h) \/ RemoveFile(h) \/ Compute(h)
    \/ writeTextFile(h) \/ WriteContent(h) \/ WriteFails(h)

ToolNext ==
    \/ \E h \in ToolHandlers :
         \/ \E ms \in SUBSET ToolModels :
              \/ \E m \in ToolModels : handleCLIToolSettingsPost(h, ms, m)
              \/ handleCLIToolSettingsDelete(h, ms)
         \/ \E clear \in BOOLEAN : handleCLIToolSettingsPatch(h, clear)
         \/ EditorStep(h)
    \/ \E other \in BOOLEAN : UserEdits(other)
    \/ ToolCrash

ToolSpec == ToolInit /\ [][ToolNext]_toolVars

-----------------------------------------------------------------------------
(* Hazard: a file is read, changed and written back in several steps, and  *)
(* most of it is not the router's.  When no two of these steps overlapped  *)
(* and none failed, every file is whole and keeps what the user wrote;     *)
(* codex and unknown tools get files of the router's own.                  *)
TheirsSurvive ==
    ~mishap /\ (\A h \in ToolHandlers : editor[h].pc = "idle") =>
      \A f \in ToolFiles :
        /\ files[f].is # "torn"
        /\ tool \notin {"codex", "other"} => files[f].theirs = edits

(* Hazard: models are added and removed one by one, also by requests that  *)
(* overlap or die.  The model that a file selects is one that it defines,  *)
(* or one that a request made active without defining it.                  *)
ChosenIsThere ==
    \A f \in ToolFiles :
      files[f].chosen \in ToolModels => files[f].chosen \in files[f].ours \cup stray

(* Both, of every tool's files.                                            *)
SettingsSound == TheirsSurvive /\ ChosenIsThere
=============================================================================
