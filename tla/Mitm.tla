-------------------------------- MODULE Mitm ---------------------------------
(***************************************************************************)
(* internal/mitm/manager.go: the manager of the interception helper, with  *)
(* the handlers of internal/api/server.go that call it.                    *)
(*                                                                         *)
(* The helper is started with the context of the request that asks for it, *)
(* which ends with that request; nobody waits for it, so the manager sees  *)
(* it as running for as long as it remembers it.  A helper is named by the *)
(* handler that started it.                                                *)
(***************************************************************************)
EXTENDS Integers, FiniteSets

CONSTANTS
    MitmHandlers, \* goroutines that serve requests
    Tools,        \* tools whose traffic is intercepted
    RouterUrls,   \* base URLs of the router
    DefaultUrl,   \* the one of a manager that knows no other
    NoHelper

ASSUME MitmAssumption == DefaultUrl \in RouterUrls

VARIABLES
    helper,   \* m.process
    kept,     \* the rest of the manager's fields, those that are persisted
    disk,     \* what the state file tells a manager that reads it
    unsaved,  \* history: did the last save fail, or was it cut off?
    living,   \* helpers that are alive
    starting  \* Start, per handler

mitmVars == <<helper, kept, disk, unsaved, living, starting>>

Kept == [cert : BOOLEAN, trusted : BOOLEAN, dns : SUBSET Tools,
         aliases : SUBSET Tools, sudo : BOOLEAN, url : RouterUrls,
         error : BOOLEAN]

MitmTypeOK ==
    /\ helper \in MitmHandlers \cup {NoHelper}
    /\ kept \in Kept /\ disk \in Kept /\ unsaved \in BOOLEAN
    /\ living \subseteq MitmHandlers
    /\ starting \in [MitmHandlers -> {"idle", "launch", "record", "answer"}]

(* loadState leaves a new manager as it is when there is no file, or one    *)
(* that does not parse.                                                    *)
Unread ==
    [cert |-> FALSE, trusted |-> FALSE, dns |-> {}, aliases |-> {},
     sudo |-> FALSE, url |-> DefaultUrl, error |-> FALSE]

MitmInit ==
    /\ helper = NoHelper
    /\ kept = Unread /\ disk = Unread /\ unsaved = FALSE
    /\ living = {}
    /\ starting = [h \in MitmHandlers |-> "idle"]

(* The change k, and the state file after it.  No error of a save is looked *)
(* at: without its directory or a permission the file stays as it is, and  *)
(* a write that fails later, or ends with the process, has emptied it.     *)
saveStateLocked(k) ==
    /\ kept' = k
    /\ \/ disk' = k /\ unsaved' = FALSE
       \/ disk' \in {disk, Unread} /\ unsaved' = TRUE

-----------------------------------------------------------------------------
(* Start *)

(* A new URL is remembered before the helper is launched, and saved with   *)
(* whatever is saved next.                                                 *)
handleMITMStart(h, u) ==
    /\ starting[h] = "idle"
    /\ starting' = [starting EXCEPT ![h] = "launch"]
    /\ kept' = [kept EXCEPT !.url = u]
    /\ UNCHANGED <<helper, disk, unsaved, living>>

Launch(h) ==
    /\ starting[h] = "launch"
    /\ living' = living \cup {h}
    /\ starting' = [starting EXCEPT ![h] = "record"]
    /\ UNCHANGED <<helper, kept, disk, unsaved>>

ForgetError(h) == \* mutant: a helper that cannot be launched saves nothing
    /\ starting[h] = "launch"
    /\ kept' = [kept EXCEPT !.error = TRUE]
    /\ starting' = [starting EXCEPT ![h] = "idle"]
    /\ UNCHANGED <<helper, disk, unsaved, living>>

setError(h) ==
    /\ starting[h] = "launch"
    /\ saveStateLocked([kept EXCEPT !.error = TRUE])
    /\ starting' = [starting EXCEPT ![h] = "idle"]
    /\ UNCHANGED <<helper, living>>

Start(h) ==
    /\ starting[h] = "record"
    /\ helper' = h
    /\ saveStateLocked([kept EXCEPT !.cert = TRUE, !.sudo = TRUE, !.error = FALSE])
    /\ starting' = [starting EXCEPT ![h] = "answer"]
    /\ UNCHANGED living

(* The handler returns: the context of the request ends, and the helper    *)
(* with it.                                                                *)
AnswerStart(h) ==
    /\ starting[h] = "answer"
    /\ living' = living \ {h}
    /\ starting' = [starting EXCEPT ![h] = "idle"]
    /\ UNCHANGED <<helper, kept, disk, unsaved>>

(* The helper may end by itself. *)
HelperExits(h) ==
    /\ h \in living /\ living' = living \ {h}
    /\ UNCHANGED <<helper, kept, disk, unsaved, starting>>

-----------------------------------------------------------------------------
(* Requests of one critical section.  They need a password, or one that    *)
(* was given before (Windows aside, which needs none): whichever it is,    *)
(* the manager has had one by then.                                        *)

Sudo(k) == [k EXCEPT !.sudo = TRUE]

Stop ==
    /\ helper' = NoHelper
    /\ living' = living \ {helper}
    /\ saveStateLocked(Sudo([kept EXCEPT !.dns = {}]))
    /\ UNCHANGED starting

EnableDNS(t) ==
    /\ saveStateLocked(Sudo([kept EXCEPT !.dns = @ \cup {t}]))
    /\ UNCHANGED <<helper, living, starting>>

DisableDNS(t) ==
    /\ saveStateLocked(Sudo([kept EXCEPT !.dns = @ \ {t}]))
    /\ UNCHANGED <<helper, living, starting>>

TrustCert ==
    /\ saveStateLocked(Sudo([kept EXCEPT !.cert = TRUE, !.trusted = TRUE]))
    /\ UNCHANGED <<helper, living, starting>>

(* Model mappings: the tools that have some. *)
SetAliases(t, some) ==
    /\ t \in kept.dns
    /\ saveStateLocked([kept EXCEPT !.aliases = IF some THEN @ \cup {t} ELSE @ \ {t}])
    /\ UNCHANGED <<helper, living, starting>>

(* The program is started again: the helper is forgotten, and dies.        *)
NewMitmManager ==
    /\ kept' = disk /\ unsaved' = FALSE
    /\ helper' = NoHelper /\ living' = {}
    /\ starting' = [h \in MitmHandlers |-> "idle"]
    /\ UNCHANGED disk

-----------------------------------------------------------------------------
MitmNext ==
    \/ \E h \in MitmHandlers :
         \/ \E u \in RouterUrls : handleMITMStart(h, u)
         \/ Launch(h) \/ setError(h) \/ Start(h) \/ AnswerStart(h) \/ HelperExits(h)
    \/ Stop \/ TrustCert
    \/ \E t \in Tools : EnableDNS(t) \/ DisableDNS(t)
    \/ \E t \in Tools, some \in BOOLEAN : SetAliases(t, some)
    \/ NewMitmManager

MitmSpec == MitmInit /\ [][MitmNext]_mitmVars

-----------------------------------------------------------------------------
(* Hazard: the program ends between two requests, after saves that nobody  *)
(* saw fail.  Unless a helper is just being launched, a restart finds all  *)
(* that memory holds (mappings, DNS switches, certificate, password flag   *)
(* and router URL), if only the last save came to its end: every save      *)
(* makes good what earlier ones lost.                                      *)
Quiet == \A h \in MitmHandlers : starting[h] \in {"idle", "answer"}
StateSurvives == Quiet /\ ~unsaved => disk = kept
=============================================================================
