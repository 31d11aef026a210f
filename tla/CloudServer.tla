----------------------------- MODULE CloudServer -----------------------------
(***************************************************************************)
(* internal/cloud: the server that keeps a machine's provider accounts and *)
(* serves its requests with them.  Machines share no state, so the module  *)
(* follows one; requests name one provider, and an account of another is   *)
(* one that cannot be used.                                                *)
(*                                                                         *)
(* What was uploaded for a machine is a Go map: an upload puts a new map in*)
(* the place of the old one, everything else changes the current one in    *)
(* place, and a request keeps reading, without the lock, the one it found  *)
(* first.  The maps are `objects', `synced' is the current one.  Reads and *)
(* writes race: an account is read before or after a write to it, and the  *)
(* runtime may end the process, which NewServerWithStorage covers.         *)
(***************************************************************************)
EXTENDS Integers, SequencesExt

CONSTANTS
    CloudHandlers,  \* goroutines that serve requests
    CloudAccounts,
    CloudPriority,  \* their priorities
    NoAccount,
    UploadPlans,    \* bound: the uploads of a behaviour
    NoData

(* usable: isActive, with a credential, of the provider that is asked for; *)
(* cooling: rateLimitedUntil lies ahead; expiring: the access token ends   *)
(* soon and can be refreshed.                                              *)
CloudAccount ==
    [usable : BOOLEAN, url : BOOLEAN, expiring : BOOLEAN, cooling : BOOLEAN,
     status : {"active", "disabled", "unavailable"}]

CloudData ==
    [accounts : [CloudAccounts -> CloudAccount \cup {NoAccount}],
     keys : BOOLEAN, alias : BOOLEAN]

(* A body leaves keys and aliases out, or carries some, or an empty list.  *)
CloudUpload ==
    [accounts : [CloudAccounts -> CloudAccount \cup {NoAccount}],
     keys : {"absent", "with", "without"}, alias : {"absent", "with", "without"}]

ASSUME CloudAssumption ==
    /\ CloudPriority \in [CloudAccounts -> Nat]
    /\ NoAccount \notin CloudAccount /\ NoData \notin CloudData
    /\ \A uploads \in UploadPlans : uploads \in Seq(CloudUpload)

VARIABLES
    objects,  \* the maps that were current since the start
    synced,   \* s.syncs: the current one, 0 when there is none
    stored,   \* the row of cloud_syncs
    cloudJob, \* handlers
    latest,   \* history: the handler, if any, whose text of a map is the newest
    lapse,    \* history: was a save lost, or overtaken?
    plan      \* the bodies that POST /sync/{machine} will get

cloudVars == <<objects, synced, stored, cloudJob, latest, lapse, plan>>

CloudJob ==
    [pc : {"idle", "select", "try", "refresh", "apply", "send", "save", "write",
           "delete"},
     object : Nat, \* the map it reads
     saves : Nat,  \* the map it saves
     image : CloudData \cup {NoData}, \* its text, for the table
     unread : SUBSET CloudAccounts, list : Seq(CloudAccounts),
     fresh : CloudAccount \cup {NoAccount}, \* the copy with the new token
     next : {"idle", "send", "try"}]

CloudIdle ==
    [pc |-> "idle", object |-> 0, saves |-> 0, image |-> NoData,
     unread |-> {}, list |-> <<>>, fresh |-> NoAccount, next |-> "idle"]

CloudTypeOK ==
    /\ \E uploads \in UploadPlans : IsSuffix(plan, uploads)
    /\ \A i \in DOMAIN objects : objects[i] \in CloudData
    /\ synced \in {0} \cup DOMAIN objects
    /\ stored # NoData => stored \in CloudData
    /\ cloudJob \in [CloudHandlers -> CloudJob]
    /\ latest \in SUBSET CloudHandlers
    /\ lapse \in BOOLEAN

CloudInit ==
    /\ objects = <<>> /\ synced = 0 /\ stored = NoData
    /\ cloudJob = [h \in CloudHandlers |-> CloudIdle]
    /\ latest = {} /\ lapse = FALSE
    /\ plan \in UploadPlans

CloudGoto(h, pc) == cloudJob' = [cloudJob EXCEPT ![h].pc = pc]
CloudAnswer(h) == cloudJob' = [cloudJob EXCEPT ![h] = CloudIdle]
PendingSaves == {h \in CloudHandlers : cloudJob[h].pc \in {"save", "write", "delete"}}
Encoded == {h \in CloudHandlers : cloudJob[h].pc = "write"}
Resumed(j) ==
    IF j.next = "idle" THEN CloudIdle ELSE [j EXCEPT !.pc = j.next, !.image = NoData]
NotAfter(list, a) == {i \in DOMAIN list : CloudPriority[list[i]] <= CloudPriority[a]}
SelectInOrder(list, a) == \* stable: accounts come in the order of a Go map
    InsertAt(list, Cardinality(NotAfter(list, a)) + 1, a)

-----------------------------------------------------------------------------
(* POST and DELETE /sync/{machine}: memory under the lock, then the table. *)

valueOrExisting(posted, existing) ==
    IF posted # "absent" THEN posted = "with" ELSE existing

isCloudObjectNewer(a, newer, existing) ==
    existing # NoAccount /\ a \in newer

(* newer: accounts whose version here carries a later time than the one    *)
(* that was posted. *)
mergeCloudSyncData(body, newer, existing) ==
    [accounts |-> [a \in CloudAccounts |->
        IF body.accounts[a] = NoAccount THEN NoAccount
        ELSE IF isCloudObjectNewer(a, newer, existing.accounts[a])
             THEN existing.accounts[a] ELSE body.accounts[a]],
     keys |-> valueOrExisting(body.keys, existing.keys),
     alias |-> valueOrExisting(body.alias, existing.alias)]

NoUpload ==
    [accounts |-> [a \in CloudAccounts |-> NoAccount], keys |-> FALSE, alias |-> FALSE]

handleSyncPost(h, newer) ==
    /\ cloudJob[h].pc = "idle" /\ plan # <<>>
    /\ objects' = Append(objects, mergeCloudSyncData(Head(plan), newer,
                            IF synced = 0 THEN NoUpload ELSE objects[synced]))
    /\ synced' = Len(objects')
    /\ cloudJob' = [cloudJob EXCEPT ![h] =
                      [CloudIdle EXCEPT !.pc = "save", !.saves = synced']]
    /\ lapse' = (lapse \/ PendingSaves # {})
    /\ plan' = Tail(plan)
    /\ UNCHANGED <<stored, latest>>

handleSyncDelete(h) ==
    /\ cloudJob[h].pc = "idle"
    /\ synced' = 0
    /\ CloudGoto(h, "delete")
    /\ lapse' = (lapse \/ PendingSaves # {})
    /\ UNCHANGED <<objects, stored, latest, plan>>

(* Save: the map as it is by then is turned into text, ...                 *)
EncodeData(h) ==
    /\ cloudJob[h].pc = "save"
    /\ cloudJob' = [cloudJob EXCEPT ![h].pc = "write",
                                    ![h].image = objects[cloudJob[h].saves]]
    /\ latest' = {h}
    /\ UNCHANGED <<objects, synced, stored, lapse, plan>>

(* ... and the text put into the table.  That may fail, as it does once the *)
(* client has left, and is not tried again.  Older texts that are still    *)
(* under way when the newest is in will replace it.                        *)
SaveData(h) ==
    /\ cloudJob[h].pc = "write"
    /\ \/ /\ stored' = cloudJob[h].image
          /\ lapse' = (lapse \/ (h \in latest /\ Encoded # {h}))
       \/ stored' = stored /\ lapse' = TRUE
    /\ latest' = latest \ {h}
    /\ cloudJob' = [cloudJob EXCEPT ![h] = Resumed(@)]
    /\ UNCHANGED <<objects, synced, plan>>

DeleteData(h) ==
    /\ cloudJob[h].pc = "delete"
    /\ \/ stored' = NoData /\ UNCHANGED lapse
       \/ stored' = stored /\ lapse' = TRUE
    /\ CloudAnswer(h)
    /\ UNCHANGED <<objects, synced, latest, plan>>

-----------------------------------------------------------------------------
(* Changes of one account. *)

ClearedAccount(acc) ==
    IF acc = NoAccount THEN acc
    ELSE [acc EXCEPT !.cooling = FALSE,
                     !.status = IF @ = "unavailable" THEN "active" ELSE @]
MarkedAccount(acc) == [acc EXCEPT !.cooling = TRUE, !.status = "unavailable"]

(* Everything under the lock, the table too. *)
handleCacheClear ==
    /\ synced # 0
    /\ LET new == [objects[synced] EXCEPT !.accounts =
                     [a \in CloudAccounts |-> ClearedAccount(objects[synced].accounts[a])]]
       IN  /\ objects' = [objects EXCEPT ![synced] = new]
           /\ \/ stored' = new /\ lapse' = (lapse \/ Encoded # {})
              \/ stored' = stored /\ lapse' = TRUE
    /\ UNCHANGED <<synced, cloudJob, latest, plan>>

UpdateMemory(h, a, new, j) == \* mutant: the change is not saved
    /\ objects' = IF synced # 0 /\ objects[synced].accounts[a] # NoAccount
                  THEN [objects EXCEPT ![synced].accounts[a] = new] ELSE objects
    /\ cloudJob' = [cloudJob EXCEPT ![h] = Resumed(j)]
    /\ UNCHANGED <<synced, stored, latest, lapse, plan>>

(* The account that is current by now, if there is one, and then the table *)
(* without the lock; j is the handler after it.                            *)
updateCloudProvider(h, a, new, j) ==
    /\ IF synced # 0 /\ objects[synced].accounts[a] # NoAccount
       THEN /\ objects' = [objects EXCEPT ![synced].accounts[a] = new]
            /\ cloudJob' = [cloudJob EXCEPT ![h] =
                              [j EXCEPT !.pc = "save", !.saves = synced]]
       ELSE /\ UNCHANGED objects
            /\ cloudJob' = [cloudJob EXCEPT ![h] = Resumed(j)]
    /\ UNCHANGED <<synced, stored, latest, lapse, plan>>

CurrentAccount(a) == objects[synced].accounts[a]

-----------------------------------------------------------------------------
(* POST /v1/...: the accounts are read one by one, then tried in order.    *)

cloudAPIKeyValid == synced # 0 /\ objects[synced].keys
resolveCloudModel(named) == named = "provider/model" \/ objects[synced].alias

handleCloudInference(h, named) ==
    /\ cloudJob[h].pc = "idle"
    /\ cloudAPIKeyValid /\ resolveCloudModel(named)
    /\ cloudJob' = [cloudJob EXCEPT ![h] =
         [CloudIdle EXCEPT !.pc = "select", !.object = synced, !.unread = CloudAccounts]]
    /\ UNCHANGED <<objects, synced, stored, latest, lapse, plan>>

(* The same, for a client that speaks Ollama's dialect. *)
handleCloudOllamaChat(h, named) == handleCloudInference(h, named)

cloudProviderUnavailable(acc) == acc.cooling

Selectable(acc) ==
    /\ acc # NoAccount /\ acc.usable /\ acc.status # "disabled"
    /\ ~cloudProviderUnavailable(acc)

SeenAccount(h, a) == objects[cloudJob[h].object].accounts[a]

selectCloudProviders(h, a) ==
    /\ cloudJob[h].pc = "select" /\ a \in cloudJob[h].unread
    /\ cloudJob' = [cloudJob EXCEPT ![h].unread = @ \ {a},
         ![h].list = IF Selectable(SeenAccount(h, a)) THEN SelectInOrder(@, a) ELSE @]
    /\ UNCHANGED <<objects, synced, stored, latest, lapse, plan>>

AccountsSelected(h) ==
    /\ cloudJob[h].pc = "select" /\ cloudJob[h].unread = {}
    /\ CloudGoto(h, "try")
    /\ UNCHANGED <<objects, synced, stored, latest, lapse, plan>>

(* No account, or none left: the caller is told so, or until when all are  *)
(* limited, or gets the last answer.                                       *)
AccountsExhausted(h) ==
    /\ cloudJob[h].pc = "try" /\ cloudJob[h].list = <<>>
    /\ CloudAnswer(h)
    /\ UNCHANGED <<objects, synced, stored, latest, lapse, plan>>

TriedAccount(h) == Head(cloudJob[h].list)

refreshCloudProviderIfNeeded(h) ==
    /\ cloudJob[h].pc = "try" /\ cloudJob[h].list # <<>>
    /\ CloudGoto(h, IF SeenAccount(h, TriedAccount(h)).expiring THEN "refresh"
                    ELSE "send")
    /\ UNCHANGED <<objects, synced, stored, latest, lapse, plan>>

(* The answer of the token endpoint is merged into a copy of the account,  *)
(* and the copy written over the account that is current when the lock is  *)
(* taken. *)
TokenRefreshed(h) ==
    /\ cloudJob[h].pc = "refresh"
    /\ cloudJob' = [cloudJob EXCEPT ![h].pc = "apply",
         ![h].fresh = [SeenAccount(h, TriedAccount(h)) EXCEPT !.expiring = FALSE]]
    /\ UNCHANGED <<objects, synced, stored, latest, lapse, plan>>

TokenKept(h) ==
    /\ cloudJob[h].pc = "refresh"
    /\ CloudGoto(h, "send")
    /\ UNCHANGED <<objects, synced, stored, latest, lapse, plan>>

ApplyRefresh(h) ==
    /\ cloudJob[h].pc = "apply"
    /\ updateCloudProvider(h, TriedAccount(h), cloudJob[h].fresh,
                           [cloudJob[h] EXCEPT !.next = "send", !.fresh = NoAccount])

(* An account without a valid base URL ends the request. *)
cloudProviderURL(h) ==
    /\ cloudJob[h].pc = "send" /\ ~SeenAccount(h, TriedAccount(h)).url
    /\ CloudAnswer(h)
    /\ UNCHANGED <<objects, synced, stored, latest, lapse, plan>>

CanForward(h) == cloudJob[h].pc = "send" /\ SeenAccount(h, TriedAccount(h)).url

AfterFailure(j) == [j EXCEPT !.next = "try", !.list = Tail(@)]

AccountServes(h) ==
    /\ CanForward(h)
    /\ updateCloudProvider(h, TriedAccount(h),
                           ClearedAccount(CurrentAccount(TriedAccount(h))), CloudIdle)

(* A status that cloudStatusRetryable does not list. *)
AccountRefuses(h) ==
    /\ CanForward(h)
    /\ CloudAnswer(h)
    /\ UNCHANGED <<objects, synced, stored, latest, lapse, plan>>

(* A status that it lists, or no answer at all, as after the client left. *)
markCloudProviderCooldown(h) ==
    /\ CanForward(h)
    /\ updateCloudProvider(h, TriedAccount(h),
                           MarkedAccount(CurrentAccount(TriedAccount(h))),
                           AfterFailure(cloudJob[h]))

-----------------------------------------------------------------------------
(* Time and restarts. *)

CloudCooldownEnds(a) ==
    /\ synced # 0 /\ CurrentAccount(a) # NoAccount /\ CurrentAccount(a).cooling
    /\ objects' = [objects EXCEPT ![synced].accounts[a].cooling = FALSE]
    /\ UNCHANGED <<synced, stored, cloudJob, latest, lapse, plan>>

(* The process ends and is started again; a table that cannot be read is   *)
(* taken as an empty one.                                                  *)
NewServerWithStorage ==
    /\ \/ stored # NoData /\ objects' = <<stored>> /\ synced' = 1 /\ UNCHANGED lapse
       \/ stored = NoData /\ objects' = <<>> /\ synced' = 0 /\ UNCHANGED lapse
       \/ objects' = <<>> /\ synced' = 0 /\ lapse' = TRUE
    /\ cloudJob' = [h \in CloudHandlers |-> CloudIdle]
    /\ latest' = {}
    /\ UNCHANGED <<stored, plan>>

CloudStep(h) ==
    \/ EncodeData(h) \/ SaveData(h) \/ DeleteData(h)
    \/ AccountsSelected(h) \/ AccountsExhausted(h)
    \/ \E a \in CloudAccounts : selectCloudProviders(h, a)
    \/ refreshCloudProviderIfNeeded(h) \/ TokenRefreshed(h) \/ TokenKept(h)
    \/ ApplyRefresh(h) \/ cloudProviderURL(h)
    \/ AccountServes(h) \/ AccountRefuses(h) \/ markCloudProviderCooldown(h)

CloudNext ==
    \/ \E h \in CloudHandlers :
         \/ \E newer \in SUBSET CloudAccounts : handleSyncPost(h, newer)
         \/ handleSyncDelete(h) \/ CloudStep(h)
         \/ \E named \in {"provider/model", "alias"} :
              handleCloudInference(h, named) \/ handleCloudOllamaChat(h, named)
    \/ \E a \in CloudAccounts : CloudCooldownEnds(a)
    \/ handleCacheClear
    \/ NewServerWithStorage

CloudSpec == CloudInit /\ [][CloudNext]_cloudVars

-----------------------------------------------------------------------------
(* Hazard: a map is turned into text and the text put into the table in    *)
(* two steps without the lock, so that an older text may be stored after a *)
(* newer one, and nothing notices.  That, a save that fails, and an upload *)
(* or a deletion that comes while a save is pending are all that can part  *)
(* the two: without them the table holds what memory holds once all saves  *)
(* are done, in whatever order older texts were stored, but for cooldowns  *)
(* that have just run out.                                                 *)
WithoutLimit(acc) ==
    IF acc = NoAccount THEN acc ELSE [acc EXCEPT !.cooling = FALSE]
Timeless(d) == [d EXCEPT !.accounts = [a \in CloudAccounts |-> WithoutLimit(d.accounts[a])]]

TableAgrees ==
    ~lapse /\ PendingSaves = {} =>
      IF synced = 0 THEN stored = NoData
      ELSE stored # NoData /\ Timeless(stored) = Timeless(objects[synced])
=============================================================================
