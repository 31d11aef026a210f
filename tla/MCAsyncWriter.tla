--------------------------- MODULE MCAsyncWriter ----------------------------
(* Small instances of AsyncWriter.  handleChatCompletions emits usage,     *)
(* quota and request, in this order, after a success with usage, and the   *)
(* request alone otherwise; in debug mode the details come last.           *)
EXTENDS AsyncWriter

CONSTANTS usage, quota, request, details, h1, h2, A, B

NoFault == {{}}
AnyFault == {{}, {"insert"}, {"slow", "listener"}}

Answered == <<usage, quota, request>>
Failed == <<request>>

QuietPlans == {Answered, Failed}
DebugPlans == {Append(Answered, details), Append(Failed, details)}

(* The usage worker is the request worker over again, so the larger runs do *)
(* without it.                                                             *)
PairPlans == {<<quota, request>>, <<request>>}
PairOrder == <<request, quota>>

InOrder == <<request, usage, quota>>
FullOrder == <<request, usage, details, quota>>

=============================================================================
