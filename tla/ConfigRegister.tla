--------------------------- MODULE ConfigRegister ---------------------------
(***************************************************************************)
(* What the API promises of the configuration: a register that holds a     *)
(* valid configuration and changes by one edit at a time, each applied to  *)
(* the configuration the previous one left.  A loose register may also be  *)
(* replaced, from outside, by another valid configuration.                 *)
(***************************************************************************)
CONSTANTS Edits, Invalid

VARIABLES value, loose

Init == value = {} /\ loose \in BOOLEAN

Valid(c) == c \in SUBSET Edits /\ c \notin Invalid

Change(e) ==
    /\ value' = IF e \in value THEN value \ {e} ELSE value \cup {e}
    /\ Valid(value')

Replace == loose /\ Valid(value')

Next == ((\E e \in Edits : Change(e)) \/ Replace) /\ UNCHANGED loose

Spec == Init /\ [][Next]_<<value, loose>>

=============================================================================
