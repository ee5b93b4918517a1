------------------------------ MODULE Creation ------------------------------
(***************************************************************************)
(* The checks of StashesService.create on a stash that answers nothing.    *)
(***************************************************************************)
EXTENDS LockEngine, Naturals

CONSTANTS
    MayStash,       \* <<u, v>>: arePaired(u, v) or shareGroup(u, v)
    MaxRecipients   \* MAX_RECIPIENTS

NormalizeMoment(context) == IF context = Blank THEN None ELSE context

\* A context of white space is truthy here, although it normalizes to None.
Allowed(d) ==
    /\ d.recipientIds # {} /\ Cardinality(d.recipientIds) <= MaxRecipients
    /\ \A u \in d.recipientIds : <<d.senderId, u>> \in MayStash
    /\ d.conditionType = "RECIPIENT_SET" =>
           Cardinality(d.recipientIds) = 1 /\ d.context = None
    /\ d.conditionType = "MANUAL" =>
           Truthy(d.conditionLabel) \/ d.context # None
=============================================================================
