------------------------------ MODULE MCStashes ------------------------------
(* Instances of Stashes for TLC: who composes what, and the symmetries.     *)
EXTENDS StashesInv, TLC

CONSTANTS a, b, c

Compose(sender, recipients, type, label, context, mfa) ==
    [senderId |-> sender, recipientIds |-> recipients, conditionType |-> type,
     conditionLabel |-> label, context |-> context, requiresMfa |-> mfa]

\* Everyone is paired with everyone.
AllPaired == Users \X Users

\* A trade between a and b.
TradeDrafts == {Compose(a, {b}, "TOGETHER", None, None, FALSE)}

\* A self-stash.
OwnDrafts == {Compose(a, {a}, "TOGETHER", None, None, FALSE)}

\* A group "open together"; the sender may be a recipient too.
GroupDrafts == {Compose(a, {b, c}, "TOGETHER", None, None, FALSE),
                Compose(a, {a, b, c}, "TOGETHER", None, None, FALSE)}

\* Locks one hold opens, some with a second key, and drafts create() refuses.
SoloDrafts == {Compose(a, {b, c}, "MANUAL", "w1", None, TRUE),
               Compose(a, {b}, "RECIPIENT_SET", None, None, FALSE),
               Compose(a, {b, c}, "RECIPIENT_SET", None, None, FALSE),
               Compose(a, {b}, "MANUAL", Blank, None, FALSE)}

\* All three.
HoldDrafts == OwnDrafts \cup GroupDrafts \cup SoloDrafts

\* Locks tied to a moment.
MomentDrafts == {Compose(a, {b, c}, "MANUAL", None, "m1", FALSE),
                 Compose(a, {b}, "MANUAL", "w1", "m1", FALSE)}

\* What is on the table: the locks stored, and those about to be.
Sealing == {k \in Requests : tasks[k].pc = "insert"}
OnTable == {locks[l] : l \in Stored} \cup {tasks[k].fresh : k \in Sealing}
LocksAtOnce == Cardinality(Stored) + Cardinality(Sealing)
RequestsAtOnce == Cardinality({k \in Requests : tasks[k] # Idle})

\* Trades and their answers, under two requests at once.
TradeScene ==
    /\ \A lock \in OnTable : IsPairTogether(lock) \/ IsReply(lock)
    /\ \A lock \in OnTable : ~lock.requiresMfa
    /\ RequestsAtOnce <= 2

\* One lock of any type, under as many requests as there are.
HoldScene == LocksAtOnce <= 1

\* Two locks of one moment.
MomentScene ==
    LocksAtOnce <= 2 /\ \A lock \in OnTable : lock.context # None

\* Each instance shows two scenes: only a new lock or a new request can leave
\* one, so that every task goes on and every timer fires.
SafeSpec == Init /\ [][Next /\ (TradeScene \/ HoldScene)']_vars
LiveSpec == Init /\ [][Next /\ (TradeScene \/ MomentScene)']_vars /\ Fairness

LiveDrafts == TradeDrafts \cup MomentDrafts
AllDrafts == TradeDrafts \cup HoldDrafts

Perms == Permutations(LockIds) \cup Permutations(Requests)
=============================================================================
