------------------------------ MODULE MCCopy ------------------------------
(* Instances of Happenings, with Prompts, of Calendar and of lastBalanced    *)
(* for TLC, which have no state in common: a behaviour shows one of them.    *)
EXTENDS Happenings, Calendar, Braces

CONSTANTS alias, MaxText

VARIABLE part

\* Two cards that say the same, and one that does not.
ThreeCards == <<<<"shelf", "rain">>, <<"shelf", "exam">>, <<"shelf", "rain">>>>

OneOrOther == {{Wanted}, {alias}}
OneAlert == {<<"alert", "fence">>}
Fence == <<"fence">>
Pierogi == <<"pierogi">>

\* A parade in both feeds, and news K2 will not like.
News == {<<[cue |-> <<"parade">>, kind |-> "tradition"]>>,
         <<[cue |-> <<"strike">>, kind |-> "news"]>>}
Posts == {<<[cue |-> <<"parade">>, kind |-> "tradition"]>>}

Row(i, kind, stashable, score) ==
    [i |-> i, kind |-> kind, stashable |-> stashable, score |-> score]

\* Everything is unfit; rows repeated and out of range; too few rows.
SomeReplies ==
    {[i \in 1 .. 5 |-> Row(i - 1, "event", FALSE, i)],
     <<Row(3, "food", TRUE, 9), Row(0, "gossip", FALSE, 2), Row(0, "food", TRUE, 12),
       Row(7, "food", TRUE, 1), Row(1, "food", TRUE, -1)>>,
     <<Row(0, "food", TRUE, 3)>>}

Texts == UNION {[1 .. n -> {"{", "}", "x"}] : n \in 0 .. MaxText}

copyVars == <<hvars, cvars, part, text>>

MCInit ==
    /\ HappeningsInit /\ CalendarInit
    /\ \/ part = "prompts" /\ text = <<>>
       \/ /\ part \in {"happenings", "calendar", "text"}
          /\ gateway.takesKnob /\ gateway.serves = {Wanted}
          /\ gateway.lists = None
          /\ text \in IF part = "text" THEN Texts ELSE {<<>>}

\* One caller loads the school's list at any tick; the others begin at the first
\* tick, and may take until the last.
First == CHOOSE l \in Others : TRUE
OthersFirst ==
    \A l \in Others \ {First} : loads[l] = None /\ loads'[l] # None => clock = 0

\* The shelf runs beside one call, and two ticks pass at once, which is how
\* long its copy is kept; the loads of the school run beside each other.
MCNext ==
    /\ UNCHANGED <<part, text>>
    /\ \/ /\ part = "prompts" /\ HappeningsNext /\ loads' = loads
          /\ Cardinality(Busy') <= 1 /\ (clock = 1 => Advance)
          /\ UNCHANGED cvars
       \/ /\ part = "happenings" /\ HappeningsNext /\ OthersFirst
          /\ shelf' = None /\ Busy' \subseteq Others /\ UNCHANGED cvars
       \/ part = "calendar" /\ CalendarNext /\ UNCHANGED hvars

\* Fetches time out, and workers go on.
Fairness ==
    /\ \A a \in Workers : WF_vars(ShelfStep(a) /\ part = "prompts")
    /\ WF_vars(ShelfAnswered /\ part = "prompts")

MCSpec == MCInit /\ [][MCNext]_copyVars /\ Fairness
=============================================================================
