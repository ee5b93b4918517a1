---------------------------- MODULE MCServices ----------------------------
(* Instances of Spotify (and Users with it) and of Alerts for TLC, which    *)
(* have no state in common: a behaviour shows one of them.                  *)
EXTENDS Spotify, Alerts

CONSTANTS t1, t2, pat, fay, gus

VARIABLE part

vars == <<accountVars, alertsVars, part>>

\* Playing t1 after t1, t2, t1; nothing playing after t2 twice; silence.
TwoTracks ==
    {[current |-> t1, recent |-> <<t1, t2, t1>>],
     [current |-> None, recent |-> <<t2, t2>>],
     [current |-> None, recent |-> <<>>]}

\* fay's campus has two things to say, gus's one.
TwoCampuses ==
    (fay :> <<[cue |-> "game", kind |-> "athletics"],
              [cue |-> "derby", kind |-> "athletics"]>>)
    @@ (gus :> <<[cue |-> "brunch", kind |-> "food"]>>)

\* Four friends and groups at first: the budget is 2; then a fifth.
FourThenFive == <<4, 5>>

Perms == Permutations(People) \cup Permutations(Calls) \cup Permutations(States)

MCInit ==
    /\ SpotifyInit /\ AlertsInit
    /\ part \in {"accounts", "alerts"}
    /\ part = "accounts" => \A d \in DOMAIN even : even[d]

MCNext ==
    /\ UNCHANGED part
    /\ \/ part = "accounts" /\ SpotifyNext /\ UNCHANGED alertsVars
       \/ part = "alerts" /\ AlertsNext /\ UNCHANGED accountVars

MCSpec == MCInit /\ [][MCNext]_vars
=============================================================================
