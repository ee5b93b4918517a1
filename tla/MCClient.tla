----------------------------- MODULE MCClient -----------------------------
(* The web client, and the sockets of the gateway, for TLC: the tabs of a   *)
(* user, HomePage's lists, the CaptureSheet and the rail of prompts.  They  *)
(* share no state, so one of them runs and the others rest.                 *)
EXTENDS Screen, Capture, Shelf

CONSTANTS a, b
VARIABLE part
vars == <<presence, screen, captureVars, shelfVars, part>>

TheAlbums == {{Me, a, b}}
AnyPair == Everyone \X Everyone

TwoFriends == <<[id |-> "ana", school |-> "uw"], [id |-> "bo", school |-> "uw"]>>
TwoSchools ==
    [cmu |-> [events |-> <<[day |-> 31, label |-> "finals"]>>, games |-> <<>>,
              quirks |-> <<>>],
     \* As in the calendars shipped, two events of one day.
     uw |-> [events |-> <<[day |-> 41, label |-> "break"], [day |-> 41, label |-> "term"]>>,
             games |-> <<[day |-> 31, label |-> "game"]>>,
             quirks |-> <<"quad", "stacks">>]]
Lock(id, sender, recipients, at, label) ==
    [id |-> id, senderId |-> sender, recipientIds |-> recipients, at |-> at,
     open |-> FALSE, unlockedAt |-> 0, label |-> label]
SomeLists ==
    {[inbox |-> <<>>, sent |-> <<Lock("l1", "me", {"ana", "bo"}, 4, FALSE)>>,
      events |-> <<>>],
     [inbox |-> <<Lock("l2", "ana", {"me"}, 40, TRUE)>>, sent |-> <<>>,
      events |-> <<[id |-> "cal", at |-> 62]>>]}
Sky(label, temp, minutes) ==
    [label |-> label, tempF |-> temp, minutes |-> minutes, sunrise |-> 400,
     sunset |-> 1200]
SomeSkies ==
    {[cmu |-> NoSky, uw |-> NoSky],
     [cmu |-> Sky("clear", 70, 800), uw |-> Sky("rainy", 45, 620)]}

\* A part that is not run rests in one state.
Resting(p, A, rest) == IF part = p THEN A ELSE rest

MCInit ==
    /\ part \in {"tabs", "screen", "sheet", "shelf"}
    /\ Resting("screen", ScreenInit,
               ScreenInit /\ mine /\ reloads[CHOOSE r \in Reloads : TRUE] = "asked")
    /\ Resting("sheet", CaptureInit,
               CaptureInit /\ ~reply /\ recipientIds = {})
    /\ Resting("shelf", ShelfInit,
               ShelfInit /\ lists = (CHOOSE l \in Lists : TRUE)
                         /\ skies = (CHOOSE k \in SkyMaps : TRUE))

Only(p, A) == part = p /\ A /\ UNCHANGED part

Tab(A) == Only("tabs", A /\ UNCHANGED <<screen, captureVars, shelfVars>>)
Scr(A) == Only("screen", A /\ UNCHANGED <<captureVars, shelfVars>>)

\* The screen's socket ends once; those of the tabs as often as MaxDrops says.
PartsNext ==
    \/ Tab(PresenceNext)
    \/ Scr(ScreenNext /\ drops' <= 1)
    \/ Only("sheet", CaptureNext /\ UNCHANGED <<presence, screen, shelfVars>>)
    \/ Only("shelf", ShelfNext /\ UNCHANGED <<presence, screen, captureVars>>)

\* The tabs: verifications and joins return, of one socket after the other.
\* The screen, which may wait for its admission for ever: the wires, the server
\* and the interval go on.
MCSpec ==
    /\ MCInit /\ [][PartsNext]_vars
    /\ WF_vars(Tab(\E s \in Sockets : Join(s) \/ AddPresence(s)))
    /\ WF_vars(Scr(Deliver)) /\ WF_vars(Scr(Polls))
    /\ WF_vars(Scr(\E st \in States : Announce(st)))
    /\ \A r \in Reloads : WF_vars(Scr(Answered(r))) /\ WF_vars(Scr(Reloaded(r)))

\* isOnline comes to say yes of whoever is connected, and says so as long as
\* they are (ComesOnline; on the screen nobody is counted).
TabsComeOnline == part = "tabs" => ComesOnline
=============================================================================
