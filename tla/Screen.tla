------------------------------- MODULE Screen -------------------------------
(***************************************************************************)
(* HomePage as a reader of one lock between the user and a friend: the     *)
(* Stash (inbox) and Sent lists, filled by reloads that may overtake each  *)
(* other, by the events of a socket that may drop or not be admitted yet,  *)
(* by the answers to holds, and by a poll while something is READY.  The   *)
(* server announces each change of the lock some time after it stored it.  *)
(***************************************************************************)
EXTENDS Presence

CONSTANTS
    Reloads,   \* reloads under way at once
    MaxFails   \* bound: reloads and holds that fail

VARIABLES
    mine,      \* whether the user sent the lock, or is its recipient
    stored,    \* its state on the server, "none" before it exists
    pending,   \* states the server has yet to announce
    wire,      \* the screen's socket; 0: none yet, or again; -1: it was refused
    events,    \* the states on their way over that socket
    inbox,     \* the state the lock is shown in on the Stash, or "none"
    sent,      \* the same, on Sent
    opening,   \* whether the "is opening it now" alert is up
    reloads,   \* a reload: "free", "asked", or the state it was answered
    answer,    \* a hold of the user has opened the lock, its answer under way
    fails      \* failures so far

screen == <<mine, stored, pending, wire, events, inbox, sent, opening,
            reloads, answer, fails>>

States == {"none", "SEALED", "READY", "UNLOCKED"}

-----------------------------------------------------------------------------
(* The server, as a screen sees it                                         *)

Store(state) == stored' = state /\ pending' = pending \cup {state}

\* The lock is created, started, or opened by the other.
Change ==
    /\ \E next \in States :
          /\ <<stored, next>> \in {<<"none", "SEALED">>, <<"SEALED", "READY">>,
                                   <<"READY", "UNLOCKED">>}
          /\ Store(next)
    /\ UNCHANGED <<presence, mine, wire, events, inbox, sent, opening, reloads,
                   answer, fails>>

\* The user's room hears of it: the screen, if its socket is in it by now.
Announce(state) ==
    /\ state \in pending /\ pending' = pending \ {state}
    /\ events' = IF wire \in Sockets /\ Joined(wire) THEN Append(events, state)
                 ELSE events
    /\ UNCHANGED <<presence, mine, stored, wire, inbox, sent, opening, reloads,
                   answer, fails>>

-----------------------------------------------------------------------------
(* Reloads                                                                 *)

\* refresh: profile, friends, inbox and sent are asked for side by side.
Refresh(r) == reloads[r] = "free" /\ reloads' = [reloads EXCEPT ![r] = "asked"]

\* The server answers.  A lock is in one of the lists only.
Answered(r) ==
    /\ reloads[r] = "asked"
    /\ reloads' = [reloads EXCEPT ![r] = stored]
    /\ UNCHANGED <<presence, mine, stored, pending, wire, events, inbox, sent,
                   opening, answer, fails>>

\* All answers are in: they replace the lists, whatever came meanwhile.
Reloaded(r) ==
    /\ reloads[r] \in States
    /\ inbox' = IF mine THEN "none" ELSE reloads[r]
    /\ sent' = IF mine THEN reloads[r] ELSE "none"
    /\ reloads' = [reloads EXCEPT ![r] = "free"]
    /\ UNCHANGED <<presence, mine, stored, pending, wire, events, opening,
                   answer, fails>>

\* One of the requests fails: nothing is replaced.
ReloadFails(r) ==
    /\ reloads[r] # "free" /\ fails < MaxFails
    /\ fails' = fails + 1 /\ reloads' = [reloads EXCEPT ![r] = "free"]
    /\ UNCHANGED <<presence, mine, stored, pending, wire, events, inbox, sent,
                   opening, answer>>

\* Mutant of NeedsPoll: only the Stash is looked at.
NeedsPollStash == inbox = "READY"

NeedsPoll == "READY" \in {inbox, sent}

\* The interval of a second that runs while something is READY.
Poll(r) ==
    /\ NeedsPoll /\ Refresh(r)
    /\ UNCHANGED <<presence, mine, stored, pending, wire, events, inbox, sent,
                   opening, answer, fails>>

-----------------------------------------------------------------------------
(* The socket                                                              *)

\* The socket connects, at first and again: a reload, though the server may
\* take longer to admit the socket than to answer it.
OnConnect(s, r) ==
    /\ wire = 0 /\ wire' = s
    /\ Connect(s) /\ Refresh(r)
    /\ UNCHANGED <<mine, stored, pending, events, inbox, sent, opening, answer,
                   fails>>

\* The socket enters the room.  What a screen hears does not depend on when
\* the server then counts it as present, which is left to the tabs alone.
Admission(s) == Join(s) /\ UNCHANGED screen

\* The connection drops; what was under way is lost with it.  The browser
\* connects again, unless it was the server that ended the connection.
Dropped ==
    /\ wire \in Sockets
    /\ \/ Drop(wire) /\ wire' = 0
       \/ Refuse(wire) /\ wire' = -1
    /\ events' = <<>>
    /\ UNCHANGED <<mine, stored, pending, inbox, sent, opening, reloads, answer,
                   fails>>

Hear(state) == /\ events # <<>> /\ Head(events) = state /\ events' = Tail(events)

\* lock:created, and the lock:updated its sender hears instead.
OnCreated ==
    /\ Hear("SEALED")
    /\ inbox' = "SEALED" /\ sent' = IF mine THEN "SEALED" ELSE sent
    /\ UNCHANGED <<presence, mine, stored, pending, wire, opening, reloads,
                   answer, fails>>

\* lock:ready: the other of a trade has started, unless the user did.
OnReady(r) ==
    /\ Hear("READY") /\ Refresh(r)
    /\ inbox' = "READY" /\ sent' = "READY"
    /\ opening' = (opening \/ ~mine)
    /\ UNCHANGED <<presence, mine, stored, pending, wire, answer, fails>>

\* Mutant of OnUnlocked: an opened lock is looked for on the Stash only.
OnUnlockedStash(r) ==
    /\ Hear("UNLOCKED") /\ Refresh(r)
    /\ inbox' = "UNLOCKED" /\ opening' = FALSE
    /\ UNCHANGED <<presence, mine, stored, pending, wire, sent, answer, fails>>

\* lock:unlocked
OnUnlocked(r) ==
    /\ Hear("UNLOCKED") /\ Refresh(r)
    /\ inbox' = "UNLOCKED" /\ sent' = "UNLOCKED" /\ opening' = FALSE
    /\ UNCHANGED <<presence, mine, stored, pending, wire, answer, fails>>

-----------------------------------------------------------------------------
(* The user                                                                *)

\* Holding a card that is started, or the alert's button: the server opens it.
Hold ==
    /\ ~mine /\ (inbox = "READY" \/ opening)
    /\ stored = "READY" /\ Store("UNLOCKED") /\ answer' = TRUE
    /\ UNCHANGED <<presence, mine, wire, events, inbox, sent, opening, reloads,
                   fails>>

\* confirm is answered, or the answer is lost.
HoldAnswered ==
    /\ answer /\ answer' = FALSE
    /\ \/ /\ inbox' = "UNLOCKED" /\ sent' = "UNLOCKED"
          /\ opening' = FALSE /\ fails' = fails
       \/ /\ fails < MaxFails /\ fails' = fails + 1
          /\ UNCHANGED <<inbox, sent, opening>>
    /\ UNCHANGED <<presence, mine, stored, pending, wire, events, reloads>>

\* The alert is closed.
Dismiss ==
    /\ opening /\ opening' = FALSE
    /\ UNCHANGED <<presence, mine, stored, pending, wire, events, inbox, sent,
                   reloads, answer, fails>>

\* The page is opened: a reload, and the socket is to connect.
ScreenInit ==
    /\ PresenceInit
    /\ mine \in BOOLEAN /\ stored = "none" /\ pending = {} /\ wire = 0
    /\ events = <<>> /\ inbox = "none" /\ sent = "none" /\ opening = FALSE
    /\ \E first \in Reloads :
          reloads = [r \in Reloads |-> IF r = first THEN "asked" ELSE "free"]
    /\ answer = FALSE /\ fails = 0

Deliver == OnCreated \/ \E r \in Reloads : OnReady(r) \/ OnUnlocked(r)

Polls == \E r \in Reloads : Poll(r)

ScreenNext ==
    \/ Change \/ Hold \/ HoldAnswered \/ Dismiss
    \/ Deliver \/ Polls \/ Dropped
    \/ \E state \in States : Announce(state)
    \/ \E r \in Reloads : Answered(r) \/ Reloaded(r) \/ ReloadFails(r)
    \/ \E s \in Sockets : Admission(s)
    \/ \E r \in Reloads : OnConnect(drops + 1, r)

-----------------------------------------------------------------------------
(* Properties                                                              *)

\* "Together-unlock with 1s polling" (SPEC.md:256): whatever events a dropped,
\* unadmitted or refused socket missed, in whatever order the others came, and
\* whichever reload is late, a card does not go on for good saying that the
\* other waits once the lock is open, on either list.
NeverStuckReady ==
    stored = "UNLOCKED" ~> [](inbox # "READY" /\ sent # "READY")

\* "Does the sender get told when their lock is opened? Yes, live over the
\* socket" (SPEC.md:287): if the screen hears the server when a lock it sent
\* opens, it shows it open, though a reload fails, unless it disconnects.
SenderToldLive ==
    mine /\ wire \in Sockets /\ Joined(wire) /\ "UNLOCKED" \in pending
        ~> wire \notin Sockets \/ sent = "UNLOCKED"
=============================================================================
