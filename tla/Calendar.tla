------------------------------ MODULE Calendar ------------------------------
(***************************************************************************)
(* CalendarService: the user's Google calendar through Auth0's vault.  A   *)
(* request that finds nothing fresh exchanges its token, reads the events  *)
(* and caches what came of it, failures too; other requests of the user do *)
(* so side by side, and nothing times out.                                 *)
(***************************************************************************)
EXTENDS Integers

CONSTANTS
    Nobody,    \* null
    People,    \* users with a calendar
    Tabs,      \* requests under way
    CacheMs,   \* CACHE_MS, in ticks
    Patience,  \* bound: ticks an exchange and a read take together
    LastTick   \* bound: the last tick

\* What is counted are numbers, and null is none; and caches keep for a while.
ASSUME CalendarAssumptions ==
    /\ CacheMs \in Nat \ {0} /\ Patience \in Nat
    /\ Nobody \notin Nat

VARIABLES
    now,       \* the time in ticks
    consented, \* when each person allowed calendar access, or Nobody
    answers,   \* the cache: each person's last outcome, [at, status], or Nobody
    tabs,      \* the request of each tab: [user, pc, since]
    told       \* the last answer given: [user, status, at]

cvars == <<now, consented, answers, tabs, told>>

NoTab == [user |-> Nobody, pc |-> "idle", since |-> 0]

\* Mutant of CacheFresh: what was cached stays.
CacheKept(u) == answers[u] # Nobody

CacheFresh(u) == answers[u] # Nobody /\ now - answers[u].at < CacheMs

\* forUser: what is fresh in the cache is the answer, a failure too.
ForUser(t, u) ==
    /\ tabs[t] = NoTab
    /\ IF CacheFresh(u)
       THEN told' = [user |-> u, status |-> answers[u].status, at |-> now] /\ tabs' = tabs
       ELSE /\ tabs' = [tabs EXCEPT ![t] =
                           [user |-> u, pc |-> "exchange", since |-> now]]
            /\ told' = told
    /\ UNCHANGED <<now, consented, answers>>

\* The request's outcome is cached, from now, and answered.
Loaded(t, status) ==
    LET u == tabs[t].user IN
    /\ answers' = [answers EXCEPT ![u] = [at |-> now, status |-> status]]
    /\ told' = [user |-> u, status |-> status, at |-> now]
    /\ tabs' = [tabs EXCEPT ![t] = NoTab]

\* exchange: a Google token, a refusal for want of consent, or an error.
Exchange(t) ==
    /\ tabs[t].pc = "exchange"
    /\ \/ /\ consented[tabs[t].user] # Nobody
          /\ tabs' = [tabs EXCEPT ![t].pc = "read"]
          /\ UNCHANGED <<answers, told>>
       \/ /\ consented[tabs[t].user] = Nobody
          /\ tabs' = [tabs EXCEPT ![t].pc = "refused"]
          /\ UNCHANGED <<answers, told>>
       \/ Loaded(t, "error")
    /\ UNCHANGED <<now, consented>>

\* fetchEvents: the events, or a connected calendar that could not be read; or
\* the refusal arrives.
FetchEvents(t) ==
    /\ \/ /\ tabs[t].pc = "read"
          /\ \E status \in {"events", "unread"} : Loaded(t, status)
       \/ tabs[t].pc = "refused" /\ Loaded(t, "not connected")
    /\ UNCHANGED <<now, consented>>

\* The person signs in with Google and allows calendar access.
Consent(u) ==
    /\ consented[u] = Nobody
    /\ consented' = [consented EXCEPT ![u] = now]
    /\ UNCHANGED <<now, answers, tabs, told>>

Passes ==
    /\ now < LastTick
    /\ \A t \in Tabs : tabs[t].pc # "idle" => now - tabs[t].since < Patience
    /\ now' = now + 1
    /\ UNCHANGED <<consented, answers, tabs, told>>

CalendarInit ==
    /\ now = 0 /\ consented = [u \in People |-> Nobody]
    /\ answers = [u \in People |-> Nobody] /\ tabs = [t \in Tabs |-> NoTab]
    /\ told = [user |-> Nobody, status |-> "events", at |-> 0]

CalendarNext ==
    \/ Passes
    \/ \E u \in People : Consent(u)
    \/ \E t \in Tabs : \/ Exchange(t) \/ FetchEvents(t)
                       \/ \E u \in People : ForUser(t, u)

CalendarSpec == CalendarInit /\ [][CalendarNext]_cvars

-----------------------------------------------------------------------------
(* Properties                                                              *)

\* Someone who allowed access is not asked to connect for longer than a cached
\* refusal lasts after the slowest exchange that had begun before: refusals
\* are cached from when they arrive, and may replace a later answer.
AskedAgainAtMost ==
    [][\A u \in People :
          /\ told' # told
          /\ told'.user = u /\ told'.status = "not connected"
          => consented[u] = Nobody \/ now - consented[u] < CacheMs + Patience]_cvars
=============================================================================
