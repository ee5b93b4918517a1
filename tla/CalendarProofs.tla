--------------------------- MODULE CalendarProofs ---------------------------
(***************************************************************************)
(* How long a refusal of the calendar may be answered, for any number of   *)
(* people and requests, and any length of the cache and of an exchange.    *)
(***************************************************************************)
EXTENDS Calendar, TLAPS

-----------------------------------------------------------------------------
(* The inductive invariant                                                 *)

Statuses == {"events", "unread", "not connected", "error"}

Tab == [user : People \cup {Nobody}, pc : {"idle", "exchange", "read", "refused"},
        since : Nat]

Answer == [at : Nat, status : Statuses]

CalendarTypeOK ==
    /\ now \in Nat
    /\ consented \in [People -> Nat \cup {Nobody}]
    /\ answers \in [People -> Answer \cup {Nobody}]
    /\ tabs \in [Tabs -> Tab]

\* Nobody allowed access later than now.
ConsentInv == \A u \in People : consented[u] # Nobody => consented[u] <= now

\* A request takes no longer than it may; one that was refused began before
\* access was allowed.
TabInv == \A t \in Tabs :
    LET tab == tabs[t] IN
    /\ tab.pc # "idle" =>
           tab.user \in People /\ tab.since <= now /\ now - tab.since <= Patience
    /\ tab.pc = "refused" =>
           \/ consented[tab.user] = Nobody
           \/ consented[tab.user] >= tab.since

\* A refusal arrived no later than a request takes after access was allowed.
AnswerInv == \A u \in People :
    /\ answers[u] # Nobody => answers[u].at <= now
    /\ answers[u] # Nobody /\ answers[u].status = "not connected" =>
           \/ consented[u] = Nobody
           \/ answers[u].at - consented[u] <= Patience

CalendarInv == CalendarTypeOK /\ ConsentInv /\ TabInv /\ AnswerInv


-----------------------------------------------------------------------------
(* The steps                                                               *)

LEMMA SpansAddStrictly ==
    \A n, a, c, x, y \in Nat : n - a < x /\ a - c <= y => n - c < x + y
  OBVIOUS

LEMMA BeginningsAreOlder ==
    \A n, a, c, y \in Nat : c >= a /\ n - a <= y => n - c <= y
  OBVIOUS

LEMMA NotLaterThanItself == \A n \in Nat : n <= n
  OBVIOUS

LEMMA CacheMsAdds ==
    \A n, c, x, y \in Nat : x > 0 /\ n - c <= y => n - c < x + y
  OBVIOUS

LEMMA CacheAndPatience ==
    CacheMs \in Nat /\ CacheMs > 0 /\ Patience \in Nat
  BY CalendarAssumptions

LEMMA TickPasses ==
    \A n, a, y \in Nat : \A m :
        m = n + 1 /\ a <= n /\ n - a < y => a <= m /\ m - a <= y
  OBVIOUS

LEMMA SpansGrow == \A n, a \in Nat : a <= n => a <= n + 1
  OBVIOUS

LEMMA CalendarInitially == CalendarInit => CalendarInv
<1> SUFFICES ASSUME CalendarInit PROVE CalendarInv
  OBVIOUS
<1>1. NoTab \in Tab /\ NoTab.pc = "idle"  BY DEF NoTab, Tab
<1>2. \A t \in Tabs : tabs[t] = NoTab  BY DEF CalendarInit
<1>3. CalendarTypeOK  BY <1>1 DEF CalendarInit, CalendarTypeOK
<1>4. TabInv  BY <1>1, <1>2 DEF TabInv
<1>5. ConsentInv /\ AnswerInv  BY DEF CalendarInit, ConsentInv, AnswerInv
<1> QED  BY <1>3, <1>4, <1>5 DEF CalendarInv

\* What a request's outcome does to the cache and to the requests: an outcome
\* of now, and a refusal only for someone whose access is not older than a
\* request may be.
LEMMA LoadedKeeps ==
    ASSUME CalendarInv, NEW t \in Tabs, NEW status \in Statuses,
           tabs[t].pc # "idle", Loaded(t, status),
           status = "not connected" => tabs[t].pc = "refused",
           UNCHANGED <<now, consented>>
    PROVE  CalendarInv'
<1> USE DEF CalendarInv
<1>t. tabs[t] \in Tab  BY DEF CalendarTypeOK
<1> PICK u : u = tabs[t].user  OBVIOUS
<1>u. /\ u \in People /\ tabs[t].since \in Nat
      /\ tabs[t].since <= now /\ now - tabs[t].since <= Patience
  BY <1>t DEF TabInv, Tab
<1> PICK new : new = [at |-> now, status |-> status]  OBVIOUS
<1>n. new \in Answer /\ new.at = now /\ new.status = status
  BY DEF Answer, CalendarTypeOK
<1>1. answers' = [answers EXCEPT ![u] = new] /\ tabs' = [tabs EXCEPT ![t] = NoTab]
  BY DEF Loaded
<1>2. NoTab \in Tab /\ NoTab.pc = "idle"  BY DEF NoTab, Tab
<1>3. CalendarTypeOK'
  BY <1>1, <1>2, <1>n, <1>u DEF CalendarTypeOK
<1>4. ConsentInv'  BY DEF ConsentInv
<1>5. TabInv'
  <2> SUFFICES ASSUME NEW s \in Tabs
      PROVE  /\ tabs'[s].pc # "idle" =>
                    /\ tabs'[s].user \in People /\ tabs'[s].since <= now
                    /\ now - tabs'[s].since <= Patience
             /\ tabs'[s].pc = "refused" =>
                    \/ consented[tabs'[s].user] = Nobody
                    \/ consented[tabs'[s].user] >= tabs'[s].since
    BY DEF TabInv
  <2>1. tabs'[s] = NoTab \/ tabs'[s] = tabs[s]  BY <1>1 DEF CalendarTypeOK
  <2> QED  BY <2>1, <1>2 DEF TabInv
<1>6. AnswerInv'
  <2> SUFFICES ASSUME NEW v \in People
      PROVE  /\ answers'[v] # Nobody => answers'[v].at <= now
             /\ answers'[v] # Nobody /\ answers'[v].status = "not connected" =>
                    \/ consented[v] = Nobody
                    \/ answers'[v].at - consented[v] <= Patience
    BY DEF AnswerInv
  <2>1. CASE v = u
    <3>1. answers'[v] = new  BY <2>1, <1>1, <1>u DEF CalendarTypeOK
    <3>2. status = "not connected" =>
              consented[u] = Nobody \/ consented[u] >= tabs[t].since
      BY DEF TabInv
    <3>3. consented[u] = Nobody \/ consented[u] \in Nat  BY <1>u DEF CalendarTypeOK
    <3>4. now \in Nat /\ Patience \in Nat  BY CalendarAssumptions DEF CalendarTypeOK
    <3>5. answers'[v].at = now /\ answers'[v].status = status
      BY <3>1, <1>n
    <3>6. consented[u] # Nobody /\ status = "not connected" =>
              now - consented[u] <= Patience
      <4> SUFFICES ASSUME consented[u] # Nobody, status = "not connected"
          PROVE  now - consented[u] <= Patience
        OBVIOUS
      <4>1. consented[u] \in Nat /\ consented[u] >= tabs[t].since
        BY <3>2, <3>3
      <4> QED  BY <4>1, <3>4, <1>u, BeginningsAreOlder
    <3>7. answers'[v].at <= now  BY <3>4, <3>5, NotLaterThanItself
    <3> QED  BY <2>1, <3>5, <3>6, <3>7
  <2>2. CASE v # u
    <3>1. answers'[v] = answers[v]  BY <2>2, <1>1, <1>u DEF CalendarTypeOK
    <3> QED  BY <3>1 DEF AnswerInv
  <2> QED  BY <2>1, <2>2
<1> QED  BY <1>3, <1>4, <1>5, <1>6

\* A request moves on to a state of its own, for the same person.
LEMMA TabMoves ==
    ASSUME CalendarInv, NEW t \in Tabs, NEW tab \in Tab,
           tabs' = [tabs EXCEPT ![t] = tab],
           tab.pc # "idle" =>
               tab.user \in People /\ tab.since <= now /\ now - tab.since <= Patience,
           tab.pc = "refused" => consented[tab.user] = Nobody,
           UNCHANGED <<now, consented, answers>>
    PROVE  CalendarInv'
<1> USE DEF CalendarInv
<1>1. CalendarTypeOK'  BY DEF CalendarTypeOK
<1>2. ConsentInv' /\ AnswerInv'  BY DEF ConsentInv, AnswerInv
<1>3. TabInv'
  <2> SUFFICES ASSUME NEW s \in Tabs
      PROVE  /\ tabs'[s].pc # "idle" =>
                    /\ tabs'[s].user \in People /\ tabs'[s].since <= now
                    /\ now - tabs'[s].since <= Patience
             /\ tabs'[s].pc = "refused" =>
                    \/ consented[tabs'[s].user] = Nobody
                    \/ consented[tabs'[s].user] >= tabs'[s].since
    BY DEF TabInv
  <2>1. tabs'[s] = tab \/ tabs'[s] = tabs[s]  BY DEF CalendarTypeOK
  <2> QED  BY <2>1 DEF TabInv
<1> QED  BY <1>1, <1>2, <1>3

LEMMA ForUserKeeps ==
    ASSUME CalendarInv, NEW t \in Tabs, NEW u \in People, ForUser(t, u)
    PROVE  CalendarInv'
<1>n. now \in Nat /\ 0 <= Patience
  BY CalendarAssumptions DEF CalendarInv, CalendarTypeOK
<1>1. CASE CacheFresh(u)
  <2>1. UNCHANGED <<now, consented, answers, tabs>>  BY <1>1 DEF ForUser
  <2> QED
    BY <2>1 DEF CalendarInv, CalendarTypeOK, ConsentInv, TabInv, AnswerInv
<1>2. CASE ~CacheFresh(u)
  <2> PICK tab : tab = [user |-> u, pc |-> "exchange", since |-> now]  OBVIOUS
  <2>1. tabs' = [tabs EXCEPT ![t] = tab] /\ UNCHANGED <<now, consented, answers>>
    BY <1>2 DEF ForUser
  <2>2. tab \in Tab /\ tab.user = u /\ tab.pc = "exchange" /\ tab.since = now
    BY <1>n DEF Tab
  <2>3. tab.since <= now /\ now - tab.since <= Patience
    BY <2>2, <1>n
  <2>4. tab.pc # "refused"  BY <2>2
  <2> QED  BY <2>1, <2>2, <2>3, <2>4, TabMoves
<1> QED  BY <1>1, <1>2

LEMMA ExchangeKeeps ==
    ASSUME CalendarInv, NEW t \in Tabs, Exchange(t)
    PROVE  CalendarInv'
<1>t. tabs[t] \in Tab /\ tabs[t].pc = "exchange" /\ UNCHANGED <<now, consented>>
  BY DEF Exchange, CalendarInv, CalendarTypeOK
<1>i. /\ tabs[t].user \in People /\ tabs[t].since <= now
      /\ now - tabs[t].since <= Patience
  BY <1>t DEF CalendarInv, TabInv
<1>1. CASE Loaded(t, "error")
  BY <1>1, <1>t, LoadedKeeps DEF Statuses
<1>2. ASSUME NEW pc \in {"read", "refused"},
             pc = "refused" => consented[tabs[t].user] = Nobody,
             tabs' = [tabs EXCEPT ![t].pc = pc], UNCHANGED answers
      PROVE  CalendarInv'
  <2> PICK tab : tab = [tabs[t] EXCEPT !.pc = pc]  OBVIOUS
  <2>1. /\ tab \in Tab /\ tab.user = tabs[t].user
        /\ tab.since = tabs[t].since /\ tab.pc = pc
    BY <1>t DEF Tab
  <2>2. tabs' = [tabs EXCEPT ![t] = tab]  BY <1>2
  <2>3. UNCHANGED <<now, consented, answers>>  BY <1>t, <1>2
  <2>4. /\ tab.user \in People /\ tab.since <= now
        /\ now - tab.since <= Patience
    BY <2>1, <1>i
  <2>5. tab.pc = "refused" => consented[tab.user] = Nobody  BY <2>1, <1>2
  <2> HIDE DEF CalendarInv
  <2> QED  BY <2>1, <2>2, <2>3, <2>4, <2>5, TabMoves
<1>3. CASE /\ consented[tabs[t].user] # Nobody
           /\ tabs' = [tabs EXCEPT ![t].pc = "read"] /\ UNCHANGED answers
  BY <1>3, <1>2
<1>4. CASE /\ consented[tabs[t].user] = Nobody
           /\ tabs' = [tabs EXCEPT ![t].pc = "refused"] /\ UNCHANGED answers
  BY <1>4, <1>2
<1> QED  BY <1>1, <1>3, <1>4 DEF Exchange

LEMMA FetchEventsKeeps ==
    ASSUME CalendarInv, NEW t \in Tabs, FetchEvents(t)
    PROVE  CalendarInv'
<1>0. UNCHANGED <<now, consented>>  BY DEF FetchEvents
<1>1. CASE tabs[t].pc = "refused" /\ Loaded(t, "not connected")
  BY <1>0, <1>1, LoadedKeeps DEF Statuses
<1>2. ASSUME tabs[t].pc = "read",
             NEW status \in {"events", "unread"}, Loaded(t, status)
      PROVE  CalendarInv'
  BY <1>0, <1>2, LoadedKeeps DEF Statuses
<1> QED  BY <1>1, <1>2 DEF FetchEvents

LEMMA ConsentKeeps ==
    ASSUME CalendarInv, NEW u \in People, Consent(u)
    PROVE  CalendarInv'
<1> USE DEF CalendarInv
<1>1. /\ consented[u] = Nobody /\ consented' = [consented EXCEPT ![u] = now]
      /\ UNCHANGED <<now, answers, tabs>>
  BY DEF Consent
<1>n. now \in Nat /\ now # Nobody /\ 0 <= Patience
  BY CalendarAssumptions DEF CalendarTypeOK
<1>2. \A v \in People :
          consented'[v] = IF v = u THEN now ELSE consented[v]
  BY <1>1 DEF CalendarTypeOK
<1>3. CalendarTypeOK'  BY <1>1, <1>n DEF CalendarTypeOK
<1>4. ConsentInv'  BY <1>1, <1>2, <1>n DEF ConsentInv
<1>5. TabInv'  BY <1>1, <1>2, <1>n DEF TabInv
<1>6. AnswerInv'
  <2> SUFFICES ASSUME NEW v \in People, answers[v] # Nobody
      PROVE  /\ answers[v].at <= now
             /\ answers[v].status = "not connected" =>
                    \/ consented'[v] = Nobody
                    \/ answers[v].at - consented'[v] <= Patience
    BY <1>1 DEF AnswerInv
  <2>1. answers[v].at \in Nat /\ answers[v].at <= now
    BY DEF AnswerInv, CalendarTypeOK, Answer
  <2>2. CASE v = u
    <3>1. answers[v].at - now <= Patience
      BY <2>1, <1>n, CalendarAssumptions
    <3> QED  BY <2>1, <2>2, <3>1, <1>2
  <2>3. CASE v # u
    BY <2>1, <2>3, <1>2 DEF AnswerInv
  <2> QED  BY <2>2, <2>3
<1> QED  BY <1>3, <1>4, <1>5, <1>6

LEMMA PassesKeeps ==
    ASSUME CalendarInv, Passes
    PROVE  CalendarInv'
<1> USE DEF CalendarInv
<1>1. /\ now' = now + 1 /\ UNCHANGED <<consented, answers, tabs>>
      /\ \A t \in Tabs : tabs[t].pc # "idle" => now - tabs[t].since < Patience
  BY DEF Passes
<1>n. now \in Nat /\ Patience \in Nat
  BY CalendarAssumptions DEF CalendarTypeOK
<1>2. CalendarTypeOK'  BY <1>1, <1>n DEF CalendarTypeOK
<1>3. ConsentInv'
  <2>1. \A u \in People : consented[u] \in Nat \cup {Nobody}  BY DEF CalendarTypeOK
  <2> QED  BY <2>1, <1>1, <1>n DEF ConsentInv
<1>4. TabInv'
  <2>1. \A t \in Tabs : tabs[t].since \in Nat  BY DEF CalendarTypeOK, Tab
  <2>2. ASSUME NEW t \in Tabs, tabs[t].pc # "idle"
        PROVE  /\ tabs'[t].user \in People /\ tabs'[t].since <= now'
               /\ now' - tabs'[t].since <= Patience
    <3>1. tabs'[t] = tabs[t] /\ now' = now + 1  BY <1>1
    <3>2. tabs[t].user \in People /\ tabs[t].since <= now
      BY <2>2 DEF TabInv
    <3>3. now - tabs[t].since < Patience  BY <2>2, <1>1
    <3>4. tabs[t].since <= now' /\ now' - tabs[t].since <= Patience
      BY <2>1, <3>1, <3>2, <3>3, <1>n, TickPasses
    <3> QED  BY <3>1, <3>2, <3>4
  <2>3. ASSUME NEW t \in Tabs, tabs[t].pc = "refused"
        PROVE  \/ consented'[tabs'[t].user] = Nobody
               \/ consented'[tabs'[t].user] >= tabs'[t].since
    BY <2>3, <1>1 DEF TabInv
  <2>4. \A t \in Tabs : tabs'[t].pc = tabs[t].pc  BY <1>1
  <2> QED  BY <2>2, <2>3, <2>4 DEF TabInv
<1>5. AnswerInv'
  <2>1. \A u \in People : answers[u] # Nobody => answers[u].at \in Nat
    BY DEF CalendarTypeOK, Answer
  <2>2. ASSUME NEW u \in People, answers[u] # Nobody
        PROVE  answers[u].at <= now + 1
    <3>1. answers[u].at <= now  BY <2>2 DEF AnswerInv
    <3> QED  BY <2>1, <2>2, <3>1, <1>n, SpansGrow
  <2>3. answers' = answers /\ consented' = consented /\ now' = now + 1  BY <1>1
  <2> QED  BY <2>2, <2>3 DEF AnswerInv
<1> QED  BY <1>2, <1>3, <1>4, <1>5

LEMMA CalendarInvariance == CalendarSpec => []CalendarInv
<1>1. CalendarInv /\ [CalendarNext]_cvars => CalendarInv'
  <2> SUFFICES ASSUME CalendarInv, [CalendarNext]_cvars PROVE CalendarInv'
    OBVIOUS
  <2>1. CASE Passes  BY <2>1, PassesKeeps
  <2>2. ASSUME NEW u \in People, Consent(u) PROVE CalendarInv'
    BY <2>2, ConsentKeeps
  <2>3. ASSUME NEW t \in Tabs, Exchange(t) PROVE CalendarInv'
    BY <2>3, ExchangeKeeps
  <2>4. ASSUME NEW t \in Tabs, FetchEvents(t) PROVE CalendarInv'
    BY <2>4, FetchEventsKeeps
  <2>5. ASSUME NEW t \in Tabs, NEW u \in People, ForUser(t, u) PROVE CalendarInv'
    BY <2>5, ForUserKeeps
  <2>6. CASE UNCHANGED cvars
    BY <2>6 DEF cvars, CalendarInv, CalendarTypeOK, ConsentInv, TabInv, AnswerInv
  <2> QED  BY <2>1, <2>2, <2>3, <2>4, <2>5, <2>6 DEF CalendarNext
<1> QED  BY CalendarInitially, <1>1, PTL DEF CalendarSpec

-----------------------------------------------------------------------------
(* The bound on refusals                                                   *)

\* A refusal that was answered was fresh in the cache, or had just arrived.
LEMMA RefusalsAreYoung ==
    ASSUME CalendarInv, NEW u \in People, CalendarNext,
           told' # told, told'.user = u, told'.status = "not connected",
           consented[u] # Nobody
    PROVE  now - consented[u] < CacheMs + Patience
<1> USE DEF CalendarInv
<1>n. /\ now \in Nat /\ Patience \in Nat /\ CacheMs \in Nat /\ CacheMs > 0
      /\ consented[u] \in Nat
  <2>1. consented[u] \in Nat \cup {Nobody}  BY DEF CalendarTypeOK
  <2>2. consented[u] \in Nat  BY <2>1
  <2>3. now \in Nat  BY DEF CalendarTypeOK
  <2> QED  BY <2>2, <2>3, CacheAndPatience
<1>1. ASSUME NEW t \in Tabs, NEW v \in People, ForUser(t, v)
      PROVE  now - consented[u] < CacheMs + Patience
  <2>1. /\ CacheFresh(v)
        /\ told' = [user |-> v, status |-> answers[v].status, at |-> now]
    BY <1>1 DEF ForUser
  <2>2. v = u /\ answers[u].status = "not connected"  BY <2>1
  <2>3. answers[u] # Nobody /\ now - answers[u].at < CacheMs
    BY <2>1, <2>2 DEF CacheFresh
  <2>4. answers[u].at \in Nat  BY <2>3 DEF CalendarTypeOK, Answer
  <2>5. answers[u].at - consented[u] <= Patience  BY <2>2, <2>3 DEF AnswerInv
  <2> QED  BY <2>3, <2>4, <2>5, <1>n, SpansAddStrictly
<1>2. ASSUME NEW t \in Tabs, FetchEvents(t)
      PROVE  now - consented[u] < CacheMs + Patience
  <2>1. tabs[t].pc = "refused" /\ Loaded(t, "not connected")
    <3>1. ASSUME NEW status \in {"events", "unread"}, Loaded(t, status)
          PROVE  FALSE
      <4>1. told'.status = status  BY <3>1 DEF Loaded
      <4> QED  BY <4>1
    <3> QED  BY <1>2, <3>1 DEF FetchEvents
  <2>2. tabs[t].user = u  BY <2>1 DEF Loaded
  <2>3. tabs[t].since \in Nat  BY DEF CalendarTypeOK, Tab
  <2>4. consented[u] >= tabs[t].since /\ now - tabs[t].since <= Patience
    BY <2>1, <2>2 DEF TabInv
  <2>5. now - consented[u] <= Patience
    BY <2>3, <2>4, <1>n, BeginningsAreOlder
  <2> QED  BY <2>5, <1>n, CacheMsAdds
<1>3. ASSUME NEW t \in Tabs, Exchange(t) PROVE FALSE
  <2>1. Loaded(t, "error")  BY <1>3 DEF Exchange
  <2>2. told'.status = "error"  BY <2>1 DEF Loaded
  <2> QED  BY <2>2
<1> QED  BY <1>1, <1>2, <1>3 DEF CalendarNext, Passes, Consent

\* Someone who allowed calendar access is told to connect no longer than a
\* cached refusal lasts after the slowest exchange that had begun before
\* (forUser, exchange and its cache of failures), whatever those bounds are.
THEOREM RefusalsPass == CalendarSpec => AskedAgainAtMost
<1>1. CalendarInv /\ [CalendarNext]_cvars =>
          [\A u \in People :
              /\ told' # told
              /\ told'.user = u /\ told'.status = "not connected"
              => consented[u] = Nobody \/ now - consented[u] < CacheMs + Patience]_cvars
  BY RefusalsAreYoung
<1> QED  BY CalendarInvariance, <1>1, PTL DEF CalendarSpec, AskedAgainAtMost
=============================================================================
