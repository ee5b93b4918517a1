------------------------------- MODULE Shelf -------------------------------
(***************************************************************************)
(* The prompt rail of HomePage: the cards buildSkyPrompts and buildPrompts *)
(* derive from the locks, friends, calendars and skies the screen has, the *)
(* dismissals that retire them, and the words K2 writes over them, which   *)
(* come while the cards go on changing.  A list of cards is a set of them, *)
(* each with the place it was pushed at.                                   *)
(*                                                                         *)
(* Time is counted in half days: noon lies between 2 * d and 2 * d + 1.    *)
(* The second half of a day stands for its 18th hour too.                  *)
(***************************************************************************)
EXTENDS Integers, FiniteSets, Sequences

CONSTANTS
    Circle,     \* the user's friends: [id, school], in their order
    MySchool,
    Calendars,  \* events, games and quirks of each school
    Lists,      \* what the lists can hold: [inbox, sent, events]
    SkyMaps,    \* what the skies can be: a sky or NoSky, for each school
    Year,       \* half days of a year
    Ritual,     \* weeklyRitual
    DeviceMinutes,       \* the device's clock, if the user's sky is unknown
    FirstHalf, LastHalf, \* bound: the half days
    MaxSkips, MaxAsks    \* bound: cards dismissed, requests to K2

\* What has an id is one thing.
OneEach(s) == \A n, m \in DOMAIN s : s[n].id = s[m].id => s[n] = s[m]

\* The API lists a friend once, and a lock or an event of an id is one.
ASSUME ShelfAssumptions ==
    /\ OneEach(Circle)
    /\ \A l \in Lists : OneEach(l.inbox) /\ OneEach(l.sent) /\ OneEach(l.events)

VARIABLES
    now,        \* the half day
    lists, skies,
    skipped, retired,  \* trigger keys dismissed once; twice or more
    copies,     \* shelfCopy: what K2 wrote, at most one for each id
    rail,       \* the cards shown
    stale,      \* what they are made from changed since
    ask,        \* the cards of the request under way that counts, if any
    asks        \* requests so far

shelfVars ==
    <<now, lists, skies, skipped, retired, rail, copies, stale, ask, asks>>

NoSky == [label |-> "unknown"]
If(condition, set) == IF condition THEN set ELSE {}

\* Places, and whatever else things are sorted by, are compared from their
\* first number on.
Before(p, q) ==
    \E n \in DOMAIN p : p[n] < q[n] /\ \A m \in 1 .. n - 1 : p[m] = q[m]

\* How many of the set come before x, sorted by Key; and its first n.
Ahead(set, x, Key(_)) == Cardinality({y \in set : Before(Key(y), Key(x))})
First(n, set, Key(_)) == {x \in set : Ahead(set, x, Key) < n}

\* about: what the card is about.  says: the facts in its words.
Prompt(place, id, about, key, says) ==
    [place |-> place, id |-> id, about |-> about, key |-> key, says |-> says]
Place(card) == card.place

Today == now \div 2

\* daysBetween(created, now)
Age(lock) == (now - lock.at) \div 2

\* daysBetween(now, noon of the day), rounded down: in the afternoon, today's
\* events are over and tomorrow's are "today".
DaysTo(day) == (2 * day - now) \div 2

-----------------------------------------------------------------------------
(* sky.ts                                                                  *)

IsWet(sky) == sky.label \in {"rainy", "snowy", "stormy"}

MySky == skies[MySchool]

Distance(a, b) == IF a > b THEN a - b ELSE b - a

\* Sunrise and sunset are told of from an hour before to half an hour after.
Soon(sky, minute) == minute - sky.minutes \in -30 .. 60

\* The sky of the i-th friend, where it differs from the user's.
SkyCards(i) ==
    LET f == Circle[i]
        sky == skies[f.school]
        mine == MySky
        here == IF mine = NoSky THEN DeviceMinutes ELSE mine.minutes
        apart == Distance(sky.minutes, here) >= 120
        night == sky.minutes >= 22 * 60 \/ sky.minutes < 5 * 60
        morning == sky.minutes \in 6 * 60 .. 9 * 60 - 1
        Card(n, kind, says) ==
            {Prompt(<<1, i, n, 0, 0>>, <<"sky", kind, f.id>>, <<kind, f.id>>,
                    <<"sky", kind, f.id, Today>>, says)}
    IN  If(sky # NoSky /\ f.school # MySchool,
           If(IsWet(sky) /\ ~IsWet(mine), Card(1, "wet", <<sky.tempF, sky.label, mine.label>>))
           \cup If(mine # NoSky /\ Distance(mine.tempF, sky.tempF) >= 20,
                   Card(2, "gap", <<sky.tempF, mine.tempF>>))
           \cup If(Soon(sky, sky.sunrise), Card(3, "sunrise", <<sky.sunrise>>))
           \cup If(Soon(sky, sky.sunset), Card(4, "sunset", <<sky.sunset>>))
           \cup If(apart /\ night, Card(5, "night", <<sky.minutes>>))
           \cup If(apart /\ ~night /\ morning /\ here > sky.minutes,
                   Card(5, "morning", <<sky.minutes>>)))

-----------------------------------------------------------------------------
(* prompts.ts                                                              *)

\* A lock of the Stash that stays sealed.
WaitingCards ==
    LET waiting == {n \in DOMAIN lists.inbox : ~lists.inbox[n].open
                                               /\ Age(lists.inbox[n]) >= 6}
        Card(n, lock) == Prompt(<<2, n, 0, 0, 0>>, <<"waiting", lock.id>>, <<lock.id>>,
                                <<"waiting", lock.id, Today>>, <<Age(lock), lock.label>>)
    IN  {Card(n, lists.inbox[n]) : n \in waiting}

\* Where the locks sent to a friend are, and those of the friend.
SentTo(f) == {n \in DOMAIN lists.sent : f.id \in lists.sent[n].recipientIds}
SentBy(f) == {n \in DOMAIN lists.inbox : lists.inbox[n].senderId = f.id}

ReciprocityCards(i) ==
    LET f == Circle[i]
        recent == IF Cardinality(SentTo(f)) < 4 THEN Cardinality(SentTo(f)) ELSE 4
    IN  If(recent >= 3 /\ \A n \in SentBy(f) : Age(lists.inbox[n]) >= 30,
           {Prompt(<<3, i, 1, 0, 0>>, <<"reciprocity", f.id>>, <<f.id>>,
                   <<"reciprocity", f.id, Today>>, <<recent>>)})

\* The oldest lock a friend has not opened.  One that went to several friends
\* has one id and one key on all their cards.
UnfiredCards(i) ==
    LET f == Circle[i]
        sealed == {n \in SentTo(f) : ~lists.sent[n].open}
        oldest == First(1, sealed, LAMBDA n : <<lists.sent[n].at, n>>)
        Card(old) == Prompt(<<3, i, 2, 0, 0>>, <<"unfired", old.id>>, <<old.id, f.id>>,
                            <<"unfired", old.id>>,
                            IF old.label THEN <<old.at>> ELSE <<Age(old)>>)
    IN  {Card(lists.sent[n]) : n \in {n \in oldest : Age(lists.sent[n]) >= 14}}

\* A lock the user opened and sent nothing after.
ReplyCards(i) ==
    LET f == Circle[i]
        unanswered == {n \in SentBy(f) :
                          /\ lists.inbox[n].open
                          /\ \A m \in SentTo(f) :
                                lists.sent[m].at <= lists.inbox[n].unlockedAt}
        Card(lock) == Prompt(<<3, i, 3, 0, 0>>, <<"reply", lock.id>>, <<lock.id>>,
                             <<"reply", lock.id>>, <<>>)
    IN  {Card(lists.inbox[n]) : n \in First(1, unanswered, LAMBDA n : <<n>>)}

\* Where the next events are, of those within so many days.
Upcoming(events, most, days) ==
    First(most, {n \in DOMAIN events : DaysTo(events[n].day) \in 0 .. days},
          LAMBDA n : <<DaysTo(events[n].day), n>>)

\* The next two events of a friend's school; two of one day share an id.
SchoolCards(i) ==
    LET f == Circle[i]
        events == Calendars[f.school].events
        Card(n, e) == Prompt(<<3, i, 4, e.day, n>>, <<"fschool", f.id, e.day>>,
                             <<f.id, e.label>>, <<"fschool", f.id, e.day>>,
                             <<DaysTo(e.day)>>)
    IN  {Card(n, events[n]) : n \in Upcoming(events, 2, 14)}

GameCards(i) ==
    LET f == Circle[i]
        games == Calendars[f.school].games
        Card(game) == Prompt(<<3, i, 5, 0, 0>>, <<"game", f.id, game.day>>,
                             <<f.id, game.label>>, <<"game", f.id, game.day>>,
                             <<DaysTo(game.day)>>)
    IN  {Card(games[n]) : n \in {n \in Upcoming(games, 1, 14) : DaysTo(games[n].day) <= 1}}

\* One quirk of the campus a day.
QuirkCards(i) ==
    LET f == Circle[i]
        quirks == Calendars[f.school].quirks
        quirk == quirks[(Today % Len(quirks)) + 1]
    IN  If(quirks # <<>>,
           {Prompt(<<3, i, 6, 0, 0>>, <<"quirk", f.id, quirk>>, <<f.id, quirk>>,
                   <<"quirk", f.id, quirk, Today>>, <<>>)})

\* The day of the first stash between the two, years later.
MemoryCards(i) ==
    LET f == Circle[i]
        times == {lists.sent[n].at : n \in SentTo(f)}
                     \cup {lists.inbox[n].at : n \in SentBy(f)}
        Years(at) == Today - at \div 2 > 0 /\ (Today - at \div 2) % (Year \div 2) = 0
    IN  If(\E at \in times : Years(at) /\ \A other \in times : at <= other,
           {Prompt(<<3, i, 7, 0, 0>>, <<"memory", f.id, now \div Year>>, <<f.id>>,
                   <<"memory", f.id, now \div Year>>, <<>>)})

FriendCards(i) ==
    ReciprocityCards(i) \cup UnfiredCards(i) \cup ReplyCards(i) \cup SchoolCards(i)
        \cup GameCards(i) \cup QuirkCards(i) \cup MemoryCards(i)

\* The next three days of the user's own calendar.
CalendarCards ==
    LET Days(e) == (e.at - now) \div 2
        Card(n, e) == Prompt(<<4, n, 0, 0, 0>>, <<"cal", e.id>>, <<e.id>>,
                             <<"cal", e.id>>, <<Days(e)>>)
    IN  {Card(n, lists.events[n]) :
            n \in {n \in DOMAIN lists.events : Days(lists.events[n]) \in 0 .. 3}}

MySchoolCards ==
    LET events == Calendars[MySchool].events
        Card(e) == Prompt(<<5, 1, 0, 0, 0>>, <<"school", MySchool, e.day>>,
                          <<MySchool, e.label>>, <<"school", MySchool, e.day>>,
                          <<DaysTo(e.day)>>)
    IN  {Card(events[n]) : n \in Upcoming(events, 1, 7)}

WeatherCards ==
    If(IsWet(MySky),
       {Prompt(<<5, 2, 0, 0, 0>>, <<"weather", Today>>, <<"weather">>,
               <<"weather", MySky.label, Today>>, <<MySky.tempF, MySky.label>>)})

SunsetCards ==
    If(now % 2 = 1,
       {Prompt(<<5, 3, 0, 0, 0>>, <<"sunset", Today>>, <<"sunset">>,
               <<"sunset", Today>>, <<>>)})

RitualCards ==
    If(Ritual, {Prompt(<<6, 0, 0, 0, 0>>, <<"ritual", Today>>, <<"ritual">>,
                       <<"ritual", Today>>, <<>>)})

-----------------------------------------------------------------------------
(* The rail                                                                *)

\* What was dismissed twice is not pushed.
Kept(cards) == {p \in cards : p.key \notin retired}

\* Cards that need a friend are for the first one.
Cards ==
    LET Of(Each(_)) == UNION {Each(i) : i \in DOMAIN Circle}
        forFirst == CalendarCards \cup MySchoolCards \cup WeatherCards
                        \cup SunsetCards \cup RitualCards
        prompts == WaitingCards \cup Of(FriendCards) \cup If(Circle # <<>>, forFirst)
    IN  First(8, First(3, Kept(Of(SkyCards)), Place)
                     \cup First(5, Kept(prompts), Place), Place)

Changed == stale' = TRUE /\ UNCHANGED <<rail, copies, ask, asks>>

\* The lists are reloaded, or an event changes them.
ListsChange ==
    /\ lists' \in Lists \ {lists} /\ UNCHANGED <<now, skies, skipped, retired>>
    /\ Changed

\* Skies are fetched again every ten minutes.
SkiesLoad ==
    /\ skies' \in SkyMaps \ {skies} /\ UNCHANGED <<now, lists, skipped, retired>>
    /\ Changed

\* clockTick
Tick ==
    /\ now < LastHalf /\ now' = now + 1
    /\ UNCHANGED <<lists, skies, skipped, retired>> /\ Changed

\* dismissPrompt, from a card that is shown.
Skip(card) ==
    /\ ~stale /\ Cardinality(skipped) + 2 * Cardinality(retired) < MaxSkips
    /\ IF card.key \in skipped
       THEN retired' = retired \cup {card.key} /\ skipped' = skipped \ {card.key}
       ELSE skipped' = skipped \cup {card.key} /\ UNCHANGED retired
    /\ UNCHANGED <<now, lists, skies>> /\ Changed

-----------------------------------------------------------------------------
(* K2's words                                                              *)

\* The title and the body of a card, and the signature of the rail.
Subject(card) == [about |-> card.about, says |-> card.says]
Signature(cards) ==
    {<<Ahead(cards, p, Place), p.id, Subject(p)>> : p \in cards}

Fresh(card) == \E c \in copies : c.id = card.id /\ c.for = Subject(card)

\* The rail is rendered.  If it differs, the effect runs: the request under
\* way is cancelled, and K2 is sent the cards it did not yet write over as they
\* are now.
Render ==
    LET cards == Cards
        unwritten == {p \in cards : ~Fresh(p)}
    IN  /\ stale /\ stale' = FALSE /\ rail' = cards
        /\ IF Signature(cards) = Signature(rail) THEN UNCHANGED <<ask, asks>>
           ELSE /\ asks < MaxAsks
                /\ ask' = unwritten
                /\ asks' = IF unwritten = {} THEN asks ELSE asks + 1
        /\ UNCHANGED <<now, lists, skies, skipped, retired, copies>>

\* What comes for one item goes by its id to the first card asked for under
\* it, and the last item of an id is the one that stays.
Written(byIfm) ==
    LET Foremost(p) == \A q \in ask : q.id = p.id => ~Before(q.place, p.place)
        Last(p) == \A q \in ask : q.id = p.id => ~Before(p.place, q.place)
    IN  {[id |-> pair[1].id, for |-> Subject(pair[1]), of |-> Subject(pair[2]),
          ifm |-> byIfm] :
            pair \in {pair \in ask \X ask :
                         pair[1].id = pair[2].id /\ Foremost(pair[1]) /\ Last(pair[2])}}

\* The answer; if K2 was no help, it holds the cards as they were.
CopyArrives ==
    /\ ask # {} /\ ask' = {}
    /\ \E byIfm \in BOOLEAN :
          copies' = {c \in copies : \A p \in ask : p.id # c.id} \cup Written(byIfm)
    /\ UNCHANGED <<now, lists, skies, skipped, retired, rail, stale, asks>>

\* It fails, and is not asked again before the rail changes.
CopyFails ==
    /\ ask # {} /\ ask' = {}
    /\ UNCHANGED <<now, lists, skies, skipped, retired, rail, copies, stale, asks>>

\* Mutant of Rewritten: a card shows what was written for its id.
RewrittenById(card) == {c \in copies : c.id = card.id /\ c.ifm}

\* The words of K2 a card is shown in, if any.
Rewritten(card) == {c \in copies : c.id = card.id /\ c.ifm /\ c.for = Subject(card)}

ShelfInit ==
    /\ now = FirstHalf /\ lists \in Lists /\ skies \in SkyMaps
    /\ skipped = {} /\ retired = {} /\ rail = {} /\ stale = TRUE
    /\ copies = {} /\ ask = {} /\ asks = 0

ShelfNext ==
    \/ ListsChange \/ SkiesLoad \/ Tick
    \/ \E card \in rail : Skip(card)
    \/ Render \/ CopyArrives \/ CopyFails

ShelfSpec == ShelfInit /\ [][ShelfNext]_shelfVars

-----------------------------------------------------------------------------
(* Properties                                                              *)

\* However late K2 answers, a card is never shown in words that are out of
\* date: yesterday's days to go, the weather before.  Not even where cards share
\* an id, and one is shown in words about another.
WordsFit == \A card \in rail : \A c \in Rewritten(card) : c.of.says = card.says

\* "The facts (times, temperatures, calendars) stay exactly as the client
\* worked them out; only the words change." (HomePage.tsx:790): a card is
\* shown in words K2 wrote for that very card.
OwnWords ==
    \A card \in rail : \A c \in Rewritten(card) : c.of = Subject(card)
=============================================================================
