# Stash'd, verified

TLA+ models of Stash'd, its server (`src/apps/api`) and the parts of its web
client (`src/apps/web`) that decide something, checked with TLC and proved about
with TLAPS. Stash'd lets people seal notes, photos and songs in *locks* that open
later: when a recipient decides so, when everyone on them holds a button, or,
between two people, as a *trade* opened together. Line references are to the
repository's files.

## The system

| component | state | operations | interacts with | modelled by |
|---|---|---|---|---|
| lock engine | none | who takes part, who may hold, what a hold does | called by Stashes on loaded documents | `LockEngine` |
| Stashes | the `locks` collection; `waits`, the armed one-minute timers (memory) | create, stash back, confirm, openAlone (timer), setCondition, markHere | asks Friendships and Groups for permission; emits through Realtime | `Creation`, `Stashes`, `Lockbox` |
| Friendships | one row per pair, `PENDING` or `ACCEPTED` | pair, accept, decline, arePaired | Users; events to the other | `Friendships` |
| Groups | member lists with invite codes | create, join, shareGroup | Friendships | `Groups` |
| Users, sign-in sync | one document per person | getOrCreate on every request, profile edits, pairing codes | every other part | `Users` |
| Spotify | tokens and connect state on the user document | connect, callback, refresh, disconnect, now playing | Users; Spotify's API | `Spotify` |
| Notifications | stored alerts, push subscriptions | hourly tick, send now, preview, subscribe | Friendships, Groups, Happenings, Prompts | `Alerts` (partly) |
| Prompts | a copy cache, the model list, a "strict parameters" flag (memory) | compose, shelf rewrites, diagnostics | the IFM API | `Prompts` (partly) |
| Happenings | a 90-minute list per school (memory) | forSchool: scrape, seed, judge | feeds; Prompts | `Happenings` |
| Calendar | a ten-minute cache (memory) | forUser | Auth0's token vault, Google | `Calendar` |
| Realtime gateway | presence and rooms: sockets by user (memory) | connect, disconnect, isOnline, the notify functions | Users; the client | `Presence`, `Screen` |
| web client | lists of locks, the sheet that composes a stash, the rail of prompts | reload, event, poll, hold; compose; rewrite | the API and the socket | `Screen`, `Capture`, `Shelf`, `Polaroid` (partly) |
| sign-in (JWT), Notes, Health, shared types, scripts | configuration, one insert, constants | | | not modelled |

The server is one Node process over MongoDB without transactions. A handler runs
alone until its next `await`, so what is hard is everywhere a handler reads,
awaits, and acts on what it read:

* **stale documents.** A request decides on the document it loaded. `save()`
  sends the changed paths only; Mongoose makes the save conditional on the
  document's version (and increments it) exactly when an array is replaced.
  So holds and joins, which replace an array, are optimistic transactions, and
  all other saves overwrite unconditionally.
* **several documents, no transaction.** A stash-back is inserted and then
  linked; an original is opened and then its stash-back; "I'm here" stamps
  locks one by one. A failure or restart may fall between any two.
* **memory.** Waits, caches, presence and learned flags are shared by requests
  that run side by side, and a restart forgets them.
* **slow answers.** Composing an alert, judging a list, exchanging a token and
  writing a card take seconds, in which the same thing is asked again.
* **order of events.** A request announces the document it loaded, after
  another await; a client's reloads overtake each other and its socket drops.

What makes each component correct, in a line: a lock opens only by the holds of
its type, in order, and stays open; a trade opens both its locks; a pending
request grants nothing; a group never exceeds its cap and loses no member; a
sign-in undoes no edit; tokens land on the person who consented; nobody is
sent more alerts than the day's ceiling, or closer than the gap; a shelf answers
every card in its place; a verdict stays with its item; a socket that is there
comes to be present; a screen does not wait for what has happened; the sheet
posts only what the server takes; the camera goes off; a card's words fit its facts.

## Modules

| module | what it is |
|---|---|
| `LockEngine` | `lock.engine.ts` as operators on a lock record. Lists of ids are sets: the code appends, de-duplicates and tests membership only. |
| `Creation` | what `create` accepts; shared by the server's model and the sheet's. |
| `Stashes` | the service and its controller: a request is a *task* with a program point (`pc`) for the await it is at, the documents it holds (`docs`), its caller and its target. One action per stretch of code between awaits. |
| `Lockbox` | what the product spec promises, as atomic steps on sealed locks: seal, name a condition, hold, start, finish and give up on a trade, open an answer. No documents, snapshots, timers, events or failures. `Stashes` implements it but for one step, a stranger's hold on a self-stash (`ImplementsLockbox`, `StrangerOpens`). |
| `Polaroid` | the client's rule for offering a hold on a card. |
| `StashesInv` | the inductive invariant `IInv`, the step relation `Grows`, and what the client's rule and half a trade come to on stored locks. |
| `StashesProofs`, `LockboxProofs` | the proofs about them; `LockboxProofs` holds the minute of a trade and the refinement of `Lockbox`. |
| `Friendships`, `Groups` | both services; `Groups` holds the specification of the two together. |
| `GroupsInv`, `GroupsProofs` | their inductive invariant, and the proofs. |
| `Users`, `Spotify` | the user's document under sign-in sync and profile edits, and Spotify's requests on it. |
| `Alerts` | the tick, sends by hand, previews, push subscriptions. |
| `Prompts`, `Happenings` | K2 asked with its retry, the caches, the shelf's workers; and a school's list, which calls it. |
| `Calendar` | the cache in front of the token exchange. |
| `Presence`, `Screen` | the sockets of a user; and a screen that shows a lock, on top of them. |
| `Capture` | CaptureSheet: the draft from page to page, and the camera. |
| `Shelf` | the rail of prompts and the words K2 writes over it. |
| `Braces` | the scan for the last balanced block in a model's text, a pure function. |
| `AccountsProofs`, `AlertsProofs`, `PromptsProofs`, `CalendarProofs`, `ClientProofs` | the proofs about `Users` and `Spotify`; `Alerts`; `Prompts` under `Happenings`, and `Braces`; `Calendar`; `Presence` and `Capture`. Each begins with its inductive invariant. |
| `MCStashes`, `MCCircles`, `MCServices`, `MCCopy`, `MCClient` | the instances TLC runs. |

### How `Stashes` corresponds to the code

| state | code |
|---|---|
| `locks` | the collection. `version` is Mongoose's `__v`; `openingStartedAt` is whether the date is set; `contextMetBy` stands for `contextMetAt` too (they are written together); `unlockedAt` is left out (written exactly when `state` becomes `UNLOCKED`), as are `text`, `imageUrl`, `song` and `mediaKind`, which nothing tests |
| `waits` | `StashesService.waits` |
| `tasks` | requests in flight (`Requests`), and timer callbacks (named by their lock) |
| `told` | the last event sent to a lock's participants: the state it showed and whether somebody was "there" |

| action | code |
|---|---|
| `Create`, `StashBack` → `Insert` → `LinkReply` → `TellOriginal` → `Announce` | `create` and `POST /locks`: checks, insert, the link on the original, the two events |
| `Confirm` → `SaveHold` → `ScheduleOpenAlone` or `UnlockReply` → `SaveReply` → `TellReply` → `Announce` | `confirm` and `POST /locks/:id/confirm` |
| `OpenAlone` → `SaveAlone` → `UnlockReply` → … → `Announce` | the timer's callback and `openAlone` |
| `SetCondition` → `SaveCondition` → `Announce` | `setCondition` |
| `MarkHere` → `Stamp`\* → `AnnounceHere`\* | `markHere` and `POST /locks/here` |
| `Fail` | any database call of a task throws: what was saved stays, the rest is skipped |
| `Restart` | the process restarts: `tasks` and `waits` are gone, `locks` stays |

Choices worth knowing:

* Requests that are refused change nothing and are guards. A request that only
  reads is not there.
* `arm` is a point of its own although no await precedes `scheduleOpenAlone`:
  it runs in the continuation of the save, which other requests may precede
  once the save has reached the database. The same holds of `UnlockReply`'s
  `cancelWait`, at point `open`.
* A timer fires at any time after it is armed: the order of the minute's end
  and any other step is free. Node may run one callback of a lock while an
  earlier one of that lock is still in flight only after two starts of one
  trade, which `canConfirm` and the version check exclude.
* `setCondition` takes white space: the DTO tests `IsNotEmpty` before `trim()`,
  so a label may become `""`, which is falsy and may be written again. `create`
  tests `dto.context` before it is normalized in the same way.
* Permission (`arePaired` or `shareGroup`) is the constant `MayStash`: it may
  be any relation and does not change during a run.
* A failed database call is one that was not applied. A call that was applied
  and whose answer was lost leaves the state the next step's `Fail` leaves.

### How `Friendships` and `Groups` correspond to the code

| action | code |
|---|---|
| `Pair` → `InsertRow`, `SaveAccepted` or nothing → `AnnounceFriends` | `pair` and `POST /pair`: what entering a code comes to (`PairOutcome`) is decided on the row found |
| `Accept` → `SaveAccepted` → `AnnounceFriends` | `accept` |
| `Decline` → `DeleteRow` | `decline` |
| `Create` → `CheckMember`\* → `InsertGroup` → `AnnounceGroup` | `create` and `POST /groups`: one query per starting member, in any order |
| `Join` → `SaveJoin` → `AnnounceGroup` | `join`; who is already a member goes straight to the announcement |
| `Fail` | a database call throws or the process restarts: the call is gone, what it saved stays |

`rows` is the friendships collection by pair, which the unique index makes a
function; an insert that finds a row by now is refused (the caller gets a 500).
Saves and deletes go by `_id`, so `id` tells a row from a later one of the same
pair: `save()` of a row that was deleted throws, `deleteOne()` of one does
nothing. A status is saved without a version check; `memberIds` is replaced as
an array and so saved with one. `requestedBy` is `None` and the id 0 in rows
from before requests existed. Codes are known or not (`Codes`) and never
change. A call keeps the document it loaded in `doc`, changed as the handler
changed it. `told` and `rosters` are what was last sent.

### How the other services correspond to the code

**`Users`, `Spotify`.** `users` is the collection, by subject. A request
(`calls`) works on a copy `doc`; `dirty` holds the paths it changed, which `Save`
writes whatever became of the document meanwhile. Every request passes through
`SignIn` (→ `DrawCode` → `InsertUser` → `RetrySignIn` for a new person) before
its handler: `Patch`, `Me`, `AuthorizeUrl`, `Disconnect`, `FreshAccessToken` →
`Refresh` → `NowPlaying`. `Callback` → `Exchange` → `StoreTokens` comes from the
browser with a state and a code and no session. Tokens are the consent (`Grants`)
they come from, however often refreshed. States are drawn once each. email and
picture are synced as the name is and left out.

**`Alerts`.** A job goes through `Tick` or `SendNow`, `NextUser`, `ReadLists`,
`ReadTodays`, `Compose`, `Store`, `Push`; a preview through `Preview`,
`PreviewOne`, `PreviewEnds`. `Due` is what `deliver` tests of ceiling, gap and
slot, `Leads` whom it picks. Time is in hours (the cron fires at the full hour,
the gap is three hours) and a delivery ends in the hour it began in, since its
requests time out in seconds. `social` is how many friends and groups a person
has, which the budget depends on and which may grow between a job's steps; `even`
is the parity of the day's hash.

**`Prompts`, `Happenings`.** `asks` is the one conversation with the endpoint
each caller is in: `Resolve` (which model), `ListModels`, `Answered` (a
response of `gateway`, which may refuse the knob, not serve the model, or fail),
`Retried`. Callers differ in what they ask for: `Compose` → `Composed` through
the cache; `ShelfAsked`, and for each worker `Take` → … → `CardDone`, then
`ShelfAnswered`; `LoadSchool` → `FeedsIn` → `Curated`. `cache` is a sequence
because eviction goes by insertion. Copy is the key it was asked for.
`LastBalanced`, in `Braces`, is the scan for the last balanced block in a
model's text, run once for each text.

**`Calendar`.** `ForUser` answers from the cache or asks; `Exchange` and
`FetchEvents` end in an outcome that is cached from when it arrives. `Passes` is
the clock; an exchange and a read together take at most `Patience`, which the
code does not enforce: the property is stated relative to it.

**`Presence`, `Screen`.** `Connect` is the handshake. `handleConnection` then
goes in two steps, with the `await` of `client.join` between them: `Join`
(verify, load, enter the room) and `AddPresence` (count). `Refuse` is its
`catch`, `Drop` `handleDisconnect`, at any point. The rest of `Presence` is
about `isOnline`, which no screen reads: in `Screen` a socket hears the server
from its `Join` on. On the screen, `wire` is the page's socket, `events` what is
on its way over it; `OnConnect`, `OnCreated`, `OnReady`, `OnUnlocked` are the
handlers of `HomePage`, `Refresh` → `Answered` → `Reloaded` a reload of the four
lists, `Poll` the interval, `Hold` → `HoldAnswered` the user's own hold. The
server side is what it comes to for one screen: the lock changes (`Change`) and
is announced later (`Announce`), in any order.

**`Capture`.** One action for each button of the sheet's pages; `RunEffects` is
React's run of the two effects after a render. A tap comes after the effects of
what it was rendered with (`On`), while promises (`CameraOpens`, `CameraLate`,
`PhotoRead`, `Posted`) settle at any time. Texts and songs are data.

**`Shelf`.** `Cards` is `buildSkyPrompts` and `buildPrompts`, card by card, as a
set whose members know the place they were pushed at: the order decides which
cards fit on the rail and which of two with one id is found first. The wording
is left out, but for what of it changes while the card's subject stays (`says`).
`Render` is a render with its effect that asks K2; `CopyArrives` its answer, if
it is still wanted. Time is in half days, since days are counted from noon; the
windows of weeks and months are kept.

## Runs

The bounds are a few ids of locks, requests, jobs or reloads at once, and people;
`MaxRecipients` is the code's 12 (2 in `client`, so that it is reached). Ids and
requests are interchangeable and symmetric where only safety is checked.
`CHECK_DEADLOCK FALSE` throughout: once the bounded ids are used and everything
is open, nobody has anything left to do. The runs that hold several components
that share no state (`services`, `copy`, `client`) pick one in the initial state
(`part`) and let the others rest, so that each is explored beside none of the
others' states. `stashes` and `stashes_live` show two scenes each, which their MC
module tells apart by what is stored: a state has to fit one of them.

| run | instance | shows |
|---|---|---|
| `stashes`, trades | 2 of 3 people, 3 locks, 2 requests, 1 restart, 1 failure | a pair "open together" from the first stash to both open: `TypeOK`, `AnswerOpensWithOriginal`, `TradeInOrder`, `WaitIsKept`, `NeverResealed`, and that every step is one of `Lockbox` |
| `stashes`, holds | 3 people, 1 lock, 3 requests, 1 restart, 1 failure | a lock of any type under three requests at once: all members of a group hold (with and without the sender among the recipients), a self-stash, `MANUAL` and `RECIPIENT_SET` with a second key, conditions written meanwhile, drafts `create` refuses: `OpenedByItsRule` (of all but a self-stash, see `self_stash`), `HoldsKept`, `LastHoldOpens`, `Lockbox`; `CardsOfferHolds`: a card offers a hold exactly when the server takes it |
| `stashes_live`, trades | as in `stashes`, no restart or failure | `TradePaysOut`: a started trade opens some stash-back |
| `stashes_live`, moments | 3 people, 2 locks, 2 requests, no restart or failure | "I'm here" over two locks while they are held: `StampedByRecipient`, and `HereIsHeard`: everyone on a stamped lock is told |
| `circles` | 3 people, 1 group with room for 2, 2 calls, 2 inserted rows beside an old one, 1 failure | `OnlyTheAskedAccept`, `CapKept`, `MembersKept` and `EveryoneHears`: who was befriended, and every roster, is announced if no call fails |
| `services`, accounts | 2 people, 2 requests, 2 codes, 2 states, tokens with and without a name, failures | `NobodyShutOut`: first requests that arrive together do not refuse each other; `EditsKept`: a save on an old copy writes back nothing it did not change; `ConnectsItsOwner` and `BurnedBeforeStored`: crossing and replayed callbacks |
| `services`, alerts | 1 person with 2 friends and a budget that grows from 2, 2 jobs, a day to 22 o'clock, 1 send by hand, previews in the first hour | `CeilingKept`, `SpacedOut`, `TurnsTaken`: a friend is stashed for again only after all others with news |
| `copy` | a compose request, two workers on three cards of which two say the same, two other callers; two callers that load a school's list, one at any of three ticks and the other begun at the first (a list is kept for one tick, its verdicts for two); two calendar tabs; all texts of up to 6 braces | `CacheBounded`, `ShelfInPlace`, `ShelfServed`, `KnobDroppedRightly`; `VerdictsOwn`, `SeedsOnlyScored`, where the loads overlap with other feeds each and where one finds the list expired and its verdicts cached; `AskedAgainAtMost`; `BlockBalanced` |
| `client` | 3 sockets of one user, of which 2 end; a screen with 2 reloads of which one fails, and a socket that ends once; a sheet with 2 friends and a group, room for 2; 2 friends at one school over two half days, 2 skips, 2 requests to K2 | `PresentIsOnline`: in the room, one is counted or one's own join is still waited for; `TabsComeOnline`: in the end one is counted, for as long as one is connected; `NeverStuckReady`, `SenderToldLive`; `CameraReleased`, `DraftAccepted`; `WordsFit` |

Two requests suffice for every race of two handlers on one document, and each
handler is at most one request and one timer away from any other; three are
needed where three holds are to be in flight. Two locks make a trade, a third
the second stash-back. One restart and one failure may fall between any two
steps. In `circles` the last place of the group is raced for, and a request is
declined and asked again (from either side) while an older acceptance of it is
still in flight. In `services` two first requests of one person may draw the code
of another's, and a tick and a send by hand compose side by side. In `copy` the
cache of two is full before the last call ends, and the feeds overflow the list.
In `client` a reload answered before an event comes in after it, and noon,
at which every count of days changes, lies between the two half days.

**Fairness.** `Stashes` and `Groups` (`FairSpec`): a task in flight takes its
next step and an armed timer fires: awaits return and `setTimeout` runs as long
as the process does. Nobody is assumed to call anything. `TradePaysOut` needs no
more, since the timer needs nobody; it and `HereIsHeard` are checked without
restarts and failures because the code breaks them with one (a restart forgets
every wait, as the comment at `stashes.service.ts:47` says). `copy`: a worker of
a shelf goes on, as every fetch has a timeout, and the request is answered when
they end. `client`: an event on its way is delivered, the server announces what
it stored, a reload is answered and taken in (or fails), and the interval fires
while something is `READY`; that a socket ever connects or is admitted is not
assumed there, nor that a user acts. Of the tabs, verification and the join
return; that a socket is not refused, or stays, is not assumed.

### Where the code and its documents differ

Each of these runs checks one statement of the repository and ends in its
counterexample.

| run | statement | what happens |
|---|---|---|
| `half_opened` | "Both locks open in the same moment" (`SPEC.md:51`) | the second save fails and can never be retried |
| `unfriended` | "No request from that person is waiting." (`friendships.service.ts:156`); one cannot unpair (`PAIRING.md:240`) | a decline deletes the row it loaded although it was accepted since: a friendship both were told of is gone |
| `alerts_clustered` | "so alerts don't cluster" (`notifications.service.ts:277`) | the gap looks at today's alerts: 22 and 0 o'clock UTC are two hours apart |
| `self_stash` | unlocking is not for "anyone else" (`SPEC.md:174`) | `canConfirm` does not ask who holds a self-stash (`lock.engine.ts:97`): a stranger's hold opens it |
| `typed_name` | "A name the user typed themselves wins over whatever Auth0 says." (`users.service.ts:17`) | a sync that loaded the document before the name was typed saves the token's name over it |
| `own_words` | "The facts … stay exactly as the client worked them out" (`HomePage.tsx:790`) | two events of one day at a friend's school share an id, and the first is shown in the words written for the second |

Others were met on the way and have no run:

* two stash-backs pass "You already stashed something back for this one."
  (`stashes.service.ts:66`) before either is linked; the first linked is orphaned;
* two conditions are written at once and the second wins (`SPEC.md:176`);
* an older document is announced after a newer one, so that a client is shown a
  lock resealed until it reloads (the database never reseals: proved);
* the hold's save of the stash-back loses against `openAlone`'s, and the opened
  original is announced to nobody (`README.md:16`);
* a failure between two stamps of "I'm here" leaves stamped locks nobody is told
  of (`stashes.service.ts:281`); `openAlone` may set `openedAlone` on a lock the
  recipient opened meanwhile (`:230`); and on a lock addressed to "us" the sender
  may answer and start alone (`:62`);
* two people who enter each other's codes at once get one request and one 500
  (`friendships.service.ts:65`); of two joins the older roster may be sent last
  (`realtime.gateway.ts:119`);
* a token refresh stores tokens after a disconnect (`spotify.service.ts:303`);
* the refusal of a call that carried the knob is not retried if another call's
  refusal dropped the knob meanwhile (`prompts.service.ts:370`);
* cues used this week are filed by title and looked up by cue
  (`notifications.service.ts:297`), so the look-up finds none;
* today's game has "just wrapped" from noon on (`happenings.service.ts:340`);
* a failed reload of the groups makes the sheet forget people it still sends to
  (`HomePage.tsx:173`): `DraftAccepted` excludes that case;
* an event puts a lock the user sent on their own Stash until the next reload
  (`HomePage.tsx:235`), and a stash whose answer was lost is posted again.

## Proofs

`StashesProofs` proves, for any people, locks, requests, drafts, words, moments,
permissions and bounds that satisfy `ConstantAssumptions` (null is none of the
ids, drafts are well typed):

| theorem | states |
|---|---|
| `Invariance` | `Spec => []IInv` |
| `TypeCorrect` | `[]TypeOK` |
| `OpensByItsRule` | `[]OpenedByItsRule` |
| `AnswersOpenWithOriginals` | `[]AnswerOpensWithOriginal` |
| `TradesInOrder` | `[]TradeInOrder` |
| `StampedByRecipients` | `[]StampedByRecipient` |
| `HoldsAreKept` | `[]HoldsKept` |
| `LastHoldAlwaysOpens` | `[]LastHoldOpens` |
| `NothingReseals` | `NeverResealed` (a property of steps) |
| `CardsOfferTheirHolds` | `[]CardsOfferHolds` |

**The argument.** None of these is inductive: whether a save is right depends on
what its task read long before. `IInv` therefore says, beside what every stored
lock satisfies (`LockInv`), what a task may rely on at each of its points
(`TaskInv`). Two facts carry it. First, every step only lets a stored lock grow
(`Grows`): parties and type stay, states advance, holds and links accumulate, and
*state, holds and start change only together with the version*. Second, what a
task relies on is either kept by growth (the stash-back answers this lock, the
original is open) or is conditional on the version not having moved (a staged
hold is one `canConfirm` would still allow, `HoldInv`). So the version check of
the save is what turns a decision on an old document into one on the stored
lock. The one thing holds depend on that has no version is the condition's
text: `MayHold` asks only that one was written, as the code may write it again.
`CardsOfferTheirHolds` compares the client's rule with the server's on any lock
that satisfies `LockInv`: the two are written differently, and agree only because
a lock is `READY` only if it is a pair's "open together", and a self-stash no pair.

Each action has a lemma that it keeps `IInv` and lets all stored locks grow;
`StepInv` reduces it to the locks and the task the action touches. TLC checked
`IInv` as an invariant of the instances of `stashes` and
`stashes_live` before it was proved.

`GroupsProofs` proves, for any people, codes, old rows, calls, groups and cap
that satisfy `CircleAssumptions` (null is none of the ids, the cap is positive):

| theorem | states |
|---|---|
| `CirclesInvariance` | `Spec => []IInv` |
| `CirclesTypeCorrect` | `[]TypeOK` |
| `CapIsKept` | `[]CapKept` |
| `MembersAreKept` | `[]MembersKept` |
| `OnlyAskedAccept` | `OnlyTheAskedAccept` (a property of steps) |

**The argument** has the same shape. A join may rely on its group only as long
as the version has not moved (`JoinInv`): then the array it is about to write is
the stored one and itself, and there is still room. An acceptance may rely on
its row only as long as the stored row has its id and waits (`AcceptInv`), since
rows are deleted and inserted again: ids only grow (`RowInv`), so a row inserted
later is never taken for the one that was loaded. `QuietStep`, `RowStep` and
`GroupStep` reduce each action to the one document and the one call it touches.
TLC checked this `IInv` on the `circles` instance before it was proved.

`LockboxProofs` proves, from the same `IInv` and assumptions:

| theorem | states |
|---|---|
| `WaitsAreKept` | `[]WaitIsKept` |
| `LockboxIsImplemented` | `ImplementsLockbox`: of the boxes the stored locks show, `Spec` implies `Lockbox`'s initial state and steps, or `StrangerOpens` |
| `LockboxWithoutStrangers` | `Spec`, if no stranger opens a self-stash, implies `Lockbox`'s own specification |

`WaitIsKept` speaks of runs without restart and failure, which the code does not
survive. Its invariant `WaitInv` says, as long as both counters are zero, that
every started trade is minded (`Minded`): its wait is armed, or the task that
started it is about to arm it, or the timer's task is at work on it.

`SPEC.md:174` denies a lock to anyone else and `Lockbox` keeps to it; the code
lets a stranger open a self-stash. `ImplementsLockbox` admits that one step by
name and no other (`LockboxWithoutStrangers`), as `OpenedByItsRule` excepts it.
For the refinement, `IInv /\ [Next]_vars` implies a step of `Lockbox` on one box
or none: a lock's lemma for each action, and the requests that only read, load
or announce show nobody anything. The hypotheses `Lockbox` needs of a hold (that
it is this person's turn, that the trade was started) come from `HoldInv`, hence
from the version check. It adds `NoneIsNoBox` to the assumptions.

`AccountsProofs` is about `AccountsSpec` (any people, requests, codes, states and
consents that satisfy `NullAssumptions`: null is none of them):

| theorem | states |
|---|---|
| `NobodyIsShutOut` | `[]NobodyShutOut` |
| `TokensGoToTheirOwner` | `[]ConnectsItsOwner` |
| `StatesAreBurned` | `[]BurnedBeforeStored` |
| `EditsAreKept` | `EditsKept` (a property of steps) |

**The argument.** Saves here are unconditional, so there is no version to lean on.
What carries it is which paths a request dirties at each point (`Relies`): only a
connect writes `spotifyAuthState`, and only with a state nobody else is about to
give out (`Apart`), so a burned state is burned for good (`Burned`), and no copy
loaded before, however late it is saved, stores it again. Tokens in any copy were
stored after their state was burned and belong to whom it was given (`Owns`).

`AlertsProofs` is about `AlertsSpec` (any users, friends, jobs, hours and days;
`AlertsAssumptions`):

| theorem | states |
|---|---|
| `CeilingsAreKept` | `[]CeilingKept` |
| `AlertsAreSpacedOut` | `[]SpacedOut` |
| `TurnsAreTaken` | `TurnsTaken` (a property of steps) |

**The argument.** Between a tick's look at ceiling and gap (`Due`) and its `Store`
others may file alerts, but no other tick (`OneTick`), so that the number of
scheduled alerts stays below the budget and only sends by hand come nearer
(`Relies`, `Spaced`). A budget only grows with friends and groups
(`BudgetGrows`), so the budget that was read is never too large. `TurnsTaken`
needs, of the list that was read, only that everyone on it was really pinged.

`PromptsProofs` is about `HappeningsSpec` (`Prompts` with the two callers that
judge lists; any keys, cards, workers, models, feeds and replies;
`PromptsAssumptions`, and `HappeningsAssumptions`: what is cached for a list is
filed under keys of its own, and a list has room for two full feeds and two
seeds) and about the scan:

| theorem | states |
|---|---|
| `CachesAreBounded` | `[]CacheBounded` |
| `ShelvesAreInPlace` | `[]ShelfInPlace` |
| `KnobsAreDroppedRightly` | `[]KnobDroppedRightly` |
| `VerdictsAreOwn` | `VerdictsOwn` |
| `SeedsStay` | `[]SeedsOnlyScored` |
| `BlocksAreBalanced` | `[]BlockBalanced` (texts of any length) |

**The argument.** A worker's card is below the cursor and nobody else's; what was
refused with the knob and is asked again without it was refused because of it,
unless the model is not served (`Refused`).

Sorting and de-duplication are by rank (`Ranked`): no two places of a list have
the same one (`RanksDiffer`), so every place is in the order once (`RankedIn`).
What is cached for a list is what some reply comes to on as many cues as it is
filed under, and a request asks about the very cues of the list it holds
(`OwnInv`): a verdict is taken from the row with the number of the item's place,
now (`VerdictIsARow`, `JudgedOwn`) or from the cache (`CachedVerdicts`). Two full
feeds leave room for the first two seeds (`MergedList`), which judging neither
drops nor renames (`KeepsSeeds`), so the list a request holds and the one that is
kept have them (`SeedInv`). `SeedsStay` also needs `HeadlinesAreNoSeeds`: a
headline that reads like a seed comes first, stands in for it when duplicates go,
and may be dropped. The code does not rule that out.

For the scan, the depth counted
back from the last closing brace begins at one, changes by one at each brace, is
zero where the block begins and nowhere after: the block that is cut out has as
many opening as closing braces, and no shorter one ending there has.

`CalendarProofs` (`CalendarAssumptions`: the cache lasts, null is no time) and
`ClientProofs` (`CircleAssumptions`: finitely many people, each of whom one may
stash for, and room for one; `ShelfAssumptions`: a friend is listed once, and a
lock or calendar event of one id is one):

| theorem | states |
|---|---|
| `RefusalsPass` | `CalendarSpec => AskedAgainAtMost` |
| `PresentAreOnline` | `PresenceSpec => []PresentIsOnline` |
| `CamerasAreReleased`, `DraftsAreAccepted` | `CaptureSpec => []CameraReleased`, `[]DraftAccepted` |
| `WordsAreCurrent` | `ShelfSpec => []WordsFit` |

A refusal that is answered began before access was allowed (`TabInv`), so it was
cached at most `Patience` after, and the cache adds its ten minutes
(`AnswerInv`). A socket in the room is counted or waits for its own join
(`PresenceInv`): nobody else's drop takes it off. A camera that is on or asked
for belongs to the effect of the first page (`CameraInv`); an effect that saw a
group that decides for itself has made the draft open otherwise (`DraftInv`).
The cards of one render that share an id tell the same facts, kind of card by
kind of card (`CardsAgree`); K2 is asked about cards of one render, and its
words are kept with the card they were asked for (`ShelfInv`), so that what is
shown for that card, now, holds of it still. That the words are about that very
card (`OwnWords`) is false, as `own_words` shows. TLC checked each of these
invariants on the run of its component before it was proved.

**Model-checked only:** `TradePaysOut`, `HereIsHeard`, `EveryoneHears`,
`ShelfServed`, `NeverStuckReady`, `SenderToldLive` and `TabsComeOnline`:
liveness under fairness and `ENABLED` are beyond the prover. Every other
property of a passing run is proved.

Induction over data is beyond it too, as the library states it with operators for
parameters. So where a proof speaks of a list that was filtered, merged or sorted,
the model says which place each member has, not how recursion gets there; no
module here uses a `RECURSIVE` operator.

## Not modelled, and why

The content of locks, wording, DTO shaping and layout: nothing decides on them.
Of `Notifications`, acknowledging an alert and the status answer; of `Prompts`,
the clipping of text and the counters of diagnostics; of the web client, the
menu, profile, Spotify, album and alert panels, which show what the API answers.
Health, Notes, JWT configuration and the demo scripts hold no state of interest;
the shared package is types and constants, which appear where they are used.
Feeds are what their parsers return, and the regular expressions that classify
them are data.

## Plan

1. Permission from `Friendships` and `Groups` in place of `MayStash`.
2. `Screen` over the events of `Stashes` instead of a lock's three changes.
