---------------------------- MODULE ClientProofs ----------------------------
(***************************************************************************)
(* What the tabs of one user, the CaptureSheet and the rail of prompts do  *)
(* at every size of a user's circle, and however many connections, photos, *)
(* locks, late answers of the camera and late words of K2 there are.       *)
(***************************************************************************)
EXTENDS Presence, Capture, Shelf, FiniteSetTheorems, TLAPS

-----------------------------------------------------------------------------
(* Sockets                                                                 *)

\* Whoever joined the room is counted, until both are undone together.
\* In the room: counted, or about to be.
PresenceInv == room \subseteq online \cup joining

\* isOnline denies nobody who is in the room, but while its own join is waited
\* for, in whatever order handshakes, joins, counts, refusals and disconnects of
\* the user's tabs interleave.
THEOREM PresentAreOnline == PresenceSpec => []PresentIsOnline
<1>1. PresenceInit => PresenceInv
  BY DEF PresenceInit, PresenceInv
<1>2. ASSUME PresenceInv, [PresenceNext]_presence
      PROVE  PresenceInv'
  <2>1. ASSUME NEW s \in Sockets, Connect(s) PROVE PresenceInv'
    BY <1>2, <2>1 DEF PresenceInv, Connect
  <2>2. ASSUME NEW s \in Sockets, Join(s) PROVE PresenceInv'
    BY <1>2, <2>2 DEF PresenceInv, Join
  <2>3. ASSUME NEW s \in Sockets, AddPresence(s) PROVE PresenceInv'
    BY <1>2, <2>3 DEF PresenceInv, AddPresence
  <2>4. ASSUME NEW s \in Sockets, Refuse(s) PROVE PresenceInv'
    BY <1>2, <2>4 DEF PresenceInv, Refuse
  <2>5. ASSUME NEW s \in Sockets, Drop(s) PROVE PresenceInv'
    BY <1>2, <2>5 DEF PresenceInv, Drop, RemovePresence
  <2>6. CASE UNCHANGED presence
    BY <1>2, <2>6 DEF PresenceInv, presence
  <2> QED
    BY <1>2, <2>1, <2>2, <2>3, <2>4, <2>5, <2>6 DEF PresenceNext
<1>3. PresenceInv => PresentIsOnline
  BY DEF PresenceInv, PresentIsOnline, Joined
<1> QED
  BY <1>1, <1>2, <1>3, PTL DEF PresenceSpec

-----------------------------------------------------------------------------
(* The sheet                                                               *)

CaptureTypeOK ==
    /\ image \in BOOLEAN /\ reply \in BOOLEAN
    /\ recipientIds \subseteq Everyone /\ people \subseteq Everyone

\* A camera that is on, or asked for, belongs to the effect of the first page.
CameraInv == stream \/ asking => rendered[1] = <<"media", FALSE>>

\* There is room for whoever is chosen; and an effect that saw a group that
\* decides for itself has made it open otherwise.
DraftInv ==
    /\ Cardinality(recipientIds) <= MaxRecipients
    /\ rendered[2] = <<TRUE, "RECIPIENT_SET">> => conditionType # "RECIPIENT_SET"

CaptureInv == CaptureTypeOK /\ CameraInv /\ DraftInv

\* The pages, and everything that answers late.
LEMMA PageKeeps ==
  ASSUME CaptureInv,
         \/ CameraOpens \/ CameraLate \/ Photo \/ PhotoRead
         \/ LeaveCamera \/ LeaveSong \/ LeaveText
         \/ LeaveRecipients \/ LeaveReview \/ LeaveCondition
         \/ Posted \/ Close \/ Finish
  PROVE  CaptureInv'
<1>1. /\ UNCHANGED <<reply, recipientIds, conditionType, people, rendered>>
      /\ image' \in BOOLEAN
  BY DEF CaptureInv, CaptureTypeOK, CameraOpens, CameraLate, Photo, PhotoRead,
         LeaveCamera, LeaveSong, LeaveText, LeaveRecipients, LeaveReview,
         LeaveCondition, Turn, Posted, Close, Finish, draft, camera, page
<1>2. stream' \/ asking' => stream \/ asking
  BY DEF CameraOpens, CameraLate, Photo, PhotoRead,
         LeaveCamera, LeaveSong, LeaveText, LeaveRecipients, LeaveReview,
         LeaveCondition, Turn, Posted, Close, Finish, StopCamera, camera
<1> QED
  BY <1>1, <1>2 DEF CaptureInv, CaptureTypeOK, CameraInv, DraftInv

\* A render's effects give up what the page before held.
LEMMA RunEffectsKeeps ==
  ASSUME CaptureInv, RunEffects
  PROVE  CaptureInv'
<1>1. UNCHANGED <<reply, recipientIds, people, image>>
  BY DEF RunEffects, page
<1>2. /\ rendered' = <<page, <<IsGroup, conditionType>>>>
      /\ rendered'[1] = page /\ rendered'[2] = <<IsGroup, conditionType>>
  BY DEF RunEffects, Depended
<1>3. CameraInv'
  BY <1>2 DEF CaptureInv, CaptureTypeOK, CameraInv, RunEffects, page
<1>4. rendered'[2] = <<TRUE, "RECIPIENT_SET">> => conditionType' # "RECIPIENT_SET"
  <2>1. PICK group : group = IsGroup
    OBVIOUS
  <2>2. <<group, conditionType>> = <<TRUE, "RECIPIENT_SET">> =>
            group = TRUE /\ conditionType = "RECIPIENT_SET"
    OBVIOUS
  <2>3. IsGroup /\ conditionType = "RECIPIENT_SET" => conditionType' = "MANUAL"
    BY DEF RunEffects, GroupsDecideNothing
  <2> QED
    BY <1>2, <2>1, <2>2, <2>3
<1> QED
  BY <1>1, <1>3, <1>4 DEF CaptureInv, CaptureTypeOK, DraftInv

\* How it opens is decided on what the effects last ran for.
LEMMA ConditionKeeps ==
  ASSUME CaptureInv,
         \/ \E type \in {"MANUAL", "TOGETHER", "RECIPIENT_SET"} : PickType(type)
         \/ \E label \in Typed : TypeLabel(label)
         \/ \E hint \in Hints : PickSuggestion(hint)
         \/ \E m \in Names \cup {None} : PickMoment(m)
  PROVE  CaptureInv'
<1>1. /\ UNCHANGED <<camera, page, reply, recipientIds, people>>
      /\ On("condition")
      /\ \/ conditionType' = conditionType
         \/ ~(IsGroup /\ conditionType' = "RECIPIENT_SET")
  BY DEF PickType, TypeLabel, PickSuggestion, PickMoment, Condition
<1>2. rendered[2] = <<IsGroup, conditionType>>
  BY <1>1 DEF On, Settled, Depended
<1>3. rendered[2] = <<TRUE, "RECIPIENT_SET">> =>
          IsGroup /\ conditionType = "RECIPIENT_SET"
  <2>1. PICK group : group = IsGroup
    OBVIOUS
  <2>2. <<group, conditionType>> = <<TRUE, "RECIPIENT_SET">> =>
            group = TRUE /\ conditionType = "RECIPIENT_SET"
    OBVIOUS
  <2> QED
    BY <1>2, <2>1, <2>2
<1> QED
  BY <1>1, <1>3 DEF CaptureInv, CaptureTypeOK, CameraInv, DraftInv, camera, page

\* Whoever is chosen is known, and there is room for them.
LEMMA ChooseKeeps ==
  ASSUME CaptureInv, NEW ids \in SUBSET Everyone,
         Cardinality(ids) <= MaxRecipients, Choose(ids)
  PROVE  CaptureInv'
  BY DEF Choose, CaptureInv, CaptureTypeOK, CameraInv, DraftInv, camera, page

LEMMA ToggleKeeps ==
  ASSUME CaptureInv, NEW u \in people, ToggleRecipient(u)
  PROVE  CaptureInv'
<1>1. IsFiniteSet(recipientIds) /\ Cardinality(recipientIds) \in Nat
  BY CircleAssumptions, FS_Subset, FS_CardinalityType DEF CaptureInv, CaptureTypeOK
<1>2. Cardinality(recipientIds) <= MaxRecipients /\ u \in Everyone
  BY DEF CaptureInv, CaptureTypeOK, DraftInv
<1>3. CASE u \in recipientIds
  <2>1. Cardinality(recipientIds \ {u}) <= MaxRecipients
    <3>1. Cardinality(recipientIds \ {u}) = Cardinality(recipientIds) - 1
      BY <1>1, <1>3, FS_RemoveElement
    <3> QED
      BY <1>1, <1>2, <3>1, CircleAssumptions
  <2> QED
    BY <1>3, <2>1, ChooseKeeps DEF ToggleRecipient, CaptureInv, CaptureTypeOK
<1>4. CASE u \notin recipientIds /\ Cardinality(recipientIds) >= MaxRecipients
  BY <1>2, <1>4, ChooseKeeps DEF ToggleRecipient, CaptureInv, CaptureTypeOK
<1>5. CASE u \notin recipientIds /\ ~(Cardinality(recipientIds) >= MaxRecipients)
  <2>1. Cardinality(recipientIds \cup {u}) <= MaxRecipients
    <3>1. Cardinality(recipientIds \cup {u}) = Cardinality(recipientIds) + 1
      BY <1>1, <1>5, FS_AddElement
    <3> QED
      BY <1>1, <1>5, <3>1, CircleAssumptions
  <2> QED
    BY <1>2, <1>5, <2>1, ChooseKeeps DEF ToggleRecipient, CaptureInv, CaptureTypeOK
<1> QED
  BY <1>3, <1>4, <1>5

LEMMA ToggleGroupKeeps ==
  ASSUME CaptureInv, NEW album \in Albums, ToggleGroup(album)
  PROVE  CaptureInv'
<1>1. IsFiniteSet(recipientIds) /\ recipientIds \subseteq Everyone
  BY CircleAssumptions, FS_Subset DEF CaptureInv, CaptureTypeOK
<1>2. PICK ids : ids = album \ {Me}
  OBVIOUS
<1>3. ids \subseteq Everyone
  BY <1>2 DEF Everyone
<1>4. CASE Choose(recipientIds \ ids)
  <2>1. Cardinality(recipientIds \ ids) <= MaxRecipients
    <3>1. /\ Cardinality(recipientIds \ ids) <= Cardinality(recipientIds)
          /\ IsFiniteSet(recipientIds \ ids)
      BY <1>1, FS_Subset
    <3> QED
      BY <1>1, <3>1, FS_CardinalityType, CircleAssumptions DEF CaptureInv, DraftInv
  <2> QED
    BY <1>1, <1>4, <2>1, ChooseKeeps
<1>5. ASSUME NEW all \in SUBSET (recipientIds \cup ids),
             \/ Cardinality(all) <= MaxRecipients
             \/ Cardinality(all) = MaxRecipients,
             Choose(all)
      PROVE  CaptureInv'
  <2>1. Cardinality(all) <= MaxRecipients
    BY <1>5, CircleAssumptions
  <2> QED
    BY <1>1, <1>3, <1>5, <2>1, ChooseKeeps
<1> QED
  BY <1>2, <1>4, <1>5 DEF ToggleGroup

LEMMA CaptureInitInv == CaptureInit => CaptureInv
<1> SUFFICES ASSUME CaptureInit PROVE CaptureInv
  OBVIOUS
<1>1. rendered[2] = <<FALSE, None>> /\ <<FALSE, None>> # <<TRUE, "RECIPIENT_SET">>
  BY DEF CaptureInit
<1>2. recipientIds = {} \/ \E f \in Friends : recipientIds = {f}
  BY DEF CaptureInit
<1>3. Cardinality(recipientIds) <= MaxRecipients
  BY <1>2, FS_EmptySet, FS_Singleton, CircleAssumptions
<1> QED
  BY <1>1, <1>2, <1>3
     DEF CaptureInit, CaptureInv, CaptureTypeOK, CameraInv, DraftInv, Everyone

LEMMA CaptureNextInv ==
  ASSUME CaptureInv, [CaptureNext]_captureVars
  PROVE  CaptureInv'
<1>1. ASSUME GroupsLoaded PROVE CaptureInv'
  BY <1>1 DEF GroupsLoaded, CaptureInv, CaptureTypeOK, CameraInv, DraftInv, camera,
              page, Everyone
<1>2. CASE UNCHANGED captureVars
  BY <1>2 DEF captureVars, draft, camera, page, CaptureInv, CaptureTypeOK, CameraInv,
              DraftInv
<1> QED
  BY <1>1, <1>2, PageKeeps, RunEffectsKeeps, ConditionKeeps, ToggleKeeps,
     ToggleGroupKeeps DEF CaptureNext

LEMMA CaptureInvariance == CaptureSpec => []CaptureInv
  BY CaptureInitInv, CaptureNextInv, PTL DEF CaptureSpec

\* The camera is on only for the page that shows it, whatever promises of
\* getUserMedia are still to settle when pages are turned.
THEOREM CamerasAreReleased == CaptureSpec => []CameraReleased
<1>1. CaptureInv => CameraReleased
  BY DEF CaptureInv, CameraInv, CameraReleased
<1> QED
  BY <1>1, CaptureInvariance, PTL

\* The sheet and create agree: what the button can send is not refused, in
\* whatever order people, type, words and moment were chosen and changed.
THEOREM DraftsAreAccepted == CaptureSpec => []DraftAccepted
<1>1. ASSUME CaptureInv PROVE DraftAccepted
  <2> SUFFICES ASSUME On("condition"), CanStash, ~reply, recipientIds \subseteq people
               PROVE  Allowed(Composed)
    BY DEF DraftAccepted
  <2>1. IsFiniteSet(recipientIds) /\ Cardinality(recipientIds) \in Nat
    BY <1>1, CircleAssumptions, FS_Subset, FS_CardinalityType
       DEF CaptureInv, CaptureTypeOK
  <2>2. recipientIds # {} /\ Cardinality(recipientIds) <= MaxRecipients
    BY <1>1 DEF CanStash, CaptureInv, DraftInv
  <2>3. \A u \in recipientIds : <<Me, u>> \in MayStash
    BY <1>1, CircleAssumptions DEF CaptureInv, CaptureTypeOK
  <2>4. conditionType = "RECIPIENT_SET" => Cardinality(recipientIds) = 1
    <3>1. rendered[2] = <<IsGroup, conditionType>> /\ IsGroup \in BOOLEAN
      BY DEF On, Settled, Depended, IsGroup
    <3>2. conditionType = "RECIPIENT_SET" => ~IsGroup
      BY <1>1, <3>1 DEF CaptureInv, DraftInv
    <3>3. Recipients = recipientIds
      BY DEF Recipients
    <3> QED
      BY <2>1, <2>2, <3>2, <3>3, FS_EmptySet DEF IsGroup
  <2>5. conditionType = "MANUAL" =>
            Truthy(LabelFor(conditionType)) \/ moment # None
    BY DEF CanStash, LabelFor, Truthy
  <2> QED
    BY <2>2, <2>3, <2>4, <2>5 DEF Allowed, Composed
<1> QED
  BY <1>1, CaptureInvariance, PTL

-----------------------------------------------------------------------------
(* The rail                                                                *)

\* Cards that share an id tell the same facts.
Agree(cards) == \A p, q \in cards : p.id = q.id => p.says = q.says

\* The cards of one kind agree, and their ids name the kind.
Told(kind, cards) == Agree(cards) /\ \A p \in cards : p.id[1] = kind

OfEach(Each(_)) == UNION {Each(i) : i \in DOMAIN Circle}

Made ==
    [sky |-> OfEach(SkyCards), waiting |-> WaitingCards,
     reciprocity |-> OfEach(ReciprocityCards), unfired |-> OfEach(UnfiredCards),
     reply |-> OfEach(ReplyCards), fschool |-> OfEach(SchoolCards),
     game |-> OfEach(GameCards), quirk |-> OfEach(QuirkCards),
     memory |-> OfEach(MemoryCards), cal |-> CalendarCards,
     school |-> MySchoolCards, weather |-> WeatherCards, sunset |-> SunsetCards,
     ritual |-> RitualCards]

\* What a card of f's sky says.
SkySays(f, kind) ==
    CASE kind = "wet" -> <<skies[f.school].tempF, skies[f.school].label, MySky.label>>
      [] kind = "gap" -> <<skies[f.school].tempF, MySky.tempF>>
      [] kind = "sunrise" -> <<skies[f.school].sunrise>>
      [] kind = "sunset" -> <<skies[f.school].sunset>>
      [] OTHER -> <<skies[f.school].minutes>>

LEMMA SkyTold == Told("sky", OfEach(SkyCards))
<1>1. ASSUME NEW i \in DOMAIN Circle, NEW p \in SkyCards(i)
      PROVE  /\ p.id[1] = "sky" /\ p.id[3] = Circle[i].id
             /\ p.says = SkySays(Circle[i], p.id[2])
  BY <1>1, SMTT(20) DEF SkyCards, SkySays, If, Prompt
<1>2. ASSUME NEW p \in OfEach(SkyCards), NEW q \in OfEach(SkyCards), p.id = q.id
      PROVE  p.says = q.says
  <2>1. PICK i \in DOMAIN Circle, k \in DOMAIN Circle :
            p \in SkyCards(i) /\ q \in SkyCards(k)
    BY <1>2 DEF OfEach
  <2>2. Circle[i] = Circle[k]
    BY <1>1, <1>2, <2>1, ShelfAssumptions DEF OneEach
  <2> QED
    BY <1>1, <1>2, <2>1, <2>2
<1>3. ASSUME NEW p \in OfEach(SkyCards) PROVE p.id[1] = "sky"
  BY <1>1 DEF OfEach
<1> QED
  BY <1>2, <1>3 DEF Told, Agree

LEMMA WaitingTold == lists \in Lists => Told("waiting", WaitingCards)
  BY ShelfAssumptions DEF Told, Agree, WaitingCards, Prompt, OneEach

LEMMA ReciprocityTold == Told("reciprocity", OfEach(ReciprocityCards))
  BY ShelfAssumptions DEF Told, Agree, OfEach, ReciprocityCards, If, Prompt, OneEach

LEMMA UnfiredTold == lists \in Lists => Told("unfired", OfEach(UnfiredCards))
<1> SUFFICES ASSUME lists \in Lists PROVE Told("unfired", OfEach(UnfiredCards))
  OBVIOUS
<1>1. ASSUME NEW i \in DOMAIN Circle, NEW p \in UnfiredCards(i)
      PROVE  \E n \in DOMAIN lists.sent :
                /\ p.id[1] = "unfired" /\ p.id[2] = lists.sent[n].id
                /\ p.says = IF lists.sent[n].label THEN <<lists.sent[n].at>>
                                                   ELSE <<Age(lists.sent[n])>>
  <2>1. PICK n \in SentTo(Circle[i]) :
            p = Prompt(<<3, i, 2, 0, 0>>, <<"unfired", lists.sent[n].id>>,
                       <<lists.sent[n].id, Circle[i].id>>, <<"unfired", lists.sent[n].id>>,
                       IF lists.sent[n].label THEN <<lists.sent[n].at>>
                                              ELSE <<Age(lists.sent[n])>>)
    BY <1>1 DEF UnfiredCards, First
  <2> QED
    BY <2>1 DEF SentTo, Prompt
<1>2. OneEach(lists.sent)
  BY ShelfAssumptions
<1>3. ASSUME NEW p \in OfEach(UnfiredCards), NEW q \in OfEach(UnfiredCards), p.id = q.id
      PROVE  p.says = q.says
  <2>1. PICK i \in DOMAIN Circle, k \in DOMAIN Circle :
            p \in UnfiredCards(i) /\ q \in UnfiredCards(k)
    BY <1>3 DEF OfEach
  <2>2. PICK n \in DOMAIN lists.sent :
            /\ p.id[1] = "unfired" /\ p.id[2] = lists.sent[n].id
            /\ p.says = IF lists.sent[n].label THEN <<lists.sent[n].at>>
                                               ELSE <<Age(lists.sent[n])>>
    BY <1>1, <2>1
  <2>3. PICK m \in DOMAIN lists.sent :
            /\ q.id[2] = lists.sent[m].id
            /\ q.says = IF lists.sent[m].label THEN <<lists.sent[m].at>>
                                               ELSE <<Age(lists.sent[m])>>
    BY <1>1, <2>1
  <2>4. lists.sent[n].id = lists.sent[m].id
    BY <1>3, <2>2, <2>3
  <2>5. lists.sent[n] = lists.sent[m]
    BY <1>2, <2>4 DEF OneEach
  <2> QED
    BY <2>2, <2>3, <2>5
<1>4. ASSUME NEW p \in OfEach(UnfiredCards) PROVE p.id[1] = "unfired"
  <2>1. PICK i \in DOMAIN Circle : p \in UnfiredCards(i)
    BY DEF OfEach
  <2> QED
    BY <1>1, <2>1
<1> QED
  BY <1>3, <1>4 DEF Told, Agree

LEMMA ReplyTold == Told("reply", OfEach(ReplyCards))
<1>1. ASSUME NEW i \in DOMAIN Circle, NEW p \in ReplyCards(i)
      PROVE  p.id[1] = "reply" /\ p.says = <<>>
  <2>1. PICK n \in DOMAIN lists.inbox :
            p = Prompt(<<3, i, 3, 0, 0>>, <<"reply", lists.inbox[n].id>>,
                       <<lists.inbox[n].id>>, <<"reply", lists.inbox[n].id>>, <<>>)
    BY <1>1 DEF ReplyCards, First, SentBy
  <2> QED
    BY <2>1 DEF Prompt
<1> QED
  BY <1>1 DEF Told, Agree, OfEach

LEMMA SchoolTold == Told("fschool", OfEach(SchoolCards))
  BY DEF Told, Agree, OfEach, SchoolCards, Prompt

LEMMA GameTold == Told("game", OfEach(GameCards))
  BY DEF Told, Agree, OfEach, GameCards, Prompt

LEMMA QuirkTold == Told("quirk", OfEach(QuirkCards))
  BY DEF Told, Agree, OfEach, QuirkCards, If, Prompt

LEMMA MemoryTold == Told("memory", OfEach(MemoryCards))
  BY DEF Told, Agree, OfEach, MemoryCards, If, Prompt

LEMMA CalendarTold == lists \in Lists => Told("cal", CalendarCards)
  BY ShelfAssumptions DEF Told, Agree, CalendarCards, Prompt, OneEach

LEMMA MySchoolTold == Told("school", MySchoolCards)
  BY DEF Told, Agree, MySchoolCards, Prompt

LEMMA TodayTold ==
  /\ Told("weather", WeatherCards) /\ Told("sunset", SunsetCards)
  /\ Told("ritual", RitualCards)
  BY DEF Told, Agree, WeatherCards, SunsetCards, RitualCards, If, Prompt

LEMMA MadeTold ==
  ASSUME lists \in Lists, NEW kind \in DOMAIN Made
  PROVE  Told(kind, Made[kind])
  BY SkyTold, WaitingTold, ReciprocityTold, UnfiredTold, ReplyTold, SchoolTold, GameTold,
     QuirkTold, MemoryTold, CalendarTold, MySchoolTold, TodayTold DEF Made

LEMMA CardsAreMade ==
  ASSUME NEW p \in Cards
  PROVE  \E kind \in DOMAIN Made : p \in Made[kind]
<1>1. \/ \E i \in DOMAIN Circle : p \in SkyCards(i)
      \/ p \in WaitingCards
      \/ \E i \in DOMAIN Circle : p \in FriendCards(i)
      \/ p \in CalendarCards \cup MySchoolCards \cup WeatherCards \cup SunsetCards
                   \cup RitualCards
  BY DEF Cards, First, Kept, If
<1>2. \A i \in DOMAIN Circle :
          /\ SkyCards(i) \subseteq OfEach(SkyCards)
          /\ ReciprocityCards(i) \subseteq OfEach(ReciprocityCards)
          /\ UnfiredCards(i) \subseteq OfEach(UnfiredCards)
          /\ ReplyCards(i) \subseteq OfEach(ReplyCards)
          /\ SchoolCards(i) \subseteq OfEach(SchoolCards)
          /\ GameCards(i) \subseteq OfEach(GameCards)
          /\ QuirkCards(i) \subseteq OfEach(QuirkCards)
          /\ MemoryCards(i) \subseteq OfEach(MemoryCards)
  BY DEF OfEach
<1> QED
  BY <1>1, <1>2 DEF Made, FriendCards

\* The cards of one render agree.
LEMMA CardsAgree ==
  ASSUME lists \in Lists
  PROVE  Agree(Cards)
<1> SUFFICES ASSUME NEW p \in Cards, NEW q \in Cards, p.id = q.id
             PROVE  p.says = q.says
  BY DEF Agree
<1>1. PICK kind \in DOMAIN Made : p \in Made[kind]
  BY CardsAreMade
<1>2. PICK other \in DOMAIN Made : q \in Made[other]
  BY CardsAreMade
<1>3. Told(kind, Made[kind]) /\ Told(other, Made[other])
  BY MadeTold
<1>4. kind = other
  BY <1>1, <1>2, <1>3 DEF Told
<1> QED
  BY <1>1, <1>2, <1>3, <1>4 DEF Told, Agree

\* K2 is asked about cards of one render, and what it wrote under an id came
\* for a card of the very request that card was in.
ShelfInv ==
    /\ lists \in Lists
    /\ Agree(ask)
    /\ \A c \in copies : c.of.says = c.for.says

LEMMA WrittenFits ==
  ASSUME Agree(ask), NEW byIfm, NEW c \in Written(byIfm)
  PROVE  c.of.says = c.for.says
<1>1. PICK p \in ask, q \in ask : p.id = q.id /\ c.for = Subject(p) /\ c.of = Subject(q)
  BY DEF Written
<1> QED
  BY <1>1 DEF Agree, Subject

\* The facts in K2's words are up to date, however late it answers, whatever
\* changed meanwhile, and even where cards share an id.
THEOREM WordsAreCurrent == ShelfSpec => []WordsFit
<1>1. ShelfInit => ShelfInv
  BY DEF ShelfInit, ShelfInv, Agree
<1>2. ASSUME ShelfInv, [ShelfNext]_shelfVars
      PROVE  ShelfInv'
  <2>1. CASE ListsChange
    BY <1>2, <2>1 DEF ShelfInv, Agree, ListsChange, Changed
  <2>2. CASE SkiesLoad
    BY <1>2, <2>2 DEF ShelfInv, Agree, SkiesLoad, Changed
  <2>3. CASE Tick
    BY <1>2, <2>3 DEF ShelfInv, Agree, Tick, Changed
  <2>4. ASSUME NEW card \in rail, Skip(card) PROVE ShelfInv'
    BY <1>2, <2>4 DEF ShelfInv, Agree, Skip, Changed
  <2>5. CASE Render
    <3>1. ask' = ask \/ ask' \subseteq Cards
      BY <2>5 DEF Render
    <3>2. Agree(ask)'
      BY <1>2, <3>1, CardsAgree DEF ShelfInv, Agree
    <3> QED
      BY <1>2, <2>5, <3>2 DEF ShelfInv, Render
  <2>6. CASE CopyArrives
    <3>1. PICK byIfm \in BOOLEAN :
              copies' = {c \in copies : \A p \in ask : p.id # c.id} \cup Written(byIfm)
      BY <2>6 DEF CopyArrives
    <3>2. \A c \in copies' : c.of.says = c.for.says
      BY <1>2, <3>1, WrittenFits DEF ShelfInv
    <3>3. lists' = lists /\ ask' = {}
      BY <2>6 DEF CopyArrives
    <3> QED
      BY <1>2, <3>2, <3>3 DEF ShelfInv, Agree
  <2>7. CASE CopyFails
    BY <1>2, <2>7 DEF ShelfInv, Agree, CopyFails
  <2>8. CASE UNCHANGED shelfVars
    BY <1>2, <2>8 DEF ShelfInv, Agree, shelfVars
  <2> QED
    BY <1>2, <2>1, <2>2, <2>3, <2>4, <2>5, <2>6, <2>7, <2>8 DEF ShelfNext
<1>3. ShelfInv => WordsFit
  BY DEF ShelfInv, WordsFit, Rewritten, Subject
<1> QED
  BY <1>1, <1>2, <1>3, PTL DEF ShelfSpec
=============================================================================
