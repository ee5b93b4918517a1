------------------------------ MODULE Capture ------------------------------
(***************************************************************************)
(* CaptureSheet: the steps of composing a stash, the draft they fill, and  *)
(* the camera and photos that answer late.  The user acts on what is       *)
(* rendered: effects run before the next tap, but promises may settle      *)
(* between a change and its effects.                                       *)
(***************************************************************************)
EXTENDS Creation, Sequences

CONSTANTS
    Me, Friends,   \* the user, and whom they are paired with
    Albums,        \* members of each of the user's groups
    Names,         \* moments that can be picked, normalized
    Hints,         \* suggested conditions
    Typed,         \* conditions the user types
    MaxLate        \* bound: camera requests given up, and photos under way

VARIABLES
    step,          \* the page of the sheet, or "closed"
    reply,         \* whether it answers an "open together"
    image,         \* whether a photo is taken
    recipientIds, conditionType, conditionLabel, moment,
    autoLabel,     \* the label a chip filled in last
    busy,          \* the draft is being posted
    people,        \* everyone the screen knows
    rendered,      \* what the effects last ran for
    asking,        \* that effect waits for the camera
    givenUp,       \* earlier effects that still wait for it
    stream,        \* the camera is on
    cameraReady,
    reading        \* photos being compressed

draft == <<reply, recipientIds, conditionType, conditionLabel, moment,
           autoLabel, busy, people>>
camera == <<rendered, asking, givenUp, stream, cameraReady, reading>>
page == <<step, image>>
captureVars == <<draft, camera, page>>

Everyone == {Me} \cup Friends \cup UNION Albums

\* The user may stash to everyone the screen knows: to themselves, to those they
\* are paired with, to those they share a group with.
ASSUME CircleAssumptions ==
    /\ IsFiniteSet(Everyone) /\ \A u \in Everyone : <<Me, u>> \in MayStash
    /\ MaxRecipients \in Nat \ {0}

ContextConditionLabel(m) == "Open when you're " \o m

Recipients == recipientIds \cap people
IsGroup == Cardinality(Recipients) > 1

-----------------------------------------------------------------------------
(* Effects                                                                 *)

\* What the camera effect and the other one depend on.
Depended == <<page, <<IsGroup, conditionType>>>>

Settled == rendered = Depended

\* The taps of a user on page s, once its effects ran.
On(s) == step = s /\ Settled

\* Mutant of GroupsDecideNothing: it looks at the type only once it is a group.
GroupsMayDecide ==
    conditionType' =
        IF rendered[2][1] /\ conditionType = "RECIPIENT_SET" THEN "MANUAL"
                                                           ELSE conditionType

GroupsDecideNothing ==
    conditionType' =
        IF IsGroup /\ conditionType = "RECIPIENT_SET" THEN "MANUAL" ELSE conditionType

\* A render's effects.  That of the camera runs when the page changed: what its
\* last run holds is given up, and the camera asked for on the first page.
RunEffects ==
    /\ ~Settled /\ rendered' = Depended /\ GroupsDecideNothing
    /\ IF rendered[1] = page THEN UNCHANGED <<asking, givenUp, stream>>
       ELSE /\ givenUp' = IF asking THEN givenUp + 1 ELSE givenUp
            /\ stream' = FALSE
            /\ asking' = (step = "media" /\ ~image)
    /\ UNCHANGED <<page, cameraReady, reading, reply, recipientIds,
                   conditionLabel, moment, autoLabel, busy, people>>

\* getUserMedia resolves for the effect that waits, or fails.
CameraOpens ==
    /\ asking /\ asking' = FALSE
    /\ \/ stream' = TRUE /\ cameraReady' \in BOOLEAN
       \/ UNCHANGED <<stream, cameraReady>>
    /\ UNCHANGED <<draft, page, rendered, givenUp, reading>>

\* Mutant of CameraLate: nobody looks whether the effect was cancelled.
CameraLateOn ==
    /\ givenUp > 0 /\ givenUp' = givenUp - 1
    /\ stream' = TRUE
    /\ UNCHANGED <<draft, page, rendered, asking, cameraReady, reading>>

\* It resolves for an effect that was cancelled: its tracks are stopped.
CameraLate ==
    /\ givenUp > 0 /\ givenUp' = givenUp - 1
    /\ UNCHANGED <<draft, page, rendered, asking, stream, cameraReady, reading>>

StopCamera == stream' = FALSE /\ cameraReady' = FALSE

-----------------------------------------------------------------------------
(* The first pages                                                         *)

\* snapPhoto, or a file from the library: a photo to be compressed.
Photo ==
    /\ On("media") /\ reading < MaxLate
    /\ reading' = reading + 1
    /\ UNCHANGED <<draft, page, rendered, asking, givenUp, stream, cameraReady>>

\* The photo is ready, or cannot be read: the sheet goes on to the text,
\* wherever it is by now.
PhotoRead ==
    /\ reading > 0 /\ reading' = reading - 1
    /\ \/ /\ step # "closed"
          /\ StopCamera /\ image' = TRUE /\ step' = "text"
       \/ UNCHANGED <<page, stream, cameraReady>>
    /\ UNCHANGED <<draft, rendered, asking, givenUp>>

\* A button that leads from one page to another.
Turn(from, to) ==
    /\ On(from) /\ step' = to
    /\ IF from = "media" THEN StopCamera ELSE UNCHANGED <<stream, cameraReady>>
    /\ UNCHANGED <<draft, image, rendered, asking, givenUp, reading>>

\* Share a song, Skip photo
LeaveCamera == \E to \in {"song", "text"} : Turn("media", to)

\* SongPicker: back to the camera, or on with a song (which song is data).
LeaveSong ==
    \/ givenUp < MaxLate /\ Turn("song", "media")
    \/ Turn("song", "text")

LeaveText == Turn("text", IF reply THEN "condition" ELSE "recipient")

-----------------------------------------------------------------------------
(* Who                                                                     *)

Choose(ids) ==
    /\ On("recipient") /\ recipientIds' = ids
    /\ UNCHANGED <<camera, page, reply, conditionType, conditionLabel,
                   moment, autoLabel, busy, people>>

ToggleRecipient(u) ==
    Choose(IF u \in recipientIds THEN recipientIds \ {u}
           ELSE IF Cardinality(recipientIds) >= MaxRecipients THEN recipientIds
           ELSE recipientIds \cup {u})

\* A group is chosen, as far as there is room, or dropped.
ToggleGroup(album) ==
    LET ids == album \ {Me} IN
    IF ids # {} /\ ids \subseteq recipientIds THEN Choose(recipientIds \ ids)
    ELSE \E all \in SUBSET (recipientIds \cup ids) :
            /\ recipientIds \subseteq all
            /\ \/ all = recipientIds \cup ids /\ Cardinality(all) <= MaxRecipients
               \/ Cardinality(all) = MaxRecipients
            /\ Choose(all)

LeaveRecipients == recipientIds # {} /\ Turn("recipient", "review")

LeaveReview == \E to \in {"condition", "recipient"} : Turn("review", to)

-----------------------------------------------------------------------------
(* How it opens                                                            *)

Condition(type, label, auto, m) ==
    /\ On("condition")
    /\ conditionType' = type /\ conditionLabel' = label /\ autoLabel' = auto
    /\ moment' = m
    /\ UNCHANGED <<camera, page, reply, recipientIds, busy, people>>

PickType(type) ==
    /\ ~reply /\ (IsGroup => type # "RECIPIENT_SET")
    /\ Condition(type, conditionLabel, autoLabel, moment)

TypeLabel(label) ==
    /\ ~reply /\ conditionType = "MANUAL"
    /\ Condition(conditionType, label, autoLabel, moment)

\* A suggestion is taken, or tapped again and cleared.
PickSuggestion(hint) ==
    /\ ~reply /\ conditionType = "MANUAL"
    /\ IF conditionLabel = hint THEN Condition(conditionType, Blank, Blank, moment)
       ELSE Condition(conditionType, hint, hint, moment)

\* fillLabel: words of a chip give way to the next one's, typed words do not.
PickMoment(m) ==
    LET fill == IF m = None THEN Blank ELSE ContextConditionLabel(m) IN
    /\ ~reply /\ conditionType # "RECIPIENT_SET"
    /\ IF conditionType = "MANUAL" /\ conditionLabel \in {Blank, autoLabel}
       THEN Condition(conditionType, fill, fill, m)
       ELSE Condition(conditionType, conditionLabel, autoLabel, m)

LabelFor(type) ==
    IF type = "MANUAL"
    THEN IF conditionLabel # Blank THEN conditionLabel
         ELSE IF moment # None THEN ContextConditionLabel(moment) ELSE None
    ELSE IF type = "TOGETHER" /\ moment # None THEN "Open together when you're " \o moment
    ELSE None

CanStash ==
    /\ ~busy /\ recipientIds # {}
    /\ reply \/ conditionType # "MANUAL" \/ LabelFor("MANUAL") # None

\* What finish posts when it answers nothing.
Composed ==
    [senderId |-> Me, recipientIds |-> recipientIds,
     conditionType |-> conditionType,
     conditionLabel |-> LabelFor(conditionType),
     context |-> IF conditionType = "RECIPIENT_SET" THEN None ELSE moment]

Finish ==
    /\ On("condition") /\ CanStash
    /\ busy' = TRUE
    /\ UNCHANGED <<camera, page, reply, recipientIds, conditionType,
                   conditionLabel, moment, autoLabel, people>>

LeaveCondition == Turn("condition", IF reply THEN "text" ELSE "review")

\* The draft is stored, and the sheet closes; or it is not, or the answer is
\* lost, and the user may stash it again.
Posted ==
    /\ busy /\ step # "closed"
    /\ busy' = FALSE /\ step' \in {"closed", step}
    /\ UNCHANGED <<camera, image, reply, recipientIds, conditionType,
                   conditionLabel, moment, autoLabel, people>>

Close ==
    /\ step # "closed" /\ Settled
    /\ step' = "closed" /\ StopCamera
    /\ UNCHANGED <<draft, image, rendered, asking, givenUp, reading>>

-----------------------------------------------------------------------------
\* loadGroups: the groups, or none if they could not be loaded.
GroupsLoaded ==
    /\ people' \in {Everyone, {Me} \cup Friends} \ {people}
    /\ UNCHANGED <<camera, page, reply, recipientIds, conditionType,
                   conditionLabel, moment, autoLabel, busy>>

\* The shutter, a friend's card, or "stash back" to a friend's lock.
CaptureInit ==
    /\ step = "media" /\ image = FALSE
    /\ reply \in BOOLEAN
    /\ recipientIds \in {{f} : f \in Friends} \cup (IF reply THEN {} ELSE {{}})
    /\ conditionType = "MANUAL" /\ conditionLabel = Blank /\ moment = None
    /\ autoLabel = Blank /\ busy = FALSE /\ people = Everyone
    /\ rendered = <<None, <<FALSE, None>>>> /\ asking = FALSE /\ givenUp = 0 /\ stream = FALSE
    /\ cameraReady = FALSE /\ reading = 0

CaptureNext ==
    \/ RunEffects \/ CameraOpens \/ CameraLate \/ PhotoRead \/ GroupsLoaded
    \/ Photo \/ LeaveCamera \/ LeaveSong \/ LeaveText
    \/ LeaveRecipients \/ LeaveReview \/ LeaveCondition
    \/ \E u \in people : ToggleRecipient(u)
    \/ people = Everyone /\ \E album \in Albums : ToggleGroup(album)
    \/ \E type \in {"MANUAL", "TOGETHER", "RECIPIENT_SET"} : PickType(type)
    \/ \E label \in Typed : TypeLabel(label)
    \/ \E hint \in Hints : PickSuggestion(hint)
    \/ \E m \in Names \cup {None} : PickMoment(m)
    \/ Finish \/ Posted \/ Close

CaptureSpec == CaptureInit /\ [][CaptureNext]_captureVars

-----------------------------------------------------------------------------
(* Properties                                                              *)

\* The camera is never on once the page that shows it was left, whatever
\* request for it is still to be answered.
CameraReleased == stream => rendered[1] = <<"media", FALSE>>

\* Whatever the user went back to change, the button sends nothing that create
\* refuses; unless somebody chosen is no longer known to the screen, which a
\* failed reload of the groups forgets while it keeps the choice.
DraftAccepted ==
    On("condition") /\ CanStash /\ ~reply /\ recipientIds \subseteq people
        => Allowed(Composed)
=============================================================================
