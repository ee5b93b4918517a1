------------------------------- MODULE Users -------------------------------
(***************************************************************************)
(* UsersService: the sign-in sync every request passes through (the        *)
(* interceptor), sign-up with a drawn pairing code, and profile edits.  A  *)
(* request loads a document, changes its copy and saves the paths it       *)
(* changed, unconditionally: no array is replaced, so no version is        *)
(* checked.                                                                *)
(***************************************************************************)
EXTENDS FiniteSets, Naturals

CONSTANTS
    People,      \* subjects of Auth0 tokens
    None,        \* null or undefined
    Calls,       \* requests the server can have in flight at once
    Codes,       \* pairing codes that may be drawn
    TokenNames,  \* names a token may carry; None when it carries none
    TypedNames   \* names a person may type

VARIABLES
    users,       \* the users collection
    calls        \* the requests in flight

\* doc: the copy the request works on, None before it has one.  dirty: the
\* paths it changed since it loaded or saved.  claim: the token's name.
\* data: what the steps of a request hand on to each other.  What it asks for
\* shows at "handle", when the sign-in is done.
Idle == [pc |-> "idle", actor |-> None, claim |-> None,
         doc |-> None, dirty |-> {}, data |-> None]

\* email and picture are synced like the name, and the school, city, ritual
\* and opt-in edited like it; they are left out.
Fields == {"displayName", "displayNameSet", "pairingCode",
           "spotify", "spotifyAuthState"}

NewAccount(name, code) ==
    [displayName |-> IF name = None THEN "Friend" ELSE name,
     displayNameSet |-> FALSE, pairingCode |-> code,
     spotify |-> None, spotifyAuthState |-> None]

UsersInit == users = [u \in People |-> None]

Members == {u \in People : users[u] # None}

Taken(code) == \E u \in Members : users[u].pairingCode = code

Goto(k, pc) == calls' = [calls EXCEPT ![k].pc = pc]

End(k) == calls' = [calls EXCEPT ![k] = Idle]

\* A copy that was changed to new, to be saved at pc.
Stage(call, pc, new) ==
    [call EXCEPT !.pc = pc, !.doc = new,
                 !.dirty = {f \in Fields : new[f] # call.doc[f]}]

\* Mutant of Saved: the whole copy is written.
SavedWhole(stored, doc, dirty) == IF dirty = {} THEN stored ELSE doc

\* save() sends the changed paths only.
Saved(stored, doc, dirty) ==
    [f \in Fields |-> IF f \in dirty THEN doc[f] ELSE stored[f]]

-----------------------------------------------------------------------------
(* Sign-in                                                                 *)

\* A name the user typed wins over what the token says.
SyncedName(doc, claim) ==
    IF doc.displayNameSet \/ claim = None THEN doc.displayName ELSE claim

\* The request with the document it found, and the sync it needs, if any.
Found(call, doc) ==
    LET loaded == [call EXCEPT !.pc = "handle", !.doc = doc, !.claim = None]
        new == [doc EXCEPT !.displayName = SyncedName(doc, call.claim)]
    IN  IF new = doc THEN loaded ELSE Stage(loaded, "sync", new)

\* The request with the document it inserted.
Signed(call, doc) ==
    [call EXCEPT !.pc = "handle", !.doc = doc, !.claim = None, !.data = None]

\* A request with a token: getOrCreate looks for the document.
SignIn(k, u, claim) ==
    LET call == [Idle EXCEPT !.pc = "draw", !.actor = u, !.claim = claim]
    IN  /\ calls[k] = Idle
        /\ calls' = [calls EXCEPT ![k] =
                        IF users[u] = None THEN call ELSE Found(call, users[u])]
        /\ UNCHANGED users

\* uniquePairingCode: a code nobody has now, or none in twelve draws.
DrawCode(k) ==
    /\ calls[k].pc = "draw"
    /\ \/ \E c \in Codes : ~Taken(c) /\ calls' =
              [calls EXCEPT ![k].pc = "insert", ![k].data = c]
       \/ \E c \in Codes : Taken(c) /\ Goto(k, "noCode")
    /\ UNCHANGED users

\* Mutant of InsertUser: a duplicate is an error like any other.
InsertOrThrow(k) ==
    LET u == calls[k].actor
        new == NewAccount(calls[k].claim, calls[k].data)
    IN  /\ calls[k].pc = "insert"
        /\ IF users[u] = None /\ ~Taken(calls[k].data)
           THEN /\ users' = [users EXCEPT ![u] = new]
                /\ calls' = [calls EXCEPT ![k] = Signed(@, new)]
           ELSE Goto(k, "refused") /\ UNCHANGED users

\* create(): the unique indexes on _id and on pairingCode may refuse it.
InsertUser(k) ==
    LET u == calls[k].actor
        new == NewAccount(calls[k].claim, calls[k].data)
    IN  /\ calls[k].pc = "insert"
        /\ IF users[u] = None /\ ~Taken(calls[k].data)
           THEN /\ users' = [users EXCEPT ![u] = new]
                /\ calls' = [calls EXCEPT ![k] = Signed(@, new)]
           ELSE Goto(k, "retry") /\ UNCHANGED users

\* After E11000: the document another request of the same person inserted;
\* none when it was the code that clashed.
RetrySignIn(k) ==
    LET u == calls[k].actor IN
    /\ calls[k].pc = "retry"
    /\ IF users[u] = None
       THEN Goto(k, "refused")
       ELSE calls' = [calls EXCEPT ![k] =
                         Found([calls[k] EXCEPT !.data = None], users[u])]
    /\ UNCHANGED users

-----------------------------------------------------------------------------
(* PATCH /me                                                               *)

\* A name that is left after trim().
Patch(k, name) ==
    /\ calls[k].pc = "handle"
    /\ calls' = [calls EXCEPT ![k] =
          Stage(@, "patch", [@.doc EXCEPT !.displayName = name,
                                          !.displayNameSet = TRUE])]
    /\ UNCHANGED users

\* GET /me, or any request that does no more with the user's document.
Me(k) ==
    /\ calls[k].pc = "handle"
    /\ End(k)
    /\ UNCHANGED users

\* A database call that throws, or a restart: what was saved stays.
FailCall(k) ==
    /\ calls[k] # Idle
    /\ End(k)
    /\ UNCHANGED users

UsersStep(k) ==
    \/ DrawCode(k) \/ InsertUser(k) \/ RetrySignIn(k) \/ Me(k)
    \/ \E name \in TypedNames : Patch(k, name)
=============================================================================
