------------------------------ MODULE Account -------------------------------
(***************************************************************************)
(* Signing in, choosing an id, editing the profile, signing out, removing  *)
(* the account: LoginViewController, InputProfileViewController,           *)
(* MyViewController, SceneDelegate and their calls of MyDataManager.       *)
(*                                                                         *)
(* A users document belongs to the Apple user in its `user_identifier'.    *)
(* Who is signed in on a phone is kept in its user defaults, which         *)
(* completion handlers write whenever they run.                            *)
(*                                                                         *)
(* A write is committed together with its completion handler; a write      *)
(* whose app has ended is committed by Firestore's cache all the same.     *)
(* That a phone's reads show its own writes before they are committed is   *)
(* not used: the phone sees them committed, or not yet.                    *)
(***************************************************************************)
EXTENDS Naturals

CONSTANTS
    Phones,
    AppleUsers,
    Ids,         \* what users may enter as their id
    Docs,        \* firebaseIds
    signers,     \* signers[ph]: the Apple users who use the phone
    None,        \* no value: a missing document, nil, ""
    MaxOps,      \* bound on the taps
    MaxHasty     \* bound on the taps of users who do not wait for their calls

ASSUME AccountAssumption ==
    /\ signers \in [Phones -> SUBSET AppleUsers]
    /\ None \notin AppleUsers \cup Ids \cup Docs
    /\ MaxOps \in Nat /\ MaxHasty \in Nat

VARIABLES
    \* users documents
    userIdentifier,   \* None: there is no such document
    id,
    status,           \* "removed" is -1, "active" 0
    image,            \* whose photo it is; None: the placeholder
    \* user defaults of a phone
    myIdentifier, myFirebaseId, myId,
    \* the page shown, and thisUser of InputProfileViewController
    page, formFirebaseId, formIdentifier,
    \* calls in flight
    signIns,          \* queries by user_identifier
    checks,           \* queries by id
    uploads,          \* pictures on their way to Storage
    writes,           \* writes of users documents
    \* history, never read by the system
    ops,              \* taps so far
    hasty             \* a call has failed, or some phone was used, or its app
                      \* ended, while it waited for one

users    == <<userIdentifier, id, status, image>>
defaults == <<myIdentifier, myFirebaseId, myId>>
form     == <<formFirebaseId, formIdentifier>>
calls    == <<signIns, checks, uploads, writes>>
vars     == <<users, defaults, page, form, calls, ops, hasty>>

-----------------------------------------------------------------------------

\* Who still waits for a call: the page that started it, the app that has left
\* the page, or, if the app has ended, nobody.
Waiting == {"page", "app", "nobody"}

SignInCall == [n : Nat, ph : Phones, do : {"launch", "login", "profile"},
               apple : AppleUsers, awaited : Waiting]
CheckCall  == [n : Nat, ph : Phones, do : {"save", "change"},
               apple : AppleUsers \cup {None}, doc : Docs \cup {None},
               id : Ids, to : Ids, awaited : Waiting]
UploadCall == [n : Nat, ph : Phones, doc : Docs \cup {None}]
WriteCall  == {w \in [n : Nat, ph : Phones,
                      do : {"save", "update", "remove", "image"},
                      apple : AppleUsers \cup {None}, doc : Docs \cup {None},
                      val : Ids \cup Docs \cup {None}, awaited : Waiting] :
                  /\ w.do \in {"save", "update"} => w.val \in Ids
                  /\ w.do = "image" => w.val \in Docs \cup {None}}

StateTyped ==
    /\ userIdentifier \in [Docs -> AppleUsers \cup {None}]
    /\ id \in [Docs -> Ids \cup {None}]
    /\ status \in [Docs -> {"active", "removed"}]
    /\ image \in [Docs -> Docs \cup {None}]
    /\ myIdentifier \in [Phones -> AppleUsers \cup {None}]
    /\ myFirebaseId \in [Phones -> Docs \cup {None}]
    /\ myId \in [Phones -> Ids \cup {None}]
    /\ page \in [Phones -> {"launch", "login", "input", "tabs", "profile"}]
    /\ formFirebaseId \in [Phones -> Docs \cup {None}]
    /\ formIdentifier \in [Phones -> AppleUsers \cup {None}]
    /\ signIns \subseteq SignInCall
    /\ checks \subseteq CheckCall
    /\ uploads \subseteq UploadCall
    /\ writes \subseteq WriteCall
    /\ ops \in 0..MaxOps

TypeOK == StateTyped /\ hasty \in BOOLEAN

\* The app is installed and opened: nobody has an account.
Init ==
    /\ userIdentifier = [d \in Docs |-> None]
    /\ id = [d \in Docs |-> None]
    /\ status = [d \in Docs |-> "active"]
    /\ image = [d \in Docs |-> None]
    /\ myIdentifier = [ph \in Phones |-> None]
    /\ myFirebaseId = [ph \in Phones |-> None]
    /\ myId = [ph \in Phones |-> None]
    /\ page = [ph \in Phones |-> "login"]
    /\ formFirebaseId = [ph \in Phones |-> None]
    /\ formIdentifier = [ph \in Phones |-> None]
    /\ signIns = {} /\ checks = {} /\ uploads = {} /\ writes = {}
    /\ ops = 0
    /\ hasty = FALSE

-----------------------------------------------------------------------------
(* Helpers.                                                                *)

Begin == /\ ops < MaxOps
         /\ ops' = ops + 1

Show(ph, p) == page' = [page EXCEPT ![ph] = p]

\* Phone ph leaves the page that waits for its calls cs.
Forsaken(cs, ph) ==
    {IF c.ph = ph /\ c.awaited = "page" THEN [c EXCEPT !.awaited = "app"]
     ELSE c : c \in cs}

\* The profile page or the form is left, for page p.
LeaveFor(ph, p) ==
    /\ Show(ph, p)
    /\ checks' = Forsaken(checks, ph)

SaveUserDefaultSwapped(ph, d, i) ==     \* mutant: the two ids are mixed up
    /\ myFirebaseId' = [myFirebaseId EXCEPT ![ph] = i]
    /\ myId' = [myId EXCEPT ![ph] = d]

\* saveUserDefault, which leaves the user identifier to its callers.
SaveUserDefault(ph, d, i) ==
    /\ myFirebaseId' = [myFirebaseId EXCEPT ![ph] = d]
    /\ myId' = [myId EXCEPT ![ph] = i]

DeleteUserDefaultSaved(ph) ==   \* mutant: only what saveUserDefault has saved
    /\ SaveUserDefault(ph, None, None)
    /\ UNCHANGED myIdentifier

DeleteUserDefault(ph) ==
    /\ SaveUserDefault(ph, None, None)
    /\ myIdentifier' = [myIdentifier EXCEPT ![ph] = None]

-----------------------------------------------------------------------------
(* The user.                                                               *)

\* The Apple button.
HandleLogIn(ph, a) ==
    /\ Begin
    /\ page[ph] = "login"
    /\ a \in signers[ph]
    /\ signIns' = signIns \cup {[n |-> ops, ph |-> ph, do |-> "login",
                                 apple |-> a, awaited |-> "page"]}
    /\ UNCHANGED <<users, defaults, page, form, checks, uploads, writes>>

\* "done" on a complete form: saveProfileInfo asks for the id first.
DoneInput(ph, i) ==
    /\ Begin
    /\ page[ph] = "input"
    /\ checks' = checks \cup
         {[n |-> ops, ph |-> ph, do |-> "save", apple |-> formIdentifier[ph],
           doc |-> formFirebaseId[ph], id |-> i, to |-> i, awaited |-> "page"]}
    /\ UNCHANGED <<users, defaults, page, form, signIns, uploads, writes>>

\* "edit profile": the form is filled from the user defaults.
PushToInputProfile(ph) ==
    /\ Begin
    /\ page[ph] = "tabs"
    /\ Show(ph, "profile")
    /\ formFirebaseId' = [formFirebaseId EXCEPT ![ph] = myFirebaseId[ph]]
    /\ formIdentifier' = [formIdentifier EXCEPT ![ph] = None]
    /\ UNCHANGED <<users, defaults, calls>>

Back(ph) ==
    /\ Begin
    /\ page[ph] = "profile"
    /\ LeaveFor(ph, "tabs")
    /\ writes' = Forsaken(writes, ph)
    /\ UNCHANGED <<users, defaults, form, signIns, uploads>>

\* The checks of this page that will save thisUser, whose id is now i.
Retargeted(ph, i) ==
    {IF c.ph = ph /\ c.do = "change" /\ c.awaited = "page" THEN [c EXCEPT !.to = i]
     ELSE c : c \in checks}

\* "done" on the profile page: an id that is not that of the user defaults is
\* asked for, the others are saved at once.
ChangeUserInfo(ph, i) ==
    /\ Begin
    /\ page[ph] = "profile"
    /\ IF i # myId[ph]
       THEN /\ checks' = Retargeted(ph, i) \cup
                 {[n |-> ops, ph |-> ph, do |-> "change", apple |-> None,
                   doc |-> formFirebaseId[ph], id |-> i, to |-> i,
                   awaited |-> "page"]}
            /\ UNCHANGED writes
       ELSE /\ checks' = Retargeted(ph, i)
            /\ writes' = writes \cup
                 {[n |-> ops, ph |-> ph, do |-> "update", apple |-> None,
                   doc |-> formFirebaseId[ph], val |-> i, awaited |-> "page"]}
    /\ UNCHANGED <<users, defaults, page, form, signIns, uploads>>

\* The login page is shown before the removal is confirmed.
DeleteAccount(ph) ==
    /\ Begin
    /\ page[ph] = "profile"
    /\ LeaveFor(ph, "login")
    /\ writes' = Forsaken(writes, ph) \cup
         {[n |-> ops, ph |-> ph, do |-> "remove", apple |-> None,
           doc |-> formFirebaseId[ph], val |-> None, awaited |-> "app"]}
    /\ UNCHANGED <<users, defaults, form, signIns, uploads>>

Logout(ph) ==
    /\ Begin
    /\ page[ph] = "tabs"
    /\ Show(ph, "login")
    /\ DeleteUserDefault(ph)
    /\ UNCHANGED <<users, form, calls>>

SaveProfileImage(ph) ==
    /\ Begin
    /\ page[ph] = "tabs"
    /\ uploads' = uploads \cup {[n |-> ops, ph |-> ph, doc |-> myFirebaseId[ph]]}
    /\ UNCHANGED <<users, defaults, page, form, signIns, checks, writes>>

Tap(ph) ==
    \/ \E a \in AppleUsers : HandleLogIn(ph, a)
    \/ \E i \in Ids : DoneInput(ph, i) \/ ChangeUserInfo(ph, i)
    \/ PushToInputProfile(ph) \/ Back(ph) \/ DeleteAccount(ph) \/ Logout(ph)
    \/ SaveProfileImage(ph)

-----------------------------------------------------------------------------
(* Answers to the queries by user_identifier.                              *)

ActiveAccounts(a) ==        \* mutant: removed accounts are not found
    {d \in Docs : userIdentifier[d] = a /\ status[d] = "active"}

Accounts(a) == {d \in Docs : userIdentifier[d] = a}

\* mutant: who signs in is remembered at once
AnswerNobodySignedIn(c) ==
    /\ c.do = "login"
    /\ Accounts(c.apple) = {}
    /\ Show(c.ph, "input")
    /\ formFirebaseId' = [formFirebaseId EXCEPT ![c.ph] = None]
    /\ formIdentifier' = [formIdentifier EXCEPT ![c.ph] = c.apple]
    /\ myIdentifier' = [myIdentifier EXCEPT ![c.ph] = c.apple]
    /\ signIns' = Forsaken(signIns \ {c}, c.ph)
    /\ UNCHANGED <<users, myFirebaseId, myId, checks, uploads, writes, ops>>

\* A new user gets the form, and the pending sign-ins lose their page.
AnswerNobody(c) ==
    /\ c.do = "login"
    /\ Accounts(c.apple) = {}
    /\ IF c.awaited = "page"
       THEN /\ Show(c.ph, "input")
            /\ formFirebaseId' = [formFirebaseId EXCEPT ![c.ph] = None]
            /\ formIdentifier' = [formIdentifier EXCEPT ![c.ph] = c.apple]
            /\ signIns' = Forsaken(signIns \ {c}, c.ph)
       ELSE /\ signIns' = signIns \ {c}
            /\ UNCHANGED <<page, form>>
    /\ UNCHANGED <<users, defaults, checks, uploads, writes, ops>>

\* Somebody with an account: getProfileData is called.
AnswerSomebody(c) ==
    /\ c.do = "login"
    /\ Accounts(c.apple) # {}
    /\ signIns' = (signIns \ {c}) \cup
         {[n |-> c.n, ph |-> c.ph, do |-> "profile", apple |-> c.apple,
           awaited |-> c.awaited]}
    /\ UNCHANGED <<users, defaults, page, form, checks, uploads, writes, ops>>

ReturnsNever(d) == FALSE    \* mutant: the status is not looked at

\* getProfileData's answer is handled document by document: the last one stays
\* in the defaults, and the tabs, which are shown at once, come before the form,
\* which is shown later.  An account that was removed fills in the form again.
Returns(d) == status[d] = "removed"

AnswerProfile(c) ==
    /\ c.do = "profile"
    /\ \E last \in Accounts(c.apple) : SaveUserDefault(c.ph, last, id[last])
    /\ IF \A d \in Accounts(c.apple) : Returns(d)
       THEN /\ IF c.awaited = "page"
               THEN /\ Show(c.ph, "input")
                    /\ \E first \in Accounts(c.apple) :
                         formFirebaseId' = [formFirebaseId EXCEPT ![c.ph] = first]
                    /\ formIdentifier' = [formIdentifier EXCEPT ![c.ph] = c.apple]
               ELSE UNCHANGED <<page, form>>
            /\ UNCHANGED myIdentifier
       ELSE /\ IF c.awaited = "page" THEN Show(c.ph, "tabs") ELSE UNCHANGED page
            /\ myIdentifier' = [myIdentifier EXCEPT ![c.ph] = c.apple]
            /\ UNCHANGED form
    /\ signIns' = IF c.awaited = "page" THEN Forsaken(signIns \ {c}, c.ph)
                  ELSE signIns \ {c}
    /\ UNCHANGED <<users, checks, uploads, writes, ops>>

\* SceneDelegate: the status of the account is not looked at, and without an
\* account nothing happens.
AnswerLaunch(c) ==
    /\ c.do = "launch"
    /\ IF Accounts(c.apple) = {} THEN UNCHANGED <<defaults, page>>
       ELSE /\ \E last \in Accounts(c.apple) :
                 SaveUserDefault(c.ph, last, id[last])
            /\ Show(c.ph, "tabs")
            /\ UNCHANGED myIdentifier
    /\ signIns' = signIns \ {c}
    /\ UNCHANGED <<users, form, checks, uploads, writes, ops>>

-----------------------------------------------------------------------------
(* Answers to the queries by id, and the writes that follow.               *)

NotTakenByActive(i) ==      \* mutant: removed accounts do not count
    \A d \in Docs : userIdentifier[d] = None \/ id[d] # i \/ status[d] = "removed"

Free(i) == \A d \in Docs : userIdentifier[d] = None \/ id[d] # i

\* users.document(): an id that no document has or is about to have.
New(d) == /\ userIdentifier[d] = None
          /\ \A w \in writes : w.doc # d

DocOfAnyone(c) ==           \* mutant: the form's firebaseId is not kept
    {d \in Docs : userIdentifier[d] # None \/ New(d)}

\* The document that saveProfileInfo writes: the one of the earlier account
\* or a new one.
DocOf(c) == IF c.doc # None THEN {c.doc} ELSE {d \in Docs : New(d)}

AnswerCheck(c) ==
    /\ checks' = checks \ {c}
    /\ IF ~Free(c.id) THEN UNCHANGED writes
       ELSE \E d \in IF c.do = "save" THEN DocOf(c) ELSE {c.doc} :
              writes' = writes \cup
                {[n |-> c.n, ph |-> c.ph,
                  do |-> IF c.do = "save" THEN "save" ELSE "update",
                  apple |-> c.apple, doc |-> d, val |-> c.to,
                  awaited |-> c.awaited]}
    /\ UNCHANGED <<users, defaults, page, form, signIns, uploads, ops>>

\* mutant: the document is that of the last form
PutDataOfForm(c) ==
    /\ uploads' = uploads \ {c}
    /\ writes' = writes \cup
         {[n |-> c.n, ph |-> c.ph, do |-> "image", apple |-> None,
           doc |-> formFirebaseId[c.ph], val |-> c.doc, awaited |-> "app"]}
    /\ UNCHANGED <<users, defaults, page, form, signIns, checks, ops>>

\* The picture has an URL: the document of whoever is signed in now gets it.
PutData(c) ==
    /\ uploads' = uploads \ {c}
    /\ writes' = writes \cup
         {[n |-> c.n, ph |-> c.ph, do |-> "image", apple |-> None,
           doc |-> myFirebaseId[c.ph], val |-> c.doc, awaited |-> "app"]}
    /\ UNCHANGED <<users, defaults, page, form, signIns, checks, ops>>

\* saveProfileInfo's updateData or setData: a whole new profile.  The tabs cover
\* the form or profile page that is shown, whichever asked for the write.  The
\* empty my_play_list and block_list are SaveProfileInfo of Roster and of Feed.
CommitSave(w) ==
    /\ w.do = "save"
    /\ userIdentifier' = [userIdentifier EXCEPT ![w.doc] = w.apple]
    /\ id' = [id EXCEPT ![w.doc] = w.val]
    /\ status' = [status EXCEPT ![w.doc] = "active"]
    /\ image' = [image EXCEPT ![w.doc] = None]
    /\ IF w.awaited # "nobody"
       THEN /\ SaveUserDefault(w.ph, w.doc, w.val)
            /\ myIdentifier' = [myIdentifier EXCEPT ![w.ph] = w.apple]
       ELSE UNCHANGED defaults
    /\ IF w.awaited # "nobody" /\ page[w.ph] \in {"input", "profile"}
       THEN LeaveFor(w.ph, "tabs") /\ writes' = Forsaken(writes \ {w}, w.ph)
       ELSE writes' = writes \ {w} /\ UNCHANGED <<page, checks>>
    /\ UNCHANGED <<form, signIns, uploads, ops>>

\* updateProfileInfo pops the page that asked for it, if it is still there.
CommitUpdate(w) ==
    /\ w.do = "update"
    /\ w.doc # None
    /\ id' = [id EXCEPT ![w.doc] = w.val]
    /\ IF w.awaited # "nobody"
       THEN SaveUserDefault(w.ph, w.doc, w.val)
       ELSE UNCHANGED <<myFirebaseId, myId>>
    /\ IF w.awaited = "page"
       THEN LeaveFor(w.ph, "tabs") /\ writes' = Forsaken(writes \ {w}, w.ph)
       ELSE writes' = writes \ {w} /\ UNCHANGED <<page, checks>>
    /\ UNCHANGED <<userIdentifier, status, image, myIdentifier, form, signIns,
                   uploads, ops>>

CommitRemove(w) ==
    /\ w.do = "remove"
    /\ w.doc # None
    /\ status' = [status EXCEPT ![w.doc] = "removed"]
    /\ writes' = writes \ {w}
    /\ IF w.awaited # "nobody" THEN DeleteUserDefault(w.ph)
       ELSE UNCHANGED defaults
    /\ UNCHANGED <<userIdentifier, id, image, page, form, signIns, checks,
                   uploads, ops>>

CommitImage(w) ==
    /\ w.do = "image"
    /\ w.doc # None
    /\ image' = [image EXCEPT ![w.doc] = w.val]
    /\ writes' = writes \ {w}
    /\ UNCHANGED <<userIdentifier, id, status, defaults, page, form, signIns,
                   checks, uploads, ops>>

\* updateData of "No firebase id found": a document that is not there.
FailWrite(w) ==
    /\ w.doc = None
    /\ writes' = writes \ {w}
    /\ UNCHANGED <<users, defaults, page, form, signIns, checks, uploads, ops>>

\* A call of phone ph is answered.
Answer(ph) ==
    /\ \/ \E c \in signIns : c.ph = ph /\ \/ AnswerNobody(c) \/ AnswerSomebody(c)
                                          \/ AnswerProfile(c) \/ AnswerLaunch(c)
       \/ \E c \in checks : c.ph = ph /\ AnswerCheck(c)
       \/ \E c \in uploads : c.ph = ph /\ PutData(c)
       \/ \E w \in writes : w.ph = ph /\ \/ CommitSave(w) \/ CommitUpdate(w)
                                         \/ CommitRemove(w) \/ CommitImage(w)
                                         \/ FailWrite(w)
    /\ UNCHANGED hasty

-----------------------------------------------------------------------------
(* Restarts and failures.                                                  *)

\* The app ends and is opened again: who is in the user defaults is signed in.
\* Its reads are gone, its writes are not.
Reopen(ph) ==
    /\ IF myIdentifier[ph] = None
       THEN /\ Show(ph, "login")
            /\ signIns' = {c \in signIns : c.ph # ph}
       ELSE /\ Show(ph, "launch")
            /\ signIns' = {c \in signIns : c.ph # ph} \cup
                 {[n |-> 0, ph |-> ph, do |-> "launch",
                   apple |-> myIdentifier[ph], awaited |-> "page"]}
    /\ checks' = {c \in checks : c.ph # ph}
    /\ uploads' = {c \in uploads : c.ph # ph}
    /\ writes' = {IF w.ph = ph THEN [w EXCEPT !.awaited = "nobody"] ELSE w :
                    w \in writes}
    /\ UNCHANGED <<users, defaults, form, ops>>

\* A call that ends with an error, which the app prints.
Lose ==
    /\ \/ \E c \in signIns : /\ signIns' = signIns \ {c}
                             /\ UNCHANGED <<checks, uploads, writes>>
       \/ \E c \in checks : /\ checks' = checks \ {c}
                            /\ UNCHANGED <<signIns, uploads, writes>>
       \/ \E c \in uploads : /\ uploads' = uploads \ {c}
                             /\ UNCHANGED <<signIns, checks, writes>>
       \/ \E c \in writes : /\ writes' = writes \ {c}
                            /\ UNCHANGED <<signIns, checks, uploads>>
    /\ UNCHANGED <<users, defaults, page, form, ops>>

Quiet(ph) == \A set \in {signIns, checks, uploads, writes} :
                 \A c \in set : c.ph # ph

\* A tap, or a restart, does not wait for the calls of phone ph.
Hurries(ph) == hasty' = (hasty \/ ~Quiet(ph))

Next ==
    /\ \/ \E ph \in Phones : (Tap(ph) \/ Reopen(ph)) /\ Hurries(ph)
       \/ \E ph \in Phones : Answer(ph)
       \/ Lose /\ hasty' = TRUE
    /\ hasty' => ops' <= MaxHasty

\* Any interleaving, any failure.  Firestore retries a call until it is
\* answered, or fails.
Spec == Init /\ [][Next]_vars /\ \A ph \in Phones : WF_vars(Answer(ph))

-----------------------------------------------------------------------------
(* Safety under every interleaving and failure.                            *)

\* No completion that arrives in another user's session, and no form, turns
\* the document of an Apple user into that of another one.
OwnerFixed ==
    [][\A d \in Docs : userIdentifier[d] # None =>
         userIdentifier'[d] = userIdentifier[d]]_vars

\* Whoever is in the user defaults has an account, so that the launch of the
\* app, which waits for one, finds it.
LaunchFinds ==
    \A ph \in Phones : myIdentifier[ph] # None => Accounts(myIdentifier[ph]) # {}

-----------------------------------------------------------------------------
(* Patient users: on each phone the next tap, or restart, comes when the   *)
(* calls of the phone are done.  The phones are independent of each other. *)

\* The page, the user defaults and the document tell the same story.
SessionAgrees ==
    \A ph \in Phones : ~hasty /\ Quiet(ph) =>
        /\ page[ph] \in {"tabs", "profile"} <=> myIdentifier[ph] # None
        /\ myIdentifier[ph] # None =>
             /\ myFirebaseId[ph] # None
             /\ userIdentifier[myFirebaseId[ph]] = myIdentifier[ph]
             /\ id[myFirebaseId[ph]] = myId[ph]
             /\ status[myFirebaseId[ph]] = "active"

\* Nobody gets a second account, by signing in again after removing it either.
OneAccount ==
    ~hasty => \A d, e \in Docs :
        userIdentifier[d] # None /\ userIdentifier[d] = userIdentifier[e] => d = e

\* A document shows the photo that its own user took.
OwnPhoto == ~hasty => \A d \in Docs : image[d] \in {None, d}

\* The launch page gives way.
LaunchEnds ==
    \A ph \in Phones : page[ph] = "launch" ~> page[ph] # "launch" \/ hasty

\* MyDataManager.saveProfileInfo and InputProfileViewController.changeUserInfo:
\* the id that is saved is not used by somebody else.
IdsUnique ==
    ~hasty => \A d, e \in Docs :
        userIdentifier[d] # None /\ userIdentifier[e] # None /\ id[d] = id[e]
        => d = e
=============================================================================
