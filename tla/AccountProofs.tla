---------------------------- MODULE AccountProofs ----------------------------
(***************************************************************************)
(* Theorems about module Account, for any phones, users, ids and           *)
(* documents, any interleaving of any number of calls, any lost call and   *)
(* any restart.                                                            *)
(***************************************************************************)
EXTENDS Account, TLAPS

-----------------------------------------------------------------------------
(* Type correctness.                                                       *)

\* The app of a new user is well typed.
LEMMA InitTyped == Init => StateTyped
BY AccountAssumption DEF Init, StateTyped

\* A tap is counted within the bound.
LEMMA BeginTyped == StateTyped /\ Begin => ops \in Nat /\ ops' \in 0..MaxOps
BY AccountAssumption DEF Begin, StateTyped

\* Calls whose page was left are calls of the same kind.
LEMMA ForsakenTyped ==
    ASSUME NEW ph \in Phones, NEW cs
    PROVE  /\ cs \subseteq SignInCall => Forsaken(cs, ph) \subseteq SignInCall
           /\ cs \subseteq CheckCall => Forsaken(cs, ph) \subseteq CheckCall
           /\ cs \subseteq WriteCall => Forsaken(cs, ph) \subseteq WriteCall
<1>1. ASSUME cs \subseteq SignInCall, NEW c \in cs
      PROVE  c \in SignInCall /\ [c EXCEPT !.awaited = "app"] \in SignInCall
  BY <1>1 DEF SignInCall, Waiting
<1>2. ASSUME cs \subseteq CheckCall, NEW c \in cs
      PROVE  c \in CheckCall /\ [c EXCEPT !.awaited = "app"] \in CheckCall
  BY <1>2 DEF CheckCall, Waiting
<1>3. ASSUME cs \subseteq WriteCall, NEW c \in cs
      PROVE  c \in WriteCall /\ [c EXCEPT !.awaited = "app"] \in WriteCall
  BY <1>3 DEF WriteCall, Waiting
<1>4. QED
  BY <1>1, <1>2, <1>3 DEF Forsaken

\* Writes whose app has ended are writes.
LEMMA EndedTyped ==
    ASSUME NEW ph \in Phones, writes \subseteq WriteCall
    PROVE  {IF w.ph = ph THEN [w EXCEPT !.awaited = "nobody"] ELSE w :
              w \in writes} \subseteq WriteCall
<1>1. ASSUME NEW w \in writes
      PROVE  w \in WriteCall /\ [w EXCEPT !.awaited = "nobody"] \in WriteCall
  BY <1>1 DEF WriteCall, Waiting
<1>2. QED
  BY <1>1

\* A check that will save another id is a check.
LEMMA RetargetedTyped ==
    ASSUME NEW ph \in Phones, NEW i \in Ids, checks \subseteq CheckCall
    PROVE  Retargeted(ph, i) \subseteq CheckCall
<1>1. ASSUME NEW c \in checks
      PROVE  c \in CheckCall /\ [c EXCEPT !.to = i] \in CheckCall
  BY <1>1 DEF CheckCall
<1>2. QED
  BY <1>1 DEF Retargeted

\* A tap starts well-typed calls.
LEMMA TapTyped == ASSUME StateTyped, NEW ph \in Phones, Tap(ph) PROVE StateTyped'
<1> USE DEF users, defaults, form, calls
<1>1. ASSUME NEW a \in AppleUsers, HandleLogIn(ph, a) PROVE StateTyped'
  BY <1>1, BeginTyped DEF HandleLogIn, StateTyped, SignInCall, Waiting
<1>2. ASSUME NEW i \in Ids, DoneInput(ph, i) PROVE StateTyped'
  BY <1>2, BeginTyped DEF DoneInput, StateTyped, CheckCall, Waiting
<1>3. ASSUME NEW i \in Ids, ChangeUserInfo(ph, i) PROVE StateTyped'
  <2>1. Retargeted(ph, i) \subseteq CheckCall
    BY RetargetedTyped DEF StateTyped
  <2>2. [n |-> ops, ph |-> ph, do |-> "change", apple |-> None,
         doc |-> formFirebaseId[ph], id |-> i, to |-> i,
         awaited |-> "page"] \in CheckCall
    BY <1>3, BeginTyped DEF ChangeUserInfo, StateTyped, CheckCall, Waiting
  <2>3. [n |-> ops, ph |-> ph, do |-> "update", apple |-> None,
         doc |-> formFirebaseId[ph], val |-> i, awaited |-> "page"] \in WriteCall
    BY <1>3, BeginTyped DEF ChangeUserInfo, StateTyped, WriteCall, Waiting
  <2>4. checks' \subseteq CheckCall /\ writes' \subseteq WriteCall
    BY <1>3, <2>1, <2>2, <2>3 DEF ChangeUserInfo, StateTyped
  <2>5. QED
    BY <1>3, <2>4, BeginTyped DEF ChangeUserInfo, StateTyped
<1>4. CASE PushToInputProfile(ph)
  BY <1>4, BeginTyped DEF PushToInputProfile, Show, StateTyped
<1>5. CASE Back(ph)
  BY <1>5, BeginTyped, ForsakenTyped DEF Back, LeaveFor, Show, StateTyped
<1>6. CASE DeleteAccount(ph)
  <2>1. [n |-> ops, ph |-> ph, do |-> "remove", apple |-> None,
         doc |-> formFirebaseId[ph], val |-> None, awaited |-> "app"] \in WriteCall
    BY <1>6, BeginTyped DEF DeleteAccount, StateTyped, WriteCall, Waiting
  <2>2. QED
    BY <1>6, <2>1, BeginTyped, ForsakenTyped
       DEF DeleteAccount, LeaveFor, Show, StateTyped
<1>7. CASE Logout(ph)
  BY <1>7, BeginTyped DEF Logout, DeleteUserDefault, SaveUserDefault, Show, StateTyped
<1>8. CASE SaveProfileImage(ph)
  BY <1>8, BeginTyped DEF SaveProfileImage, StateTyped, UploadCall
<1>9. QED
  BY <1>1, <1>2, <1>3, <1>4, <1>5, <1>6, <1>7, <1>8 DEF Tap

\* An answer to a query by user_identifier changes pages, forms, user defaults.
LEMMA SignInTyped ==
    ASSUME StateTyped, NEW c \in signIns,
           AnswerNobody(c) \/ AnswerSomebody(c) \/ AnswerProfile(c) \/ AnswerLaunch(c)
    PROVE  StateTyped'
<1> USE DEF users, defaults, form, calls, Show, SaveUserDefault
<1>1. c \in SignInCall /\ c.ph \in Phones /\ c.apple \in AppleUsers
  BY DEF StateTyped, SignInCall
<1>2. /\ signIns \ {c} \subseteq SignInCall
      /\ Forsaken(signIns \ {c}, c.ph) \subseteq SignInCall
  BY <1>1, ForsakenTyped DEF StateTyped
<1>3. CASE AnswerNobody(c)
  <2>1. /\ page' \in [Phones -> {"launch", "login", "input", "tabs", "profile"}]
        /\ formFirebaseId' \in [Phones -> Docs \cup {None}]
        /\ formIdentifier' \in [Phones -> AppleUsers \cup {None}]
    BY <1>1, <1>3 DEF AnswerNobody, StateTyped
  <2>2. /\ signIns' \subseteq SignInCall
        /\ UNCHANGED <<users, defaults, checks, uploads, writes, ops>>
    BY <1>2, <1>3 DEF AnswerNobody
  <2>3. QED
    BY <2>1, <2>2 DEF StateTyped
<1>4. CASE AnswerSomebody(c)
  <2>1. [n |-> c.n, ph |-> c.ph, do |-> "profile", apple |-> c.apple,
         awaited |-> c.awaited] \in SignInCall
    BY <1>1 DEF SignInCall
  <2>2. QED
    BY <1>2, <1>4, <2>1 DEF AnswerSomebody, StateTyped
<1>5. \A d \in Accounts(c.apple) : d \in Docs /\ id[d] \in Ids \cup {None}
  BY DEF Accounts, StateTyped
<1>6. CASE AnswerProfile(c)
  <2>1. PICK last \in Accounts(c.apple) : SaveUserDefault(c.ph, last, id[last])
    BY <1>6 DEF AnswerProfile
  <2>2. /\ myFirebaseId' \in [Phones -> Docs \cup {None}]
        /\ myId' \in [Phones -> Ids \cup {None}]
    BY <1>1, <1>5, <2>1 DEF StateTyped
  <2>3. CASE \A d \in Accounts(c.apple) : Returns(d)
    <3>1. /\ page' \in [Phones -> {"launch", "login", "input", "tabs", "profile"}]
          /\ formFirebaseId' \in [Phones -> Docs \cup {None}]
          /\ formIdentifier' \in [Phones -> AppleUsers \cup {None}]
          /\ UNCHANGED myIdentifier
      <4>1. /\ UNCHANGED myIdentifier
            /\ Show(c.ph, "input") \/ UNCHANGED page
            /\ \/ UNCHANGED formFirebaseId
               \/ \E d \in Accounts(c.apple) :
                    formFirebaseId' = [formFirebaseId EXCEPT ![c.ph] = d]
            /\ \/ UNCHANGED formIdentifier
               \/ formIdentifier' = [formIdentifier EXCEPT ![c.ph] = c.apple]
        BY <1>6, <2>3 DEF AnswerProfile
      <4>2. page' \in [Phones -> {"launch", "login", "input", "tabs", "profile"}]
        BY <4>1 DEF StateTyped, Show
      <4>3. formFirebaseId' \in [Phones -> Docs \cup {None}]
        BY <1>5, <4>1 DEF StateTyped
      <4>4. formIdentifier' \in [Phones -> AppleUsers \cup {None}]
        BY <1>1, <4>1 DEF StateTyped
      <4>5. QED
        BY <4>1, <4>2, <4>3, <4>4
    <3>2. QED
      BY <1>2, <1>6, <2>2, <3>1 DEF AnswerProfile, StateTyped
  <2>4. CASE ~ \A d \in Accounts(c.apple) : Returns(d)
    <3>1. /\ page' \in [Phones -> {"launch", "login", "input", "tabs", "profile"}]
          /\ myIdentifier' \in [Phones -> AppleUsers \cup {None}]
          /\ UNCHANGED form
      <4>1. /\ myIdentifier' = [myIdentifier EXCEPT ![c.ph] = c.apple]
            /\ UNCHANGED form
            /\ Show(c.ph, "tabs") \/ UNCHANGED page
        BY <1>6, <2>4 DEF AnswerProfile
      <4>2. page' \in [Phones -> {"launch", "login", "input", "tabs", "profile"}]
        BY <4>1 DEF StateTyped, Show
      <4>3. myIdentifier' \in [Phones -> AppleUsers \cup {None}]
        BY <1>1, <4>1 DEF StateTyped
      <4>4. QED
        BY <4>1, <4>2, <4>3
    <3>2. QED
      BY <1>2, <1>6, <2>2, <3>1 DEF AnswerProfile, StateTyped
  <2>5. QED
    BY <2>3, <2>4
<1>7. CASE AnswerLaunch(c)
  BY <1>1, <1>2, <1>5, <1>7 DEF AnswerLaunch, StateTyped
<1>8. QED
  BY <1>3, <1>4, <1>6, <1>7

\* A check that is answered starts a write of the form's document or a new one.
LEMMA CheckTyped ==
    ASSUME StateTyped, NEW c \in checks, AnswerCheck(c)
    PROVE  StateTyped'
<1>1. c \in CheckCall
  BY DEF StateTyped
<1>2. ASSUME NEW d \in IF c.do = "save" THEN DocOf(c) ELSE {c.doc}
      PROVE  [n |-> c.n, ph |-> c.ph,
              do |-> IF c.do = "save" THEN "save" ELSE "update",
              apple |-> c.apple, doc |-> d, val |-> c.to,
              awaited |-> c.awaited] \in WriteCall
  BY <1>1, <1>2 DEF CheckCall, WriteCall, DocOf
<1>3. writes' \subseteq WriteCall
  BY <1>2 DEF AnswerCheck, StateTyped
<1>4. QED
  BY <1>3 DEF AnswerCheck, StateTyped, users, defaults, form

\* A write leaves a well-typed document and well-typed user defaults.
LEMMA CommitTyped ==
    ASSUME StateTyped, NEW w \in writes,
           \/ CommitSave(w) \/ CommitUpdate(w) \/ CommitRemove(w)
           \/ CommitImage(w) \/ FailWrite(w)
    PROVE  StateTyped'
<1> USE DEF users, defaults, form, LeaveFor, Show, SaveUserDefault,
            DeleteUserDefault
<1>1. w \in WriteCall
  BY DEF StateTyped
<1>2. /\ w.ph \in Phones
      /\ w.apple \in AppleUsers \cup {None}
      /\ w.doc \in Docs \cup {None}
      /\ w.do \in {"save", "update"} => w.val \in Ids
      /\ w.do = "image" => w.val \in Docs \cup {None}
  BY <1>1 DEF WriteCall
<1>3. /\ writes \ {w} \subseteq WriteCall
      /\ Forsaken(writes \ {w}, w.ph) \subseteq WriteCall
      /\ Forsaken(checks, w.ph) \subseteq CheckCall
  BY <1>2, ForsakenTyped DEF StateTyped
<1>4. CASE CommitSave(w)
  <2>1. w.val \in Ids
    BY <1>2, <1>4 DEF CommitSave
  <2>2. /\ userIdentifier' \in [Docs -> AppleUsers \cup {None}]
        /\ id' \in [Docs -> Ids \cup {None}]
        /\ status' \in [Docs -> {"active", "removed"}]
        /\ image' \in [Docs -> Docs \cup {None}]
    <3>1. /\ userIdentifier' = [userIdentifier EXCEPT ![w.doc] = w.apple]
          /\ id' = [id EXCEPT ![w.doc] = w.val]
          /\ status' = [status EXCEPT ![w.doc] = "active"]
          /\ image' = [image EXCEPT ![w.doc] = None]
      BY <1>4 DEF CommitSave
    <3>2. /\ userIdentifier' \in [Docs -> AppleUsers \cup {None}]
          /\ id' \in [Docs -> Ids \cup {None}]
      BY <1>2, <2>1, <3>1 DEF StateTyped
    <3>3. /\ status' \in [Docs -> {"active", "removed"}]
          /\ image' \in [Docs -> Docs \cup {None}]
      BY <3>1 DEF StateTyped
    <3>4. QED
      BY <3>2, <3>3
  <2>3. /\ myIdentifier' \in [Phones -> AppleUsers \cup {None}]
        /\ myFirebaseId' \in [Phones -> Docs \cup {None}]
        /\ myId' \in [Phones -> Ids \cup {None}]
    BY <1>2, <1>4, <2>1 DEF CommitSave, StateTyped
  <2>4. page' \in [Phones -> {"launch", "login", "input", "tabs", "profile"}]
    <3>1. page' = [page EXCEPT ![w.ph] = "tabs"] \/ page' = page
      BY <1>4 DEF CommitSave
    <3>2. page \in [Phones -> {"launch", "login", "input", "tabs", "profile"}]
      BY DEF StateTyped
    <3>3. QED
      BY ONLY <3>1, <3>2
  <2>5. checks' \subseteq CheckCall /\ writes' \subseteq WriteCall
    <3>1. /\ checks' \in {Forsaken(checks, w.ph), checks}
          /\ writes' \in {Forsaken(writes \ {w}, w.ph), writes \ {w}}
      BY <1>4 DEF CommitSave
    <3>2. checks \subseteq CheckCall
      BY DEF StateTyped
    <3>3. QED
      BY ONLY <1>3, <3>1, <3>2
  <2>6. UNCHANGED <<form, signIns, uploads, ops>>
    BY <1>4 DEF CommitSave
  <2>7. QED
    BY <2>2, <2>3, <2>4, <2>5, <2>6 DEF StateTyped
<1>5. CASE CommitUpdate(w)
  <2>1. w.val \in Ids
    BY <1>2, <1>5 DEF CommitUpdate
  <2>2. /\ id' \in [Docs -> Ids \cup {None}]
        /\ myFirebaseId' \in [Phones -> Docs \cup {None}]
        /\ myId' \in [Phones -> Ids \cup {None}]
    BY <1>2, <1>5, <2>1 DEF CommitUpdate, StateTyped
  <2>3. page' \in [Phones -> {"launch", "login", "input", "tabs", "profile"}]
    <3>1. page' = [page EXCEPT ![w.ph] = "tabs"] \/ page' = page
      BY <1>5 DEF CommitUpdate
    <3>2. page \in [Phones -> {"launch", "login", "input", "tabs", "profile"}]
      BY DEF StateTyped
    <3>3. QED
      BY ONLY <3>1, <3>2
  <2>4. checks' \subseteq CheckCall /\ writes' \subseteq WriteCall
    <3>1. /\ checks' \in {Forsaken(checks, w.ph), checks}
          /\ writes' \in {Forsaken(writes \ {w}, w.ph), writes \ {w}}
      BY <1>5 DEF CommitUpdate
    <3>2. checks \subseteq CheckCall
      BY DEF StateTyped
    <3>3. QED
      BY ONLY <1>3, <3>1, <3>2
  <2>5. UNCHANGED <<userIdentifier, status, image, myIdentifier, form, signIns,
                    uploads, ops>>
    BY <1>5 DEF CommitUpdate
  <2>6. QED
    BY <2>2, <2>3, <2>4, <2>5 DEF StateTyped
<1>6. CASE CommitRemove(w)
  BY <1>2, <1>3, <1>6 DEF CommitRemove, StateTyped
<1>7. CASE CommitImage(w)
  BY <1>2, <1>3, <1>7 DEF CommitImage, StateTyped
<1>8. CASE FailWrite(w)
  BY <1>3, <1>8 DEF FailWrite, StateTyped
<1>9. QED
  BY <1>4, <1>5, <1>6, <1>7, <1>8

\* Uploads, restarts and lost calls.
LEMMA OtherTyped ==
    ASSUME StateTyped,
           \/ \E c \in uploads : PutData(c)
           \/ \E ph \in Phones : Reopen(ph)
           \/ Lose
    PROVE  StateTyped'
<1> USE DEF users, defaults, form, Show
<1>1. ASSUME NEW c \in uploads, PutData(c) PROVE StateTyped'
  <2>1. c \in UploadCall
    BY DEF StateTyped
  <2>2. [n |-> c.n, ph |-> c.ph, do |-> "image", apple |-> None,
         doc |-> myFirebaseId[c.ph], val |-> c.doc, awaited |-> "app"] \in WriteCall
    BY <2>1 DEF UploadCall, WriteCall, Waiting, StateTyped
  <2>3. QED
    BY <1>1, <2>2 DEF PutData, StateTyped
<1>2. ASSUME NEW ph \in Phones, Reopen(ph) PROVE StateTyped'
  <2>1. writes' \subseteq WriteCall
    BY <1>2, EndedTyped DEF Reopen, StateTyped
  <2>2. myIdentifier[ph] # None =>
          [n |-> 0, ph |-> ph, do |-> "launch", apple |-> myIdentifier[ph],
           awaited |-> "page"] \in SignInCall
    BY DEF StateTyped, SignInCall, Waiting
  <2>3. QED
    BY <1>2, <2>1, <2>2 DEF Reopen, StateTyped
<1>3. CASE Lose
  BY <1>3 DEF Lose, StateTyped
<1>4. QED
  BY <1>1, <1>2, <1>3

\* Every step leaves the types as they are.
LEMMA NextTyped == StateTyped /\ [Next]_vars => StateTyped'
<1> SUFFICES ASSUME StateTyped, [Next]_vars PROVE StateTyped'
  OBVIOUS
<1>1. ASSUME NEW ph \in Phones, Answer(ph) PROVE StateTyped'
  BY <1>1, SignInTyped, CheckTyped, CommitTyped, OtherTyped DEF Answer
<1>2. CASE UNCHANGED vars
  BY <1>2 DEF StateTyped, vars, users, defaults, form, calls
<1>3. QED
  BY <1>1, <1>2, TapTyped, OtherTyped DEF Next

\* Every variable keeps its type, whatever the answers and their order:
\* documents, user defaults, forms and calls never hold a value of another kind.
THEOREM TypeCorrect == Spec => []TypeOK
<1>1. Init => TypeOK
  <2>1. Init => hasty \in BOOLEAN
    BY DEF Init
  <2>2. QED
    BY <2>1, InitTyped DEF TypeOK
<1>2. TypeOK /\ [Next]_vars => TypeOK'
  <2>1. hasty \in BOOLEAN /\ [Next]_vars => hasty' \in BOOLEAN
    BY DEF Next, Hurries, Answer, vars
  <2>2. QED
    BY <2>1, NextTyped DEF TypeOK
<1>3. QED
  BY <1>1, <1>2, PTL DEF Spec

-----------------------------------------------------------------------------
(* The inductive invariant.  A document changes hands if a save that was    *)
(* started for one Apple user reaches the document of another, so what is   *)
(* known of the documents must be known of forms, checks and saves.         *)

\* Who fills in the form is known, and an earlier account in it is theirs.
FormSound ==
    \A ph \in Phones :
        /\ page[ph] = "input" => formIdentifier[ph] # None
        /\ formIdentifier[ph] # None /\ formFirebaseId[ph] # None =>
             userIdentifier[formFirebaseId[ph]] = formIdentifier[ph]

\* So it is for the id checks that the form has started,
ChecksSound ==
    \A c \in checks : c.do = "save" =>
        /\ c.apple # None
        /\ c.doc # None => userIdentifier[c.doc] = c.apple

\* and the saves that follow write nobody else's document, nor two of them the
\* same new document for two users.
SavesSound ==
    /\ \A w \in writes : w.do = "save" =>
         /\ w.doc # None /\ w.apple # None
         /\ userIdentifier[w.doc] \in {None, w.apple}
    /\ \A v, w \in writes :
         v.do = "save" /\ w.do = "save" /\ v.doc = w.doc => v.apple = w.apple

IInv == StateTyped /\ FormSound /\ ChecksSound /\ SavesSound /\ LaunchFinds

\* Documents keep their users in this step.
OwnersKept ==
    \A d \in Docs : userIdentifier[d] # None => userIdentifier'[d] = userIdentifier[d]

\* Without calls and accounts there is nothing to know.
LEMMA InitIInv == Init => IInv
<1>1. Init => FormSound /\ ChecksSound /\ SavesSound /\ LaunchFinds
  BY DEF Init, FormSound, ChecksSound, SavesSound, LaunchFinds
<1>2. QED
  BY <1>1, InitTyped DEF IInv

-----------------------------------------------------------------------------
(* Who changes what.                                                       *)

\* Only saves write user_identifier.
LEMMA WhoOwns ==
    [Next]_vars => \/ \E w \in writes : CommitSave(w)
                   \/ UNCHANGED userIdentifier
<1> SUFFICES ASSUME [Next]_vars, ~ \E w \in writes : CommitSave(w)
             PROVE  UNCHANGED userIdentifier
  OBVIOUS
<1> USE DEF users
<1>1. ASSUME NEW ph \in Phones, Tap(ph) PROVE UNCHANGED userIdentifier
  BY <1>1 DEF Tap, HandleLogIn, DoneInput, ChangeUserInfo, PushToInputProfile,
              Back, DeleteAccount, Logout, SaveProfileImage
<1>2. ASSUME NEW ph \in Phones, Answer(ph) PROVE UNCHANGED userIdentifier
  BY <1>2 DEF Answer, AnswerNobody, AnswerSomebody, AnswerProfile, AnswerLaunch,
              AnswerCheck, PutData, CommitUpdate, CommitRemove, CommitImage,
              FailWrite
<1>3. QED
  BY <1>1, <1>2 DEF Next, Reopen, Lose, vars

\* A document that is somebody's stays theirs.
LEMMA NextOwnersKept == IInv /\ [Next]_vars => OwnersKept
<1> SUFFICES ASSUME IInv, [Next]_vars PROVE OwnersKept
  OBVIOUS
<1>1. CASE UNCHANGED userIdentifier
  BY <1>1 DEF OwnersKept
<1>2. ASSUME NEW w \in writes, CommitSave(w) PROVE OwnersKept
  BY <1>2 DEF CommitSave, IInv, SavesSound, StateTyped, OwnersKept
<1>3. QED
  BY <1>1, <1>2, WhoOwns

\* The form changes when a page with a form is shown.
LEMMA WhoFills ==
    StateTyped /\ [Next]_vars =>
        \/ \E ph \in Phones : PushToInputProfile(ph)
        \/ \E c \in signIns : AnswerNobody(c) \/ AnswerProfile(c)
        \/ /\ UNCHANGED form
           /\ \A ph \in Phones : page'[ph] = "input" => page[ph] = "input"
<1> SUFFICES ASSUME StateTyped, [Next]_vars,
                    ~ \E ph \in Phones : PushToInputProfile(ph),
                    ~ \E c \in signIns : AnswerNobody(c) \/ AnswerProfile(c)
             PROVE  /\ UNCHANGED form
                    /\ \A ph \in Phones : page'[ph] = "input" => page[ph] = "input"
  OBVIOUS
<1> USE DEF LeaveFor, Show, StateTyped
<1>1. ASSUME NEW ph \in Phones, Tap(ph)
      PROVE  /\ UNCHANGED form
             /\ \A q \in Phones : page'[q] = "input" => page[q] = "input"
  BY <1>1 DEF Tap, HandleLogIn, DoneInput, ChangeUserInfo, Back, DeleteAccount,
              Logout, SaveProfileImage
<1>2. ASSUME NEW ph \in Phones, Answer(ph)
      PROVE  /\ UNCHANGED form
             /\ \A q \in Phones : page'[q] = "input" => page[q] = "input"
  <2>1. ASSUME NEW c \in signIns, AnswerSomebody(c) \/ AnswerLaunch(c)
        PROVE  /\ UNCHANGED form
               /\ \A q \in Phones : page'[q] = "input" => page[q] = "input"
    BY <2>1 DEF AnswerSomebody, AnswerLaunch
  <2>2. ASSUME NEW w \in writes, CommitSave(w) \/ CommitUpdate(w)
        PROVE  /\ UNCHANGED form
               /\ \A q \in Phones : page'[q] = "input" => page[q] = "input"
    BY <2>2 DEF CommitSave, CommitUpdate
  <2>3. QED
    BY <1>2, <2>1, <2>2 DEF Answer, AnswerCheck, PutData, CommitRemove,
                            CommitImage, FailWrite
<1>3. ASSUME NEW ph \in Phones, Reopen(ph)
      PROVE  /\ UNCHANGED form
             /\ \A q \in Phones : page'[q] = "input" => page[q] = "input"
  BY <1>3 DEF Reopen
<1>4. QED
  BY <1>1, <1>2, <1>3 DEF Next, Lose, vars

\* Two calls that ask or write the same for the same user and document.
Alike(b, c) == b.do = c.do /\ b.apple = c.apple /\ b.doc = c.doc

\* Leaving a page keeps what its calls are about.
LEMMA ForsakenAlike ==
    ASSUME NEW ph \in Phones, NEW cs,
           cs \subseteq CheckCall \/ cs \subseteq WriteCall,
           NEW c \in Forsaken(cs, ph)
    PROVE  \E b \in cs : Alike(b, c)
<1>1. PICK b \in cs : c = IF b.ph = ph /\ b.awaited = "page"
                         THEN [b EXCEPT !.awaited = "app"] ELSE b
  BY DEF Forsaken
<1>2. Alike(b, c)
  BY <1>1 DEF Alike, CheckCall, WriteCall
<1>3. QED
  BY <1>2

\* Retargeting changes the id to save, nothing else.
LEMMA RetargetedAlike ==
    ASSUME StateTyped, NEW ph \in Phones, NEW i \in Ids, NEW c \in Retargeted(ph, i)
    PROVE  \E b \in checks : Alike(b, c)
<1>1. PICK b \in checks : c = IF b.ph = ph /\ b.do = "change" /\ b.awaited = "page"
                             THEN [b EXCEPT !.to = i] ELSE b
  BY DEF Retargeted
<1>2. Alike(b, c)
  BY <1>1 DEF Alike, CheckCall, StateTyped
<1>3. QED
  BY <1>2

\* Only the form starts checks that save a whole profile.
LEMMA WhoChecks ==
    ASSUME StateTyped, [Next]_vars, NEW c \in checks', c.do = "save"
    PROVE  \/ \E ph \in Phones, i \in Ids : DoneInput(ph, i)
           \/ \E b \in checks : Alike(b, c)
<1> SUFFICES ASSUME ~ \E ph \in Phones, i \in Ids : DoneInput(ph, i)
             PROVE  \E b \in checks : Alike(b, c)
  OBVIOUS
<1>0. c \in checks => \E b \in checks : Alike(b, c)
  BY DEF Alike
<1>1. ASSUME NEW ph \in Phones, c \in Forsaken(checks, ph)
      PROVE  \E b \in checks : Alike(b, c)
  BY <1>1, ForsakenAlike DEF StateTyped
<1>2. ASSUME NEW ph \in Phones, Tap(ph) PROVE \E b \in checks : Alike(b, c)
  <2>1. ASSUME NEW i \in Ids, ChangeUserInfo(ph, i)
        PROVE  \E b \in checks : Alike(b, c)
    <3>1. c \in Retargeted(ph, i)
      BY <2>1 DEF ChangeUserInfo
    <3>2. QED
      BY <3>1, RetargetedAlike
  <2>2. QED
    BY <1>0, <1>1, <1>2, <2>1
       DEF Tap, HandleLogIn, PushToInputProfile, Back, DeleteAccount, Logout,
           SaveProfileImage, LeaveFor, calls
<1>3. ASSUME NEW ph \in Phones, Answer(ph) PROVE \E b \in checks : Alike(b, c)
  <2>1. ASSUME NEW w \in writes, CommitSave(w) \/ CommitUpdate(w)
        PROVE  \E b \in checks : Alike(b, c)
    <3>1. w.ph \in Phones
      BY DEF StateTyped, WriteCall
    <3>2. QED
      BY <1>0, <1>1, <2>1, <3>1 DEF CommitSave, CommitUpdate, LeaveFor
  <2>2. ASSUME NEW b \in checks, AnswerCheck(b) PROVE c \in checks
    BY <2>2 DEF AnswerCheck
  <2>3. QED
    BY <1>0, <1>3, <2>1, <2>2
       DEF Answer, AnswerNobody, AnswerSomebody, AnswerProfile, AnswerLaunch,
           PutData, CommitRemove, CommitImage, FailWrite
<1>4. QED
  BY <1>0, <1>2, <1>3 DEF Next, Reopen, Lose, vars, calls

\* Only a check that was answered starts a save.
LEMMA WhoSaves ==
    ASSUME StateTyped, [Next]_vars, ~ \E c \in checks : AnswerCheck(c),
           NEW w \in writes', w.do = "save"
    PROVE  \E b \in writes : Alike(b, w)
<1>0. w \in writes => \E b \in writes : Alike(b, w)
  BY DEF Alike
<1>1. ASSUME NEW ph \in Phones, NEW ws, ws \subseteq writes, w \in Forsaken(ws, ph)
      PROVE  \E b \in writes : Alike(b, w)
  BY <1>1, ForsakenAlike DEF StateTyped
<1>2. ASSUME NEW ph \in Phones, Tap(ph) PROVE \E b \in writes : Alike(b, w)
  <2>1. CASE Back(ph)
    BY <1>1, <2>1 DEF Back
  <2>2. CASE DeleteAccount(ph)
    BY <1>1, <2>2 DEF DeleteAccount
  <2>3. ASSUME NEW i \in Ids, ChangeUserInfo(ph, i) PROVE w \in writes
    BY <2>3 DEF ChangeUserInfo
  <2>4. QED
    BY <1>0, <1>2, <2>1, <2>2, <2>3
       DEF Tap, HandleLogIn, DoneInput, PushToInputProfile, Logout,
           SaveProfileImage, calls
<1>3. ASSUME NEW ph \in Phones, Answer(ph) PROVE \E b \in writes : Alike(b, w)
  <2>1. ASSUME NEW v \in writes, CommitSave(v) \/ CommitUpdate(v)
        PROVE  \E b \in writes : Alike(b, w)
    <3>1. v.ph \in Phones
      BY DEF StateTyped, WriteCall
    <3>2. w \in writes \/ w \in Forsaken(writes \ {v}, v.ph)
      BY <2>1 DEF CommitSave, CommitUpdate
    <3>3. QED
      BY <1>0, <1>1, <3>1, <3>2
  <2>2. ASSUME NEW c \in uploads, PutData(c) PROVE w \in writes
    BY <2>2 DEF PutData
  <2>3. QED
    BY <1>0, <1>3, <2>1, <2>2
       DEF Answer, AnswerNobody, AnswerSomebody, AnswerProfile, AnswerLaunch,
           CommitRemove, CommitImage, FailWrite
<1>4. ASSUME NEW ph \in Phones, Reopen(ph) PROVE \E b \in writes : Alike(b, w)
  <2>1. PICK b \in writes :
          w = IF b.ph = ph THEN [b EXCEPT !.awaited = "nobody"] ELSE b
    BY <1>4 DEF Reopen
  <2>2. Alike(b, w)
    BY <2>1 DEF Alike, StateTyped, WriteCall
  <2>3. QED
    BY <2>2
<1>5. QED
  BY <1>0, <1>2, <1>3, <1>4 DEF Next, Lose, vars, calls

-----------------------------------------------------------------------------
(* The parts of the invariant.                                             *)

\* A form is filled with nothing, with the user's earlier account, or, on the
\* profile page, without an Apple user.
LEMMA NextFormSound == IInv /\ [Next]_vars => FormSound'
<1> SUFFICES ASSUME IInv, [Next]_vars PROVE FormSound'
  OBVIOUS
<1> USE DEF IInv, FormSound, StateTyped
<1>0. OwnersKept
  BY NextOwnersKept
<1>1. ASSUME NEW ph \in Phones, PushToInputProfile(ph) PROVE FormSound'
  BY <1>0, <1>1 DEF PushToInputProfile, Show, users, OwnersKept
<1>2. ASSUME NEW c \in signIns, AnswerNobody(c) PROVE FormSound'
  <2>1. c.ph \in Phones /\ c.apple \in AppleUsers /\ c.apple # None
    BY AccountAssumption DEF SignInCall
  <2>2. UNCHANGED userIdentifier
    BY <1>2 DEF AnswerNobody, users
  <2>3. CASE UNCHANGED <<page, form>>
    BY <2>2, <2>3 DEF form
  <2>4. CASE /\ Show(c.ph, "input")
             /\ formFirebaseId' = [formFirebaseId EXCEPT ![c.ph] = None]
             /\ formIdentifier' = [formIdentifier EXCEPT ![c.ph] = c.apple]
    BY <2>1, <2>2, <2>4 DEF Show
  <2>5. QED
    BY <1>2, <2>3, <2>4 DEF AnswerNobody
<1>3. ASSUME NEW c \in signIns, AnswerProfile(c) PROVE FormSound'
  <2>1. c.ph \in Phones /\ c.apple \in AppleUsers /\ c.apple # None
    BY AccountAssumption DEF SignInCall
  <2>2. UNCHANGED userIdentifier
    BY <1>3 DEF AnswerProfile, users
  <2>3. CASE UNCHANGED form /\ \A ph \in Phones : page'[ph] = "input" => page[ph] = "input"
    BY <2>2, <2>3 DEF form
  <2>4. CASE /\ Show(c.ph, "input")
             /\ \E first \in Accounts(c.apple) :
                  formFirebaseId' = [formFirebaseId EXCEPT ![c.ph] = first]
             /\ formIdentifier' = [formIdentifier EXCEPT ![c.ph] = c.apple]
    BY <2>1, <2>2, <2>4 DEF Accounts, Show
  <2>5. QED
    BY <1>3, <2>3, <2>4 DEF AnswerProfile, Show, form
<1>4. CASE /\ UNCHANGED form
           /\ \A ph \in Phones : page'[ph] = "input" => page[ph] = "input"
  BY <1>0, <1>4 DEF form, OwnersKept
<1>5. QED
  BY <1>1, <1>2, <1>3, <1>4, WhoFills

\* A check asks for the user of the form, whose account stays theirs.
LEMMA NextChecksSound == IInv /\ [Next]_vars => ChecksSound'
<1> SUFFICES ASSUME IInv, [Next]_vars,
                    NEW c \in checks', c.do = "save"
             PROVE  /\ c.apple # None
                    /\ c.doc # None => userIdentifier'[c.doc] = c.apple
  BY DEF ChecksSound
<1>1. OwnersKept
  BY NextOwnersKept
<1>2. ASSUME NEW b \in checks, Alike(b, c)
      PROVE  /\ c.apple # None
             /\ c.doc # None => userIdentifier'[c.doc] = c.apple
  <2>1. b.doc \in Docs \cup {None}
    BY DEF IInv, StateTyped, CheckCall
  <2>2. QED
    BY <1>1, <1>2, <2>1 DEF IInv, ChecksSound, Alike, OwnersKept
<1>3. ASSUME NEW ph \in Phones, NEW i \in Ids, DoneInput(ph, i)
      PROVE  /\ c.apple # None
             /\ c.doc # None => userIdentifier'[c.doc] = c.apple
  <2>1. CASE c \in checks
    BY <1>2, <2>1 DEF Alike
  <2>2. CASE c.apple = formIdentifier[ph] /\ c.doc = formFirebaseId[ph]
    BY <1>3, <2>2 DEF DoneInput, IInv, FormSound, users
  <2>3. QED
    BY <1>3, <2>1, <2>2 DEF DoneInput
<1>4. QED
  BY <1>2, <1>3, WhoChecks DEF IInv

\* Saves that are committed or forgotten leave sound ones; a new one goes to the
\* document of its check, or to one that no other write is for.
LEMMA NextSavesSound == IInv /\ [Next]_vars => SavesSound'
<1> SUFFICES ASSUME IInv, [Next]_vars PROVE SavesSound'
  OBVIOUS
<1> USE DEF IInv
<1>1. OwnersKept
  BY NextOwnersKept
<1>2. CASE ~ \E c \in checks : AnswerCheck(c)
  <2>1. \A w \in writes' : w.do = "save" => \E b \in writes : Alike(b, w)
    BY <1>2, WhoSaves
  <2>2. \A v, w \in writes' :
          v.do = "save" /\ w.do = "save" /\ v.doc = w.doc => v.apple = w.apple
    BY <2>1 DEF SavesSound, Alike
  <2>3. ASSUME NEW w \in writes', w.do = "save"
        PROVE  /\ w.doc # None /\ w.apple # None
               /\ userIdentifier'[w.doc] \in {None, w.apple}
    <3>1. PICK b \in writes : Alike(b, w)
      BY <2>1, <2>3
    <3>2. /\ w.doc \in Docs /\ w.doc # None /\ w.apple # None
          /\ userIdentifier[w.doc] \in {None, w.apple}
      BY <2>3, <3>1 DEF SavesSound, Alike, StateTyped, WriteCall
    <3>3. CASE UNCHANGED userIdentifier
      BY <3>2, <3>3
    <3>4. ASSUME NEW v \in writes, CommitSave(v)
          PROVE  userIdentifier'[w.doc] \in {None, w.apple}
      <4>1. v.doc = w.doc => v.apple = w.apple
        BY <2>3, <3>1, <3>4 DEF CommitSave, SavesSound, Alike
      <4>2. QED
        BY <3>2, <3>4, <4>1 DEF CommitSave, StateTyped
    <3>5. QED
      BY <3>2, <3>3, <3>4, WhoOwns
  <2>4. QED
    BY <2>2, <2>3 DEF SavesSound
<1>3. ASSUME NEW c \in checks, AnswerCheck(c) PROVE SavesSound'
  <2>1. UNCHANGED userIdentifier
    BY <1>3 DEF AnswerCheck, users
  <2>2. CASE UNCHANGED writes
    BY <2>1, <2>2 DEF SavesSound
  <2>3. CASE ~UNCHANGED writes
    <3>1. PICK d \in IF c.do = "save" THEN DocOf(c) ELSE {c.doc} :
            writes' = writes \cup
              {[n |-> c.n, ph |-> c.ph,
                do |-> IF c.do = "save" THEN "save" ELSE "update",
                apple |-> c.apple, doc |-> d, val |-> c.to,
                awaited |-> c.awaited]}
      BY <1>3, <2>3 DEF AnswerCheck
    <3>2. CASE c.do # "save"
      BY <2>1, <3>1, <3>2 DEF SavesSound
    <3>3. CASE c.do = "save"
      <4>1. /\ d # None /\ c.apple # None
            /\ userIdentifier[d] \in {None, c.apple}
            /\ \A w \in writes : w.do = "save" /\ w.doc = d => w.apple = c.apple
        <5>1. CASE c.doc # None
          BY <3>1, <3>3, <5>1 DEF DocOf, ChecksSound, SavesSound
        <5>2. CASE c.doc = None
          BY <3>1, <3>3, <5>2, AccountAssumption DEF DocOf, New, ChecksSound
        <5>3. QED
          BY <5>1, <5>2
      <4>2. QED
        BY <2>1, <3>1, <3>3, <4>1 DEF SavesSound
    <3>4. QED
      BY <3>2, <3>3
  <2>4. QED
    BY <2>2, <2>3
<1>4. QED
  BY <1>2, <1>3

\* The user identifier is remembered for somebody who has, or now gets, a
\* document, and no document is lost.
LEMMA NextLaunchFinds == IInv /\ [Next]_vars => LaunchFinds'
<1> SUFFICES ASSUME IInv, [Next]_vars,
                    NEW ph \in Phones, myIdentifier'[ph] # None
             PROVE  \E d \in Docs : userIdentifier'[d] = myIdentifier'[ph]
  BY DEF LaunchFinds, Accounts
<1> USE DEF IInv, StateTyped
<1>1. CASE myIdentifier'[ph] = myIdentifier[ph]
  BY <1>1, NextOwnersKept DEF LaunchFinds, Accounts, OwnersKept
<1>2. ASSUME NEW w \in writes, CommitSave(w), myIdentifier'[ph] # myIdentifier[ph]
      PROVE  \E d \in Docs : userIdentifier'[d] = myIdentifier'[ph]
  <2>1. w.doc \in Docs /\ w.ph \in Phones
    BY <1>2 DEF CommitSave, SavesSound, WriteCall
  <2>2. myIdentifier'[ph] = w.apple /\ userIdentifier'[w.doc] = w.apple
    BY <1>2, <2>1 DEF CommitSave, defaults
  <2>3. QED
    BY <2>1, <2>2
<1>3. ASSUME NEW c \in signIns, AnswerProfile(c), myIdentifier'[ph] # myIdentifier[ph]
      PROVE  \E d \in Docs : userIdentifier'[d] = myIdentifier'[ph]
  <2>1. c.ph \in Phones
    BY DEF SignInCall
  <2>2. myIdentifier'[ph] = c.apple
    BY <1>3, <2>1 DEF AnswerProfile
  <2>3. UNCHANGED userIdentifier /\ Accounts(c.apple) # {}
    BY <1>3 DEF AnswerProfile, users
  <2>4. QED
    BY <2>2, <2>3 DEF Accounts
<1>4. ASSUME ~ \E w \in writes : CommitSave(w),
             ~ \E c \in signIns : AnswerProfile(c)
      PROVE  myIdentifier'[ph] \in {None, myIdentifier[ph]}
  <2> USE DEF defaults, DeleteUserDefault
  <2>1. ASSUME NEW q \in Phones, Tap(q)
        PROVE  myIdentifier'[ph] \in {None, myIdentifier[ph]}
    BY <2>1 DEF Tap, HandleLogIn, DoneInput, ChangeUserInfo, PushToInputProfile,
                Back, DeleteAccount, Logout, SaveProfileImage
  <2>2. ASSUME NEW q \in Phones, Answer(q)
        PROVE  myIdentifier'[ph] \in {None, myIdentifier[ph]}
    <3>1. ASSUME NEW c \in signIns,
                 AnswerNobody(c) \/ AnswerSomebody(c) \/ AnswerLaunch(c)
          PROVE  UNCHANGED myIdentifier
      BY <3>1 DEF AnswerNobody, AnswerSomebody, AnswerLaunch
    <3>2. ASSUME \/ \E c \in checks : AnswerCheck(c)
                 \/ \E c \in uploads : PutData(c)
          PROVE  UNCHANGED myIdentifier
      BY <3>2 DEF AnswerCheck, PutData
    <3>3. ASSUME NEW w \in writes, CommitUpdate(w) \/ CommitImage(w) \/ FailWrite(w)
          PROVE  UNCHANGED myIdentifier
      BY <3>3 DEF CommitUpdate, CommitImage, FailWrite
    <3>4. ASSUME NEW w \in writes, CommitRemove(w)
          PROVE  myIdentifier'[ph] \in {None, myIdentifier[ph]}
      BY <3>4 DEF CommitRemove
    <3>5. QED
      BY <1>4, <2>2, <3>1, <3>2, <3>3, <3>4 DEF Answer
  <2>3. QED
    BY <2>1, <2>2 DEF Next, Reopen, Lose, vars
<1>5. QED
  BY <1>1, <1>2, <1>3, <1>4

-----------------------------------------------------------------------------
(* The theorems.                                                           *)

\* Every step keeps the invariant.
LEMMA NextIInv == IInv /\ [Next]_vars => IInv'
BY NextTyped, NextFormSound, NextChecksSound, NextSavesSound, NextLaunchFinds
   DEF IInv

\* What forms, id checks and saves know of documents is always true: each is
\* about a document of its own Apple user, or about a new one of its own.
THEOREM InductiveInvariant == Spec => []IInv
BY InitIInv, NextIInv, PTL DEF Spec

\* saveProfileInfo, called for whatever form and answered in whatever session,
\* never turns a users document into that of another Apple user.
THEOREM OwnersNeverChange == Spec => OwnerFixed
<1>1. IInv /\ [Next]_vars =>
        [\A d \in Docs : userIdentifier[d] # None =>
            userIdentifier'[d] = userIdentifier[d]]_vars
  BY NextOwnersKept DEF OwnersKept
<1>2. QED
  BY <1>1, InductiveInvariant, PTL DEF Spec, OwnerFixed

\* SceneDelegate's launch always finds the account of the user identifier it
\* reads from the user defaults.
THEOREM LaunchAlwaysFinds == Spec => []LaunchFinds
<1>1. IInv => LaunchFinds
  BY DEF IInv
<1>2. QED
  BY <1>1, InductiveInvariant, PTL

-----------------------------------------------------------------------------
(* The launch.                                                             *)

\* Query c is that of the launch page of phone ph, and will find an account.
WillLaunch(ph, c) == c.ph = ph /\ c.do = "launch" /\ Accounts(c.apple) # {}

\* SceneDelegate: while nobody has hurried and no call has failed, a launch page
\* has a query under way that will show the tabs.
LaunchIsAwaited ==
    ~hasty => \A ph \in Phones : page[ph] = "launch" =>
                \E c \in signIns : WillLaunch(ph, c)

\* A query that is left by its page is still the same query.
LEMMA ForsakenQueries ==
    ASSUME NEW cs, cs \subseteq SignInCall, NEW q, NEW c \in cs
    PROVE  \E b \in Forsaken(cs, q) : b.ph = c.ph /\ b.do = c.do /\ b.apple = c.apple
<1>1. PICK b : b = IF c.ph = q /\ c.awaited = "page"
                   THEN [c EXCEPT !.awaited = "app"] ELSE c
  OBVIOUS
<1>2. b \in Forsaken(cs, q)
  BY <1>1 DEF Forsaken
<1>3. b.ph = c.ph /\ b.do = c.do /\ b.apple = c.apple
  BY <1>1 DEF SignInCall
<1>4. QED
  BY <1>2, <1>3

\* Accounts found once are found again.
LEMMA AccountsStay ==
    ASSUME IInv, [Next]_vars, NEW a \in AppleUsers, Accounts(a) # {}
    PROVE  Accounts(a)' # {}
<1>1. PICK d \in Docs : userIdentifier[d] = a
  BY DEF Accounts
<1>2. userIdentifier'[d] = a
  BY <1>1, NextOwnersKept, AccountAssumption DEF OwnersKept
<1>3. QED
  BY <1>2 DEF Accounts

\* An answer that does not show the tabs leaves the query of the launch page.
LEMMA AnswersKeepLaunch ==
    ASSUME IInv, NEW q \in Phones, Answer(q), NEW ph \in Phones,
           page'[ph] = "launch", NEW c \in signIns, WillLaunch(ph, c)
    PROVE  \E b \in signIns' : b.ph = c.ph /\ b.do = c.do /\ b.apple = c.apple
<1>1. signIns \subseteq SignInCall /\ page \in [Phones -> {"launch", "login", "input",
                                                        "tabs", "profile"}]
  BY DEF IInv, StateTyped
<1>2. ASSUME NEW b \in signIns,
             AnswerNobody(b) \/ AnswerSomebody(b) \/ AnswerProfile(b)
      PROVE  \E e \in signIns' : e.ph = c.ph /\ e.do = c.do /\ e.apple = c.apple
  <2>1. b.do # "launch"
    BY <1>2 DEF AnswerNobody, AnswerSomebody, AnswerProfile
  <2>2. c \in signIns \ {b} /\ signIns \ {b} \subseteq SignInCall
    BY <1>1, <2>1 DEF WillLaunch
  <2>3. \/ signIns' = Forsaken(signIns \ {b}, b.ph)
        \/ signIns \ {b} \subseteq signIns'
    BY <1>2 DEF AnswerNobody, AnswerSomebody, AnswerProfile
  <2>4. QED
    BY <2>2, <2>3, ForsakenQueries
<1>3. ASSUME NEW b \in signIns, AnswerLaunch(b) PROVE c \in signIns'
  <2>1. ASSUME b = c PROVE FALSE
    <3>1. page' = [page EXCEPT ![ph] = "tabs"]
      BY <1>3, <2>1 DEF AnswerLaunch, WillLaunch, Show
    <3>2. QED
      BY <1>1, <3>1
  <2>2. QED
    BY <1>3, <2>1 DEF AnswerLaunch
<1>4. ASSUME \/ \E b \in checks : AnswerCheck(b)
             \/ \E b \in uploads : PutData(b)
      PROVE  signIns' = signIns
  BY <1>4 DEF AnswerCheck, PutData
<1>5. ASSUME NEW w \in writes, \/ CommitSave(w) \/ CommitUpdate(w) \/ CommitRemove(w)
                              \/ CommitImage(w) \/ FailWrite(w)
      PROVE  signIns' = signIns
  BY <1>5 DEF CommitSave, CommitUpdate, CommitRemove, CommitImage, FailWrite
<1>6. QED
  BY <1>2, <1>3, <1>4, <1>5 DEF Answer

\* Only a restart shows the launch page.
LEMMA WhoLaunches ==
    ASSUME IInv, [Next]_vars, NEW ph \in Phones, page'[ph] = "launch"
    PROVE  page[ph] = "launch" \/ Reopen(ph)
<1> USE DEF Show, LeaveFor
<1>1. page \in [Phones -> {"launch", "login", "input", "tabs", "profile"}]
  BY DEF IInv, StateTyped
<1>2. ASSUME NEW q, NEW p, p # "launch", UNCHANGED page \/ page' = [page EXCEPT ![q] = p]
      PROVE  page[ph] = "launch"
  BY <1>1, <1>2
<1>3. ASSUME NEW q \in Phones, Tap(q)
      PROVE  \E p : p # "launch" /\ (UNCHANGED page \/ page' = [page EXCEPT ![q] = p])
  BY <1>3 DEF Tap, HandleLogIn, DoneInput, ChangeUserInfo, PushToInputProfile, Back,
              DeleteAccount, Logout, SaveProfileImage
<1>4. ASSUME NEW c \in signIns, \/ AnswerNobody(c) \/ AnswerSomebody(c)
                                \/ AnswerProfile(c) \/ AnswerLaunch(c)
      PROVE  \E p : p # "launch" /\ (UNCHANGED page \/ page' = [page EXCEPT ![c.ph] = p])
  BY <1>4 DEF AnswerNobody, AnswerSomebody, AnswerProfile, AnswerLaunch
<1>5. ASSUME \/ \E c \in checks : AnswerCheck(c)
             \/ \E c \in uploads : PutData(c)
      PROVE  UNCHANGED page
  BY <1>5 DEF AnswerCheck, PutData
<1>6. ASSUME NEW w \in writes, \/ CommitSave(w) \/ CommitUpdate(w) \/ CommitRemove(w)
                              \/ CommitImage(w) \/ FailWrite(w)
      PROVE  UNCHANGED page \/ page' = [page EXCEPT ![w.ph] = "tabs"]
  BY <1>6 DEF CommitSave, CommitUpdate, CommitRemove, CommitImage, FailWrite
<1>7. ASSUME NEW q \in Phones, Reopen(q), q # ph PROVE page[ph] = "launch"
  BY <1>1, <1>7 DEF Reopen
<1>8. Lose \/ UNCHANGED vars => UNCHANGED page
  BY DEF Lose, vars
<1>9. ASSUME NEW q \in Phones, Answer(q) PROVE page[ph] = "launch"
  BY <1>2, <1>4, <1>5, <1>6, <1>9 DEF Answer
<1>10. QED
  BY <1>2, <1>3, <1>7, <1>8, <1>9 DEF Next

\* A launch page keeps its query, and gets one whenever it is shown.
LEMMA NextLaunchAwaited ==
    ASSUME IInv, LaunchIsAwaited, [Next]_vars
    PROVE  LaunchIsAwaited'
<1> SUFFICES ASSUME ~hasty', NEW ph \in Phones, page'[ph] = "launch"
             PROVE  \E c \in signIns' : WillLaunch(ph, c)'
  BY DEF LaunchIsAwaited
<1>1. ~hasty
  BY DEF Next, Hurries, Answer, vars
<1>2. signIns \subseteq SignInCall
  BY DEF IInv, StateTyped
<1>3. CASE Reopen(ph)
  <2>1. myIdentifier[ph] # None
    BY <1>3 DEF Reopen, Show, IInv, StateTyped
  <2>2. myIdentifier[ph] \in AppleUsers /\ Accounts(myIdentifier[ph]) # {}
    BY <2>1 DEF IInv, StateTyped, LaunchFinds
  <2>3. PICK c : c = [n |-> 0, ph |-> ph, do |-> "launch",
                      apple |-> myIdentifier[ph], awaited |-> "page"]
    OBVIOUS
  <2>4. c \in signIns'
    BY <1>3, <2>1, <2>3 DEF Reopen
  <2>5. c.ph = ph /\ c.do = "launch" /\ c.apple = myIdentifier[ph]
    BY <2>3
  <2>6. QED
    BY <2>2, <2>4, <2>5, AccountsStay DEF WillLaunch
<1>4. CASE ~Reopen(ph)
  <2>1. PICK c \in signIns : WillLaunch(ph, c)
    BY <1>1, <1>4, WhoLaunches DEF LaunchIsAwaited
  <2>2. c.apple \in AppleUsers /\ Accounts(c.apple) # {}
    BY <1>2, <2>1 DEF WillLaunch, SignInCall
  <2>3. ASSUME NEW q \in Phones, Tap(q) PROVE c \in signIns'
    BY <2>3 DEF Tap, HandleLogIn, DoneInput, ChangeUserInfo, PushToInputProfile,
                Back, DeleteAccount, Logout, SaveProfileImage, calls
  <2>4. ASSUME NEW q \in Phones, Reopen(q) PROVE c \in signIns'
    BY <1>4, <2>1, <2>4 DEF Reopen, WillLaunch
  <2>5. ASSUME UNCHANGED vars PROVE c \in signIns'
    BY <2>5 DEF vars, calls
  <2>6. PICK b \in signIns' : b.ph = c.ph /\ b.do = c.do /\ b.apple = c.apple
    BY <2>1, <2>3, <2>4, <2>5, AnswersKeepLaunch DEF Next
  <2>7. QED
    BY <2>1, <2>2, <2>6, AccountsStay DEF WillLaunch
<1>5. QED
  BY <1>3, <1>4

\* SceneDelegate's query of the launch is never lost without a failure, whatever
\* other calls the phone still has under way, and always finds an account.
THEOREM LaunchAlwaysAwaited == Spec => []LaunchIsAwaited
<1>1. Init => LaunchIsAwaited
  BY DEF Init, LaunchIsAwaited
<1>2. QED
  BY <1>1, NextLaunchAwaited, InductiveInvariant, PTL DEF Spec

-----------------------------------------------------------------------------
(* Patient users, on phones that share nobody.  As long as nothing is hasty *)
(* a phone waits for at most one call, and page, user defaults, form and    *)
(* call are at one point of one of its flows.                               *)

\* Nobody signs in on two phones.
OwnPhones == \A p, q \in Phones : signers[p] \cap signers[q] # {} => p = q

\* The calls of cs that phone ph has started.
OfPhone(cs, ph) == {c \in cs : c.ph = ph}

\* The calls in flight of phone ph.
InFlight(ph, ss, cs, us, ws) ==
    /\ OfPhone(signIns, ph) = ss
    /\ OfPhone(checks, ph) = cs
    /\ OfPhone(uploads, ph) = us
    /\ OfPhone(writes, ph) = ws

\* The user defaults tell what the one document of their user tells.
SignedIn(ph) ==
    /\ myIdentifier[ph] \in signers[ph]
    /\ myFirebaseId[ph] \in Docs
    /\ Accounts(myIdentifier[ph]) = {myFirebaseId[ph]}
    /\ id[myFirebaseId[ph]] = myId[ph]
    /\ status[myFirebaseId[ph]] = "active"

\* The form is filled in by somebody without a document, or with the one document
\* that it will go to.
FormFilled(ph) ==
    /\ myIdentifier[ph] = None
    /\ formIdentifier[ph] \in signers[ph]
    /\ Accounts(formIdentifier[ph]) =
         IF formFirebaseId[ph] = None THEN {} ELSE {formFirebaseId[ph]}

\* The profile page is about the document of the user who is signed in.
EditsOwn(ph) == SignedIn(ph) /\ formFirebaseId[ph] = myFirebaseId[ph]

\* Where the flows of a phone may wait for a tap,
AtRest(ph) ==
    \/ page[ph] = "login" /\ myIdentifier[ph] = None
    \/ page[ph] = "input" /\ FormFilled(ph)
    \/ page[ph] = "tabs" /\ SignedIn(ph)
    \/ page[ph] = "profile" /\ EditsOwn(ph)

\* for query c by user identifier,
SigningIn(ph, c) ==
    /\ c.awaited = "page"
    /\ \/ /\ page[ph] = "login" /\ myIdentifier[ph] = None
          /\ c.apple \in signers[ph]
          /\ c.do = "login" \/ (c.do = "profile" /\ Accounts(c.apple) # {})
       \/ /\ page[ph] = "launch" /\ SignedIn(ph)
          /\ c.do = "launch" /\ c.apple = myIdentifier[ph]

\* for query c by id,
Checking(ph, c) ==
    /\ c.awaited = "page" /\ c.to = c.id
    /\ \/ /\ page[ph] = "input" /\ FormFilled(ph)
          /\ c.do = "save"
          /\ c.apple = formIdentifier[ph] /\ c.doc = formFirebaseId[ph]
       \/ /\ page[ph] = "profile" /\ EditsOwn(ph)
          /\ c.do = "change" /\ c.doc = myFirebaseId[ph]

\* for picture c to have its URL,
Uploading(ph, c) == page[ph] = "tabs" /\ SignedIn(ph) /\ c.doc = myFirebaseId[ph]

\* and for write w to be committed.
Writing(ph, w) ==
    \/ /\ page[ph] = "input" /\ FormFilled(ph)
       /\ w.do = "save" /\ w.awaited = "page"
       /\ w.apple = formIdentifier[ph] /\ formFirebaseId[ph] \in {None, w.doc}
    \/ /\ page[ph] = "profile" /\ EditsOwn(ph)
       /\ w.do = "update" /\ w.awaited = "page" /\ w.doc = myFirebaseId[ph]
    \/ /\ page[ph] = "login" /\ SignedIn(ph)
       /\ w.do = "remove" /\ w.awaited = "app" /\ w.doc = myFirebaseId[ph]
    \/ /\ page[ph] = "tabs" /\ SignedIn(ph)
       /\ w.do = "image" /\ w.awaited = "app" /\ w.doc = myFirebaseId[ph]
       /\ w.val = w.doc

\* Phone ph is at one point of one flow.
Session(ph) ==
    \/ InFlight(ph, {}, {}, {}, {}) /\ AtRest(ph)
    \/ \E c \in signIns : InFlight(ph, {c}, {}, {}, {}) /\ SigningIn(ph, c)
    \/ \E c \in checks : InFlight(ph, {}, {c}, {}, {}) /\ Checking(ph, c)
    \/ \E c \in uploads : InFlight(ph, {}, {}, {c}, {}) /\ Uploading(ph, c)
    \/ \E w \in writes : InFlight(ph, {}, {}, {}, {w}) /\ Writing(ph, w)

\* What is always known, and what is known as long as nobody has hurried and no
\* call has failed.
PatientInv ==
    IInv /\ (~hasty => OneAccount /\ \A ph \in Phones : Session(ph))

-----------------------------------------------------------------------------
(* Calls of a phone.                                                       *)

\* A phone that leaves a page touches no call of another one.
LEMMA OfPhoneForsaken ==
    ASSUME NEW q \in Phones, NEW ph \in Phones, NEW cs,
           \/ cs \subseteq SignInCall \/ cs \subseteq CheckCall \/ cs \subseteq WriteCall,
           ph # q \/ OfPhone(cs, q) = {}
    PROVE  OfPhone(Forsaken(cs, q), ph) = OfPhone(cs, ph)
<1>1. ASSUME NEW c \in cs
      PROVE  [c EXCEPT !.awaited = "app"].ph = c.ph
  BY DEF SignInCall, CheckCall, WriteCall
<1>2. \A c \in cs : c.ph = q => ph # q
  BY DEF OfPhone
<1>3. ASSUME NEW c \in OfPhone(Forsaken(cs, q), ph) PROVE c \in OfPhone(cs, ph)
  BY <1>1, <1>2, <1>3 DEF OfPhone, Forsaken
<1>4. ASSUME NEW c \in OfPhone(cs, ph) PROVE c \in OfPhone(Forsaken(cs, q), ph)
  BY <1>2, <1>4 DEF OfPhone, Forsaken
<1>5. QED
  BY <1>3, <1>4

\* So does a phone whose profile page changes the id to save.
LEMMA OfPhoneRetargeted ==
    ASSUME StateTyped, NEW q \in Phones, NEW ph \in Phones, NEW i \in Ids,
           ph # q \/ OfPhone(checks, q) = {}
    PROVE  OfPhone(Retargeted(q, i), ph) = OfPhone(checks, ph)
<1>1. ASSUME NEW c \in checks
      PROVE  [c EXCEPT !.to = i].ph = c.ph
  BY DEF StateTyped, CheckCall
<1>2. \A c \in checks : c.ph = q => ph # q
  BY DEF OfPhone
<1>3. ASSUME NEW c \in OfPhone(Retargeted(q, i), ph) PROVE c \in OfPhone(checks, ph)
  BY <1>1, <1>2, <1>3 DEF OfPhone, Retargeted
<1>4. ASSUME NEW c \in OfPhone(checks, ph) PROVE c \in OfPhone(Retargeted(q, i), ph)
  BY <1>2, <1>4 DEF OfPhone, Retargeted
<1>5. QED
  BY <1>3, <1>4

\* A phone waits for nothing, or for the one call that it has in flight.
LEMMA OneCall ==
    ASSUME NEW ph \in Phones, Session(ph)
    PROVE  /\ Quiet(ph) => InFlight(ph, {}, {}, {}, {}) /\ AtRest(ph)
           /\ \A c \in signIns : c.ph = ph =>
                InFlight(ph, {c}, {}, {}, {}) /\ SigningIn(ph, c)
           /\ \A c \in checks : c.ph = ph =>
                InFlight(ph, {}, {c}, {}, {}) /\ Checking(ph, c)
           /\ \A c \in uploads : c.ph = ph =>
                InFlight(ph, {}, {}, {c}, {}) /\ Uploading(ph, c)
           /\ \A w \in writes : w.ph = ph =>
                InFlight(ph, {}, {}, {}, {w}) /\ Writing(ph, w)
<1>1. ASSUME NEW cs, NEW c, c \in OfPhone(cs, ph) PROVE c \in cs /\ c.ph = ph
  BY <1>1 DEF OfPhone
<1>2. CASE InFlight(ph, {}, {}, {}, {}) /\ AtRest(ph)
  BY <1>2 DEF InFlight, OfPhone
<1>3. ASSUME NEW c \in signIns, InFlight(ph, {c}, {}, {}, {}), SigningIn(ph, c)
      PROVE  /\ ~Quiet(ph)
             /\ \A b \in signIns : b.ph = ph => b = c
             /\ \A b \in checks \cup uploads \cup writes : b.ph # ph
  BY <1>3 DEF InFlight, OfPhone, Quiet
<1>4. ASSUME NEW c \in checks, InFlight(ph, {}, {c}, {}, {}), Checking(ph, c)
      PROVE  /\ ~Quiet(ph)
             /\ \A b \in checks : b.ph = ph => b = c
             /\ \A b \in signIns \cup uploads \cup writes : b.ph # ph
  BY <1>4 DEF InFlight, OfPhone, Quiet
<1>5. ASSUME NEW c \in uploads, InFlight(ph, {}, {}, {c}, {}), Uploading(ph, c)
      PROVE  /\ ~Quiet(ph)
             /\ \A b \in uploads : b.ph = ph => b = c
             /\ \A b \in signIns \cup checks \cup writes : b.ph # ph
  BY <1>5 DEF InFlight, OfPhone, Quiet
<1>6. ASSUME NEW c \in writes, InFlight(ph, {}, {}, {}, {c}), Writing(ph, c)
      PROVE  /\ ~Quiet(ph)
             /\ \A b \in writes : b.ph = ph => b = c
             /\ \A b \in signIns \cup checks \cup uploads : b.ph # ph
  BY <1>6 DEF InFlight, OfPhone, Quiet
<1>7. QED
  BY <1>2, <1>3, <1>4, <1>5, <1>6 DEF Session

-----------------------------------------------------------------------------
(* What a phone sees of a step of another one.                             *)

\* Documents of the phone's users stay, and no other becomes one.
DocsSame(ph) ==
    \A d \in Docs :
        userIdentifier[d] \in signers[ph] \/ userIdentifier'[d] \in signers[ph] =>
            /\ userIdentifier'[d] = userIdentifier[d]
            /\ id'[d] = id[d]
            /\ status'[d] = status[d]

ScreenSame(ph) ==
    /\ page'[ph] = page[ph]
    /\ myIdentifier'[ph] = myIdentifier[ph]
    /\ myFirebaseId'[ph] = myFirebaseId[ph]
    /\ myId'[ph] = myId[ph]
    /\ formFirebaseId'[ph] = formFirebaseId[ph]
    /\ formIdentifier'[ph] = formIdentifier[ph]

CallsSame(ph) ==
    /\ OfPhone(signIns', ph) = OfPhone(signIns, ph)
    /\ OfPhone(checks', ph) = OfPhone(checks, ph)
    /\ OfPhone(uploads', ph) = OfPhone(uploads, ph)
    /\ OfPhone(writes', ph) = OfPhone(writes, ph)

SeesSame(ph) == DocsSame(ph) /\ ScreenSame(ph) /\ CallsSame(ph)

\* A session is all that its phone sees.
LEMMA SessionSame ==
    ASSUME StateTyped, NEW ph \in Phones, SeesSame(ph), Session(ph)
    PROVE  Session(ph)'
<1>1. \A a \in signers[ph] : Accounts(a)' = Accounts(a)
  BY DEF SeesSame, CallsSame, DocsSame, Accounts
<1>2. SignedIn(ph) => SignedIn(ph)'
  <2>1. SignedIn(ph) => userIdentifier[myFirebaseId[ph]] \in signers[ph]
    BY DEF SignedIn, Accounts
  <2>2. QED
    BY <1>1, <2>1 DEF SignedIn, SeesSame, CallsSame, DocsSame, ScreenSame
<1>3. FormFilled(ph) => FormFilled(ph)'
  BY <1>1 DEF FormFilled, SeesSame, CallsSame, ScreenSame
<1>4. EditsOwn(ph) => EditsOwn(ph)'
  BY <1>2 DEF EditsOwn, SeesSame, CallsSame, ScreenSame
<1>5. AtRest(ph) => AtRest(ph)'
  BY <1>2, <1>3, <1>4 DEF AtRest, SeesSame, CallsSame, ScreenSame
<1>6. \A ss, cs, us, ws : InFlight(ph, ss, cs, us, ws) => InFlight(ph, ss, cs, us, ws)'
  BY DEF InFlight, SeesSame, CallsSame
<1>7. ASSUME NEW c \in signIns, InFlight(ph, {c}, {}, {}, {}), SigningIn(ph, c)
      PROVE  Session(ph)'
  <2>1. SigningIn(ph, c)'
    BY <1>1, <1>2, <1>7 DEF SigningIn, SeesSame, CallsSame, ScreenSame
  <2>2. OfPhone(signIns', ph) = {c} => c \in signIns'
    BY DEF OfPhone
  <2>3. InFlight(ph, {c}, {}, {}, {})'
    BY <1>6, <1>7
  <2>4. c \in signIns'
    BY <2>2, <2>3 DEF InFlight
  <2>5. QED
    BY <2>1, <2>3, <2>4 DEF Session
<1>8. ASSUME NEW c \in checks, InFlight(ph, {}, {c}, {}, {}), Checking(ph, c)
      PROVE  Session(ph)'
  <2>1. Checking(ph, c)'
    BY <1>3, <1>4, <1>8 DEF Checking, SeesSame, CallsSame, ScreenSame
  <2>2. OfPhone(checks', ph) = {c} => c \in checks'
    BY DEF OfPhone
  <2>3. InFlight(ph, {}, {c}, {}, {})'
    BY <1>6, <1>8
  <2>4. c \in checks'
    BY <2>2, <2>3 DEF InFlight
  <2>5. QED
    BY <2>1, <2>3, <2>4 DEF Session
<1>9. ASSUME NEW c \in uploads, InFlight(ph, {}, {}, {c}, {}), Uploading(ph, c)
      PROVE  Session(ph)'
  <2>1. Uploading(ph, c)'
    BY <1>2, <1>9 DEF Uploading, SeesSame, CallsSame, ScreenSame
  <2>2. OfPhone(uploads', ph) = {c} => c \in uploads'
    BY DEF OfPhone
  <2>3. InFlight(ph, {}, {}, {c}, {})'
    BY <1>6, <1>9
  <2>4. c \in uploads'
    BY <2>2, <2>3 DEF InFlight
  <2>5. QED
    BY <2>1, <2>3, <2>4 DEF Session
<1>10. ASSUME NEW w \in writes, InFlight(ph, {}, {}, {}, {w}), Writing(ph, w)
       PROVE  Session(ph)'
  <2>1. Writing(ph, w)'
    BY <1>2, <1>3, <1>4, <1>10 DEF Writing, SeesSame, CallsSame, ScreenSame
  <2>2. OfPhone(writes', ph) = {w} => w \in writes'
    BY DEF OfPhone
  <2>3. InFlight(ph, {}, {}, {}, {w})'
    BY <1>6, <1>10
  <2>4. w \in writes'
    BY <2>2, <2>3 DEF InFlight
  <2>5. QED
    BY <2>1, <2>3, <2>4 DEF Session
<1>11. QED
  BY <1>5, <1>6, <1>7, <1>8, <1>9, <1>10 DEF Session

-----------------------------------------------------------------------------
(* The steps of the phone itself.                                          *)

\* Sessions and forms are as the documents and the user defaults are.
LEMMA DocumentsSame ==
    ASSUME NEW ph \in Phones, UNCHANGED users
    PROVE  /\ DocsSame(ph)
           /\ \A a : Accounts(a)' = Accounts(a)
           /\ UNCHANGED <<myIdentifier, myFirebaseId, myId>> =>
                SignedIn(ph)' = SignedIn(ph)
           /\ UNCHANGED <<myIdentifier, formFirebaseId, formIdentifier>> =>
                FormFilled(ph)' = FormFilled(ph)
BY DEF users, DocsSame, Accounts, SignedIn, FormFilled

\* The call that a phone at rest starts is the one it waits for.
LEMMA FirstCall ==
    ASSUME NEW ph \in Phones, NEW cs, NEW c, OfPhone(cs, ph) = {}, c.ph = ph
    PROVE  OfPhone(cs \cup {c}, ph) = {c} /\ c \in cs \cup {c}
BY DEF OfPhone

\* Without it the phone waits for nothing.
LEMMA LastCall ==
    ASSUME NEW ph \in Phones, NEW cs, NEW c, OfPhone(cs, ph) = {c}
    PROVE  OfPhone(cs \ {c}, ph) = {}
BY DEF OfPhone

\* A tap takes a phone at rest to the next point of a flow.
LEMMA TapHere ==
    ASSUME IInv, NEW ph \in Phones, Session(ph), Quiet(ph), Tap(ph)
    PROVE  Session(ph)'
<1>1. InFlight(ph, {}, {}, {}, {}) /\ AtRest(ph)
  BY OneCall
<1>2. /\ OfPhone(signIns, ph) = {} /\ OfPhone(checks, ph) = {}
      /\ OfPhone(uploads, ph) = {} /\ OfPhone(writes, ph) = {}
  BY <1>1 DEF InFlight
<1>3. UNCHANGED users
  BY DEF Tap, HandleLogIn, DoneInput, ChangeUserInfo, PushToInputProfile,
         Back, DeleteAccount, Logout, SaveProfileImage
<1>4. /\ OfPhone(Forsaken(checks, ph), ph) = {}
      /\ OfPhone(Forsaken(writes, ph), ph) = {}
  BY <1>2, OfPhoneForsaken DEF IInv, StateTyped
<1>5. ASSUME NEW a \in AppleUsers, HandleLogIn(ph, a) PROVE Session(ph)'
  <2>1. PICK c : c = [n |-> ops, ph |-> ph, do |-> "login", apple |-> a,
                      awaited |-> "page"]
    OBVIOUS
  <2>2. signIns' = signIns \cup {c} /\ c.ph = ph
    BY <1>5, <2>1 DEF HandleLogIn
  <2>3. InFlight(ph, {c}, {}, {}, {})' /\ c \in signIns'
    BY <1>2, <1>5, <2>2, FirstCall DEF InFlight, HandleLogIn
  <2>4. SigningIn(ph, c)'
    BY <1>1, <1>5, <2>1 DEF SigningIn, AtRest, HandleLogIn, defaults
  <2>5. QED
    BY <2>3, <2>4 DEF Session
<1>6. ASSUME NEW i \in Ids, DoneInput(ph, i) PROVE Session(ph)'
  <2>1. PICK c : c = [n |-> ops, ph |-> ph, do |-> "save",
                      apple |-> formIdentifier[ph], doc |-> formFirebaseId[ph],
                      id |-> i, to |-> i, awaited |-> "page"]
    OBVIOUS
  <2>2. checks' = checks \cup {c} /\ c.ph = ph
    BY <1>6, <2>1 DEF DoneInput
  <2>3. InFlight(ph, {}, {c}, {}, {})' /\ c \in checks'
    BY <1>2, <1>6, <2>2, FirstCall DEF InFlight, DoneInput
  <2>4. FormFilled(ph)'
    BY <1>1, <1>3, <1>6, DocumentsSame DEF AtRest, DoneInput, defaults, form
  <2>5. Checking(ph, c)'
    BY <1>6, <2>1, <2>4 DEF Checking, DoneInput, form
  <2>6. QED
    BY <2>3, <2>5 DEF Session
<1>7. ASSUME NEW i \in Ids, ChangeUserInfo(ph, i) PROVE Session(ph)'
  <2>1. EditsOwn(ph)' /\ page'[ph] = "profile"
    BY <1>1, <1>3, <1>7, DocumentsSame
       DEF AtRest, EditsOwn, ChangeUserInfo, defaults, form
  <2>2. OfPhone(Retargeted(ph, i), ph) = {}
    BY <1>2, OfPhoneRetargeted DEF IInv
  <2>3. CASE i # myId[ph]
    <3>1. PICK c : c = [n |-> ops, ph |-> ph, do |-> "change", apple |-> None,
                        doc |-> formFirebaseId[ph], id |-> i, to |-> i,
                        awaited |-> "page"]
      OBVIOUS
    <3>2. checks' = Retargeted(ph, i) \cup {c} /\ c.ph = ph
      BY <1>7, <2>3, <3>1 DEF ChangeUserInfo
    <3>3. InFlight(ph, {}, {c}, {}, {})' /\ c \in checks'
      BY <1>2, <1>7, <2>2, <2>3, <3>2, FirstCall DEF InFlight, ChangeUserInfo
    <3>4. Checking(ph, c)'
      BY <1>7, <2>1, <3>1 DEF Checking, EditsOwn, ChangeUserInfo, form, defaults
    <3>5. QED
      BY <3>3, <3>4 DEF Session
  <2>4. CASE i = myId[ph]
    <3>1. PICK w : w = [n |-> ops, ph |-> ph, do |-> "update", apple |-> None,
                        doc |-> formFirebaseId[ph], val |-> i, awaited |-> "page"]
      OBVIOUS
    <3>2. writes' = writes \cup {w} /\ checks' = Retargeted(ph, i) /\ w.ph = ph
      BY <1>7, <2>4, <3>1 DEF ChangeUserInfo
    <3>3. InFlight(ph, {}, {}, {}, {w})' /\ w \in writes'
      BY <1>2, <1>7, <2>2, <3>2, FirstCall DEF InFlight, ChangeUserInfo
    <3>4. Writing(ph, w)'
      BY <1>7, <2>1, <3>1 DEF Writing, EditsOwn, ChangeUserInfo, form, defaults
    <3>5. QED
      BY <3>3, <3>4 DEF Session
  <2>5. QED
    BY <2>3, <2>4
<1>8. CASE PushToInputProfile(ph)
  <2>1. SignedIn(ph)'
    BY <1>1, <1>3, <1>8, DocumentsSame DEF AtRest, PushToInputProfile, defaults
  <2>2. page'[ph] = "profile" /\ formFirebaseId'[ph] = myFirebaseId'[ph]
    BY <1>8 DEF PushToInputProfile, Show, defaults, IInv, StateTyped
  <2>3. InFlight(ph, {}, {}, {}, {})'
    BY <1>2, <1>8 DEF InFlight, PushToInputProfile, calls
  <2>4. QED
    BY <2>1, <2>2, <2>3 DEF Session, AtRest, EditsOwn
<1>9. CASE Back(ph)
  <2>1. SignedIn(ph)'
    BY <1>1, <1>3, <1>9, DocumentsSame DEF AtRest, EditsOwn, Back, defaults
  <2>2. page'[ph] = "tabs"
    BY <1>9 DEF Back, LeaveFor, Show, IInv, StateTyped
  <2>3. InFlight(ph, {}, {}, {}, {})'
    BY <1>2, <1>4, <1>9 DEF InFlight, Back, LeaveFor
  <2>4. QED
    BY <2>1, <2>2, <2>3 DEF Session, AtRest
<1>10. CASE DeleteAccount(ph)
  <2>1. PICK w : w = [n |-> ops, ph |-> ph, do |-> "remove", apple |-> None,
                      doc |-> formFirebaseId[ph], val |-> None, awaited |-> "app"]
    OBVIOUS
  <2>2. writes' = Forsaken(writes, ph) \cup {w} /\ w.ph = ph
    BY <1>10, <2>1 DEF DeleteAccount
  <2>3. InFlight(ph, {}, {}, {}, {w})' /\ w \in writes'
    BY <1>2, <1>4, <1>10, <2>2, FirstCall DEF InFlight, DeleteAccount, LeaveFor
  <2>4. EditsOwn(ph) /\ SignedIn(ph)'
    BY <1>1, <1>3, <1>10, DocumentsSame DEF AtRest, EditsOwn, DeleteAccount, defaults
  <2>5. page'[ph] = "login"
    BY <1>10 DEF DeleteAccount, LeaveFor, Show, IInv, StateTyped
  <2>6. Writing(ph, w)'
    BY <1>10, <2>1, <2>4, <2>5 DEF Writing, EditsOwn, DeleteAccount, defaults
  <2>7. QED
    BY <2>3, <2>6 DEF Session
<1>11. CASE Logout(ph)
  <2>1. page'[ph] = "login" /\ myIdentifier'[ph] = None
    BY <1>11 DEF Logout, Show, DeleteUserDefault, IInv, StateTyped
  <2>2. InFlight(ph, {}, {}, {}, {})'
    BY <1>2, <1>11 DEF InFlight, Logout, calls
  <2>3. QED
    BY <2>1, <2>2 DEF Session, AtRest
<1>12. CASE SaveProfileImage(ph)
  <2>1. PICK c : c = [n |-> ops, ph |-> ph, doc |-> myFirebaseId[ph]]
    OBVIOUS
  <2>2. uploads' = uploads \cup {c} /\ c.ph = ph
    BY <1>12, <2>1 DEF SaveProfileImage
  <2>3. InFlight(ph, {}, {}, {c}, {})' /\ c \in uploads'
    BY <1>2, <1>12, <2>2, FirstCall DEF InFlight, SaveProfileImage
  <2>4. SignedIn(ph)'
    BY <1>1, <1>3, <1>12, DocumentsSame DEF AtRest, SaveProfileImage, defaults
  <2>5. Uploading(ph, c)'
    BY <1>12, <2>1, <2>4 DEF Uploading, SaveProfileImage, defaults
  <2>6. QED
    BY <2>3, <2>5 DEF Session
<1>13. QED
  BY <1>5, <1>6, <1>7, <1>8, <1>9, <1>10, <1>11, <1>12 DEF Tap

\* So does a restart.
LEMMA ReopenHere ==
    ASSUME IInv, NEW ph \in Phones, Session(ph), Quiet(ph), Reopen(ph)
    PROVE  Session(ph)'
<1>1. InFlight(ph, {}, {}, {}, {}) /\ AtRest(ph)
  BY OneCall
<1>2. UNCHANGED <<users, defaults, form>>
  BY DEF Reopen
<1>3. OfPhone(checks', ph) = {} /\ OfPhone(uploads', ph) = {}
  BY DEF Reopen, OfPhone
<1>4. OfPhone(writes', ph) = {}
  <2>1. \A w \in writes : w.ph # ph
    BY DEF Quiet
  <2>2. writes' = writes
    BY <2>1 DEF Reopen
  <2>3. QED
    BY <2>1, <2>2 DEF OfPhone
<1>5. CASE myIdentifier[ph] = None
  <2>1. OfPhone(signIns', ph) = {}
    BY <1>5 DEF Reopen, OfPhone
  <2>2. page'[ph] = "login" /\ myIdentifier'[ph] = None
    BY <1>2, <1>5 DEF Reopen, Show, defaults, IInv, StateTyped
  <2>3. QED
    BY <1>3, <1>4, <2>1, <2>2 DEF Session, AtRest, InFlight
<1>6. CASE myIdentifier[ph] # None
  <2>1. PICK c : c = [n |-> 0, ph |-> ph, do |-> "launch",
                      apple |-> myIdentifier[ph], awaited |-> "page"]
    OBVIOUS
  <2>2. signIns' = {b \in signIns : b.ph # ph} \cup {c} /\ c.ph = ph
    BY <1>6, <2>1 DEF Reopen
  <2>3. OfPhone(signIns', ph) = {c} /\ c \in signIns'
    BY <2>2 DEF OfPhone
  <2>4. SignedIn(ph)'
    <3>1. SignedIn(ph)
      BY <1>1, <1>6 DEF AtRest, EditsOwn, FormFilled
    <3>2. QED
      BY <1>2, <3>1, DocumentsSame DEF defaults
  <2>5. page'[ph] = "launch"
    BY <1>6 DEF Reopen, Show, IInv, StateTyped
  <2>6. SigningIn(ph, c)'
    BY <1>2, <2>1, <2>4, <2>5 DEF SigningIn, defaults
  <2>7. QED
    BY <1>3, <1>4, <2>3, <2>6 DEF Session, InFlight
<1>7. QED
  BY <1>5, <1>6

\* The answer to the one query by user identifier ends it, or asks for the
\* profile.
LEMMA SignInHere ==
    ASSUME IInv, OneAccount, NEW ph \in Phones, Session(ph), ~hasty,
           NEW c \in signIns, c.ph = ph,
           AnswerNobody(c) \/ AnswerSomebody(c) \/ AnswerProfile(c) \/ AnswerLaunch(c)
    PROVE  Session(ph)'
<1>1. InFlight(ph, {c}, {}, {}, {}) /\ SigningIn(ph, c)
  BY OneCall
<1>2. UNCHANGED <<users, checks, uploads, writes>>
  BY DEF AnswerNobody, AnswerSomebody, AnswerProfile, AnswerLaunch
<1>3. signIns \ {c} \subseteq SignInCall /\ OfPhone(signIns \ {c}, ph) = {}
  BY <1>1, LastCall DEF InFlight, IInv, StateTyped
<1>4. OfPhone(Forsaken(signIns \ {c}, ph), ph) = {}
  BY <1>3, OfPhoneForsaken
<1>5. /\ OfPhone(checks', ph) = {} /\ OfPhone(uploads', ph) = {}
      /\ OfPhone(writes', ph) = {}
  BY <1>1, <1>2 DEF InFlight
<1>6. c.apple \in signers[ph]
  BY <1>1 DEF SigningIn, SignedIn
<1>7. /\ \A a : Accounts(a)' = Accounts(a)
      /\ id' = id /\ status' = status
  BY <1>2, DocumentsSame DEF users
<1>8. \A d \in Accounts(c.apple) : d \in Docs /\ Accounts(c.apple) = {d}
  BY <1>6, AccountAssumption DEF Accounts, OneAccount
<1>9. CASE AnswerNobody(c)
  <2>1. c.awaited = "page" /\ page[ph] = "login" /\ myIdentifier[ph] = None
    BY <1>1, <1>9 DEF SigningIn, AnswerNobody
  <2>2. InFlight(ph, {}, {}, {}, {})'
    BY <1>4, <1>5, <1>9, <2>1 DEF InFlight, AnswerNobody
  <2>3. /\ page'[ph] = "input" /\ myIdentifier'[ph] = None
        /\ formIdentifier'[ph] = c.apple /\ formFirebaseId'[ph] = None
    BY <1>9, <2>1 DEF AnswerNobody, Show, defaults, IInv, StateTyped
  <2>4. FormFilled(ph)'
    BY <1>6, <1>7, <1>9, <2>3 DEF FormFilled, AnswerNobody
  <2>5. QED
    BY <2>2, <2>3, <2>4 DEF Session, AtRest
<1>10. CASE AnswerSomebody(c)
  <2>1. PICK b : b = [n |-> c.n, ph |-> c.ph, do |-> "profile", apple |-> c.apple,
                      awaited |-> c.awaited]
    OBVIOUS
  <2>2. signIns' = (signIns \ {c}) \cup {b} /\ b.ph = ph
    BY <1>10, <2>1 DEF AnswerSomebody
  <2>3. InFlight(ph, {b}, {}, {}, {})' /\ b \in signIns'
    BY <1>3, <1>5, <2>2, FirstCall DEF InFlight
  <2>4. SigningIn(ph, b)'
    BY <1>1, <1>7, <1>10, <2>1 DEF SigningIn, AnswerSomebody, defaults
  <2>5. QED
    BY <2>3, <2>4 DEF Session
<1>11. CASE AnswerProfile(c)
  <2>1. c.awaited = "page" /\ page[ph] = "login" /\ myIdentifier[ph] = None
    BY <1>1, <1>11 DEF SigningIn, AnswerProfile
  <2>2. PICK d \in Accounts(c.apple) : SaveUserDefault(ph, d, id[d])
    BY <1>11 DEF AnswerProfile
  <2>3. d \in Docs /\ Accounts(c.apple) = {d} /\ d # None
    BY <1>8, AccountAssumption
  <2>4. myFirebaseId'[ph] = d /\ myId'[ph] = id[d]
    BY <2>2 DEF SaveUserDefault, IInv, StateTyped
  <2>5. InFlight(ph, {}, {}, {}, {})'
    BY <1>4, <1>5, <1>11, <2>1 DEF InFlight, AnswerProfile
  <2>6. CASE status[d] = "removed"
    <3>1. \A e \in Accounts(c.apple) : Returns(e)
      BY <2>3, <2>6 DEF Returns
    <3>2. /\ page'[ph] = "input" /\ myIdentifier'[ph] = None
          /\ formIdentifier'[ph] = c.apple /\ formFirebaseId'[ph] = d
      BY <1>11, <2>1, <2>3, <3>1 DEF AnswerProfile, Show, IInv, StateTyped
    <3>3. FormFilled(ph)'
      BY <1>6, <1>7, <2>3, <3>2 DEF FormFilled
    <3>4. QED
      BY <2>5, <3>2, <3>3 DEF Session, AtRest
  <2>7. CASE status[d] # "removed"
    <3>1. ~ \A e \in Accounts(c.apple) : Returns(e)
      BY <2>3, <2>7 DEF Returns
    <3>2. page'[ph] = "tabs" /\ myIdentifier'[ph] = c.apple
      BY <1>11, <2>1, <3>1 DEF AnswerProfile, Show, IInv, StateTyped
    <3>3. status[d] = "active"
      BY <2>3, <2>7 DEF IInv, StateTyped
    <3>4. SignedIn(ph)'
      BY <1>6, <1>7, <2>3, <2>4, <3>2, <3>3 DEF SignedIn
    <3>5. QED
      BY <2>5, <3>2, <3>4 DEF Session, AtRest
  <2>8. QED
    BY <2>6, <2>7
<1>12. CASE AnswerLaunch(c)
  <2>1. SignedIn(ph) /\ c.apple = myIdentifier[ph]
    BY <1>1, <1>12 DEF SigningIn, AnswerLaunch
  <2>2. Accounts(c.apple) # {} /\ Accounts(c.apple) = {myFirebaseId[ph]}
    BY <2>1 DEF SignedIn
  <2>3. PICK d \in Accounts(c.apple) : SaveUserDefault(ph, d, id[d])
    BY <1>12, <2>2 DEF AnswerLaunch
  <2>4. /\ myFirebaseId'[ph] = myFirebaseId[ph] /\ myId'[ph] = id[myFirebaseId[ph]]
        /\ myIdentifier'[ph] = myIdentifier[ph] /\ page'[ph] = "tabs"
    BY <1>12, <2>2, <2>3
       DEF AnswerLaunch, SaveUserDefault, Show, IInv, StateTyped
  <2>5. SignedIn(ph)'
    BY <1>7, <2>1, <2>4 DEF SignedIn
  <2>6. InFlight(ph, {}, {}, {}, {})'
    BY <1>3, <1>5, <1>12 DEF InFlight, AnswerLaunch
  <2>7. QED
    BY <2>4, <2>5, <2>6 DEF Session, AtRest
<1>13. QED
  BY <1>9, <1>10, <1>11, <1>12

\* The one query by id ends, or becomes the write of what it asked for.
LEMMA CheckHere ==
    ASSUME IInv, NEW ph \in Phones, Session(ph),
           NEW c \in checks, c.ph = ph, AnswerCheck(c)
    PROVE  Session(ph)'
<1>1. InFlight(ph, {}, {c}, {}, {}) /\ Checking(ph, c)
  BY OneCall
<1>2. UNCHANGED <<users, defaults, page, form, signIns, uploads>>
  BY DEF AnswerCheck
<1>3. /\ FormFilled(ph)' = FormFilled(ph) /\ SignedIn(ph)' = SignedIn(ph)
      /\ EditsOwn(ph)' = EditsOwn(ph)
  BY <1>2, DocumentsSame DEF EditsOwn, defaults, form
<1>4. /\ OfPhone(signIns', ph) = {} /\ OfPhone(uploads', ph) = {}
      /\ OfPhone(checks', ph) = {} /\ OfPhone(writes, ph) = {}
  BY <1>1, <1>2, LastCall DEF InFlight, AnswerCheck
<1>5. CASE UNCHANGED writes
  <2>1. InFlight(ph, {}, {}, {}, {})'
    BY <1>4, <1>5 DEF InFlight
  <2>2. AtRest(ph)'
    BY <1>1, <1>2, <1>3 DEF Checking, AtRest
  <2>3. QED
    BY <2>1, <2>2 DEF Session
<1>6. CASE ~UNCHANGED writes
  <2>1. PICK d \in IF c.do = "save" THEN DocOf(c) ELSE {c.doc} :
          writes' = writes \cup
            {[n |-> c.n, ph |-> c.ph,
              do |-> IF c.do = "save" THEN "save" ELSE "update",
              apple |-> c.apple, doc |-> d, val |-> c.to, awaited |-> c.awaited]}
    BY <1>6 DEF AnswerCheck
  <2>2. PICK w : w = [n |-> c.n, ph |-> c.ph,
                      do |-> IF c.do = "save" THEN "save" ELSE "update",
                      apple |-> c.apple, doc |-> d, val |-> c.to,
                      awaited |-> c.awaited]
    OBVIOUS
  <2>3. writes' = writes \cup {w} /\ w.ph = ph
    BY <2>1, <2>2
  <2>4. InFlight(ph, {}, {}, {}, {w})' /\ w \in writes'
    BY <1>4, <2>3, FirstCall DEF InFlight
  <2>5. Writing(ph, w)'
    <3>1. CASE c.do = "save"
      <4>1. formFirebaseId[ph] \in {None, d}
        BY <1>1, <2>1, <3>1 DEF Checking, DocOf
      <4>2. QED
        BY <1>1, <1>2, <1>3, <2>2, <3>1, <4>1 DEF Checking, Writing, form
    <3>2. CASE c.do = "change"
      BY <1>1, <1>2, <1>3, <2>1, <2>2, <3>2 DEF Checking, Writing, defaults
    <3>3. QED
      BY <1>1, <3>1, <3>2 DEF Checking
  <2>6. QED
    BY <2>4, <2>5 DEF Session
<1>7. QED
  BY <1>5, <1>6

\* A picture goes to the document of the user who took it.
LEMMA UploadHere ==
    ASSUME IInv, NEW ph \in Phones, Session(ph),
           NEW c \in uploads, c.ph = ph, PutData(c)
    PROVE  Session(ph)'
<1>1. InFlight(ph, {}, {}, {c}, {}) /\ Uploading(ph, c)
  BY OneCall
<1>2. UNCHANGED <<users, defaults, page, form, signIns, checks>>
  BY DEF PutData
<1>3. SignedIn(ph)'
  BY <1>1, <1>2, DocumentsSame DEF Uploading, defaults
<1>4. PICK w : w = [n |-> c.n, ph |-> c.ph, do |-> "image", apple |-> None,
                    doc |-> myFirebaseId[c.ph], val |-> c.doc, awaited |-> "app"]
  OBVIOUS
<1>5. writes' = writes \cup {w} /\ w.ph = ph
  BY <1>4 DEF PutData
<1>6. OfPhone(uploads', ph) = {}
  BY <1>1, LastCall DEF InFlight, PutData
<1>7. InFlight(ph, {}, {}, {}, {w})' /\ w \in writes'
  BY <1>1, <1>2, <1>5, <1>6, FirstCall DEF InFlight
<1>8. Writing(ph, w)'
  BY <1>1, <1>2, <1>3, <1>4 DEF Uploading, Writing, defaults
<1>9. QED
  BY <1>7, <1>8 DEF Session

\* The one write of a phone at rest otherwise ends its flow.
LEMMA CommitHere ==
    ASSUME IInv, NEW ph \in Phones, Session(ph),
           NEW w \in writes, w.ph = ph,
           \/ CommitSave(w) \/ CommitUpdate(w) \/ CommitRemove(w)
           \/ CommitImage(w) \/ FailWrite(w)
    PROVE  Session(ph)'
<1>1. InFlight(ph, {}, {}, {}, {w}) /\ Writing(ph, w)
  BY OneCall
<1>2. w.doc \in Docs /\ w.doc # None
  <2>1. w.doc # None
    BY <1>1, AccountAssumption DEF Writing, EditsOwn, SignedIn, IInv, SavesSound
  <2>2. QED
    BY <2>1 DEF IInv, StateTyped, WriteCall
<1>3. /\ OfPhone(signIns, ph) = {} /\ OfPhone(uploads, ph) = {}
      /\ OfPhone(checks, ph) = {} /\ OfPhone(writes \ {w}, ph) = {}
  BY <1>1, LastCall DEF InFlight
<1>4. /\ OfPhone(Forsaken(checks, ph), ph) = {}
      /\ OfPhone(Forsaken(writes \ {w}, ph), ph) = {}
  <2>1. writes \ {w} \subseteq WriteCall /\ checks \subseteq CheckCall
    BY DEF IInv, StateTyped
  <2>2. QED
    BY <1>3, <2>1, OfPhoneForsaken
<1>5. InFlight(ph, {}, {}, {}, {})'
  BY <1>3, <1>4 DEF InFlight, CommitSave, CommitUpdate, CommitRemove, CommitImage,
                    FailWrite, LeaveFor
<1>6. CASE CommitSave(w)
  <2>1. /\ page[ph] = "input" /\ FormFilled(ph) /\ w.awaited = "page"
        /\ w.apple = formIdentifier[ph] /\ formFirebaseId[ph] \in {None, w.doc}
    BY <1>1, <1>6 DEF Writing, CommitSave
  <2>2. w.apple \in signers[ph] /\ Accounts(w.apple) \in {{}, {w.doc}}
    BY <1>2, <2>1 DEF FormFilled
  <2>3. Accounts(w.apple)' = {w.doc}
    BY <1>2, <1>6, <2>2 DEF Accounts, CommitSave, IInv, StateTyped
  <2>4. /\ page'[ph] = "tabs" /\ myIdentifier'[ph] = w.apple
        /\ myFirebaseId'[ph] = w.doc /\ myId'[ph] = w.val
    BY <1>6, <2>1 DEF CommitSave, LeaveFor, Show, SaveUserDefault, IInv, StateTyped
  <2>5. id'[w.doc] = w.val /\ status'[w.doc] = "active"
    BY <1>2, <1>6 DEF CommitSave, IInv, StateTyped
  <2>6. SignedIn(ph)'
    BY <1>2, <2>2, <2>3, <2>4, <2>5 DEF SignedIn
  <2>7. QED
    BY <1>5, <2>4, <2>6 DEF Session, AtRest
<1>7. CASE CommitUpdate(w)
  <2>1. SignedIn(ph) /\ w.awaited = "page" /\ w.doc = myFirebaseId[ph]
    BY <1>1, <1>7 DEF Writing, EditsOwn, CommitUpdate
  <2>2. /\ page'[ph] = "tabs" /\ myIdentifier'[ph] = myIdentifier[ph]
        /\ myFirebaseId'[ph] = w.doc /\ myId'[ph] = w.val
    BY <1>7, <2>1 DEF CommitUpdate, LeaveFor, Show, SaveUserDefault, IInv, StateTyped
  <2>3. \A a : Accounts(a)' = Accounts(a)
    BY <1>7 DEF CommitUpdate, Accounts
  <2>4. id'[w.doc] = w.val /\ status'[w.doc] = status[w.doc]
    BY <1>2, <1>7 DEF CommitUpdate, IInv, StateTyped
  <2>5. SignedIn(ph)'
    BY <1>2, <2>1, <2>2, <2>3, <2>4 DEF SignedIn
  <2>6. QED
    BY <1>5, <2>2, <2>5 DEF Session, AtRest
<1>8. CASE CommitRemove(w)
  <2>1. page[ph] = "login" /\ w.awaited = "app"
    BY <1>1, <1>8 DEF Writing, CommitRemove
  <2>2. page'[ph] = "login" /\ myIdentifier'[ph] = None
    BY <1>8, <2>1 DEF CommitRemove, DeleteUserDefault, IInv, StateTyped
  <2>3. QED
    BY <1>5, <2>2 DEF Session, AtRest
<1>9. CASE CommitImage(w)
  <2>1. page[ph] = "tabs" /\ SignedIn(ph)
    BY <1>1, <1>9 DEF Writing, CommitImage
  <2>2. \A a : Accounts(a)' = Accounts(a)
    BY <1>9 DEF CommitImage, Accounts
  <2>3. page'[ph] = "tabs" /\ SignedIn(ph)'
    BY <1>9, <2>1, <2>2 DEF CommitImage, SignedIn, defaults
  <2>4. QED
    BY <1>5, <2>3 DEF Session, AtRest
<1>10. CASE FailWrite(w)
  BY <1>2, <1>10 DEF FailWrite
<1>11. QED
  BY <1>6, <1>7, <1>8, <1>9, <1>10

-----------------------------------------------------------------------------
(* The steps of another phone.                                             *)

\* A call that is started or answered is no other phone's.
LEMMA CallElsewhere ==
    ASSUME NEW ph \in Phones, NEW cs, NEW c, c.ph # ph
    PROVE  /\ OfPhone(cs \cup {c}, ph) = OfPhone(cs, ph)
           /\ OfPhone(cs \ {c}, ph) = OfPhone(cs, ph)
BY DEF OfPhone

\* A tap changes its own phone's screen and calls.
LEMMA TapElsewhere ==
    ASSUME IInv, NEW q \in Phones, NEW ph \in Phones, ph # q, Tap(q)
    PROVE  SeesSame(ph)
<1> USE DEF Show, SaveUserDefault, DeleteUserDefault, LeaveFor, defaults, form, calls
<1>1. DocsSame(ph)
  <2>1. UNCHANGED users
    BY DEF Tap, HandleLogIn, DoneInput, ChangeUserInfo, PushToInputProfile, Back,
           DeleteAccount, Logout, SaveProfileImage
  <2>2. QED
    BY <2>1, DocumentsSame
<1>2. /\ OfPhone(Forsaken(checks, q), ph) = OfPhone(checks, ph)
      /\ OfPhone(Forsaken(writes, q), ph) = OfPhone(writes, ph)
  BY OfPhoneForsaken DEF IInv, StateTyped
<1>3. ASSUME NEW a \in AppleUsers, HandleLogIn(q, a) PROVE SeesSame(ph)
  <2>1. ScreenSame(ph)
    BY <1>3 DEF HandleLogIn, ScreenSame
  <2>2. PICK c : c.ph # ph /\ signIns' = signIns \cup {c}
    BY <1>3 DEF HandleLogIn
  <2>3. OfPhone(signIns', ph) = OfPhone(signIns, ph)
    BY <2>2, CallElsewhere
  <2>4. QED
    BY <1>1, <1>3, <2>1, <2>3 DEF HandleLogIn, SeesSame, CallsSame
<1>4. ASSUME NEW i \in Ids, DoneInput(q, i) PROVE SeesSame(ph)
  <2>1. ScreenSame(ph)
    BY <1>4 DEF DoneInput, ScreenSame
  <2>2. PICK c : c.ph # ph /\ checks' = checks \cup {c}
    BY <1>4 DEF DoneInput
  <2>3. OfPhone(checks', ph) = OfPhone(checks, ph)
    BY <2>2, CallElsewhere
  <2>4. QED
    BY <1>1, <1>4, <2>1, <2>3 DEF DoneInput, SeesSame, CallsSame
<1>5. ASSUME NEW i \in Ids, ChangeUserInfo(q, i) PROVE SeesSame(ph)
  <2>1. ScreenSame(ph)
    BY <1>5 DEF ChangeUserInfo, ScreenSame
  <2>2. OfPhone(Retargeted(q, i), ph) = OfPhone(checks, ph)
    BY OfPhoneRetargeted DEF IInv
  <2>3. CASE i # myId[q]
    <3>1. PICK c : c.ph # ph /\ checks' = Retargeted(q, i) \cup {c}
      BY <1>5, <2>3 DEF ChangeUserInfo
    <3>2. QED
      BY <1>1, <1>5, <2>1, <2>2, <2>3, <3>1, CallElsewhere
         DEF ChangeUserInfo, SeesSame, CallsSame
  <2>4. CASE i = myId[q]
    <3>1. PICK w : w.ph # ph /\ writes' = writes \cup {w}
      BY <1>5, <2>4 DEF ChangeUserInfo
    <3>2. QED
      BY <1>1, <1>5, <2>1, <2>2, <2>4, <3>1, CallElsewhere
         DEF ChangeUserInfo, SeesSame, CallsSame
  <2>5. QED
    BY <2>3, <2>4
<1>6. CASE PushToInputProfile(q)
  BY <1>1, <1>6 DEF PushToInputProfile, SeesSame, CallsSame, ScreenSame, IInv, StateTyped
<1>7. CASE Back(q)
  <2>1. ScreenSame(ph)
    BY <1>7 DEF Back, ScreenSame, IInv, StateTyped
  <2>2. QED
    BY <1>1, <1>2, <1>7, <2>1 DEF Back, SeesSame, CallsSame
<1>8. CASE DeleteAccount(q)
  <2>1. ScreenSame(ph)
    BY <1>8 DEF DeleteAccount, ScreenSame, IInv, StateTyped
  <2> DEFINE new == [n |-> ops, ph |-> q, do |-> "remove", apple |-> None,
                     doc |-> formFirebaseId[q], val |-> None, awaited |-> "app"]
  <2>2. /\ writes' = Forsaken(writes, q) \cup {new}
        /\ checks' = Forsaken(checks, q)
        /\ UNCHANGED <<signIns, uploads>>
    BY <1>8 DEF DeleteAccount
  <2>3. new.ph # ph
    OBVIOUS
  <2> HIDE DEF new
  <2>4. OfPhone(writes', ph) = OfPhone(writes, ph)
    BY <1>2, <2>2, <2>3, CallElsewhere
  <2>5. CallsSame(ph)
    BY <1>2, <2>2, <2>4 DEF CallsSame
  <2>6. QED
    BY <1>1, <2>1, <2>5 DEF SeesSame
<1>9. CASE Logout(q)
  BY <1>1, <1>9 DEF Logout, SeesSame, CallsSame, ScreenSame, IInv, StateTyped
<1>10. CASE SaveProfileImage(q)
  <2>1. ScreenSame(ph)
    BY <1>10 DEF SaveProfileImage, ScreenSame
  <2>2. PICK c : c.ph # ph /\ uploads' = uploads \cup {c}
    BY <1>10 DEF SaveProfileImage
  <2>3. QED
    BY <1>1, <1>10, <2>1, <2>2, CallElsewhere DEF SaveProfileImage, SeesSame, CallsSame
<1>11. QED
  BY <1>3, <1>4, <1>5, <1>6, <1>7, <1>8, <1>9, <1>10 DEF Tap

\* So does a restart.
LEMMA ReopenElsewhere ==
    ASSUME IInv, NEW q \in Phones, NEW ph \in Phones, ph # q, Reopen(q)
    PROVE  SeesSame(ph)
<1>1. DocsSame(ph)
  BY DocumentsSame DEF Reopen
<1>2. ScreenSame(ph)
  BY DEF Reopen, ScreenSame, Show, defaults, form, IInv, StateTyped
<1>3. OfPhone(signIns', ph) = OfPhone(signIns, ph)
  <2>1. PICK c : c.ph # ph /\ signIns' \in {{b \in signIns : b.ph # q},
                                            {b \in signIns : b.ph # q} \cup {c}}
    <3>1. PICK c : c = [n |-> 0, ph |-> q, do |-> "launch",
                        apple |-> myIdentifier[q], awaited |-> "page"]
      OBVIOUS
    <3>2. QED
      BY <3>1 DEF Reopen
  <2>2. QED
    BY <2>1 DEF OfPhone
<1>4. /\ OfPhone(checks', ph) = OfPhone(checks, ph)
      /\ OfPhone(uploads', ph) = OfPhone(uploads, ph)
  BY DEF Reopen, OfPhone
<1>5. OfPhone(writes', ph) = OfPhone(writes, ph)
  <2>1. \A w \in writes : [w EXCEPT !.awaited = "nobody"].ph = w.ph
    BY DEF IInv, StateTyped, WriteCall
  <2>2. ASSUME NEW w \in OfPhone(writes', ph) PROVE w \in OfPhone(writes, ph)
    BY <2>1 DEF Reopen, OfPhone
  <2>3. ASSUME NEW w \in OfPhone(writes, ph) PROVE w \in OfPhone(writes', ph)
    BY DEF Reopen, OfPhone
  <2>4. QED
    BY <2>2, <2>3
<1>6. QED
  BY <1>1, <1>2, <1>3, <1>4, <1>5 DEF SeesSame, CallsSame

\* Answers to queries and uploads change the screen and calls of their phone.
LEMMA AnswerElsewhere ==
    ASSUME IInv, NEW q \in Phones, NEW ph \in Phones, ph # q,
           \/ \E c \in signIns : c.ph = q /\ \/ AnswerNobody(c) \/ AnswerSomebody(c)
                                             \/ AnswerProfile(c) \/ AnswerLaunch(c)
           \/ \E c \in checks : c.ph = q /\ AnswerCheck(c)
           \/ \E c \in uploads : c.ph = q /\ PutData(c)
    PROVE  SeesSame(ph)
<1> USE DEF Show, SaveUserDefault, defaults, form
<1>1. ASSUME NEW c \in signIns, c.ph = q,
             AnswerNobody(c) \/ AnswerSomebody(c) \/ AnswerProfile(c) \/ AnswerLaunch(c)
      PROVE  SeesSame(ph)
  <2>1. UNCHANGED <<users, checks, uploads, writes>>
    BY <1>1 DEF AnswerNobody, AnswerSomebody, AnswerProfile, AnswerLaunch
  <2>2. DocsSame(ph)
    BY <2>1, DocumentsSame
  <2>3. ScreenSame(ph)
    <3>1. CASE AnswerNobody(c) \/ AnswerSomebody(c)
      BY <1>1, <3>1 DEF AnswerNobody, AnswerSomebody, ScreenSame, IInv, StateTyped
    <3>2. CASE AnswerProfile(c)
      <4>1. /\ myFirebaseId'[ph] = myFirebaseId[ph] /\ myId'[ph] = myId[ph]
            /\ myIdentifier'[ph] = myIdentifier[ph]
        <5>1. PICK last \in Accounts(c.apple) :
                /\ myFirebaseId' = [myFirebaseId EXCEPT ![q] = last]
                /\ myId' = [myId EXCEPT ![q] = id[last]]
          BY <1>1, <3>2 DEF AnswerProfile
        <5>2. \/ UNCHANGED myIdentifier
              \/ myIdentifier' = [myIdentifier EXCEPT ![q] = c.apple]
          BY <1>1, <3>2 DEF AnswerProfile
        <5>3. QED
          BY <5>1, <5>2 DEF IInv, StateTyped
      <4>2. /\ page'[ph] = page[ph]
            /\ formFirebaseId'[ph] = formFirebaseId[ph]
            /\ formIdentifier'[ph] = formIdentifier[ph]
        <5>1. page' = page \/ \E to : Show(q, to)
          BY <1>1, <3>2 DEF AnswerProfile
        <5>2. page'[ph] = page[ph]
          BY <1>1, <5>1 DEF Show, IInv, StateTyped
        <5>3. /\ \/ UNCHANGED formFirebaseId
                 \/ \E d \in Accounts(c.apple) :
                      formFirebaseId' = [formFirebaseId EXCEPT ![q] = d]
              /\ \/ UNCHANGED formIdentifier
                 \/ formIdentifier' = [formIdentifier EXCEPT ![q] = c.apple]
          BY <1>1, <3>2 DEF AnswerProfile, form
        <5>4. QED
          BY <1>1, <5>2, <5>3 DEF IInv, StateTyped
      <4>3. QED
        BY <4>1, <4>2 DEF ScreenSame
    <3>3. CASE AnswerLaunch(c)
      BY <1>1, <3>3 DEF AnswerLaunch, ScreenSame, IInv, StateTyped
    <3>4. QED
      BY <1>1, <3>1, <3>2, <3>3
  <2>4. OfPhone(signIns', ph) = OfPhone(signIns, ph)
    <3>1. /\ signIns \ {c} \subseteq SignInCall
          /\ OfPhone(signIns \ {c}, ph) = OfPhone(signIns, ph)
      BY <1>1, CallElsewhere DEF IInv, StateTyped
    <3>2. OfPhone(Forsaken(signIns \ {c}, q), ph) = OfPhone(signIns, ph)
      BY <3>1, OfPhoneForsaken
    <3>3. CASE AnswerSomebody(c)
      <4>1. PICK b : b.ph # ph /\ signIns' = (signIns \ {c}) \cup {b}
        BY <1>1, <3>3 DEF AnswerSomebody
      <4>2. QED
        BY <3>1, <4>1, CallElsewhere
    <3>4. CASE AnswerNobody(c) \/ AnswerProfile(c) \/ AnswerLaunch(c)
      BY <1>1, <3>1, <3>2, <3>4 DEF AnswerNobody, AnswerProfile, AnswerLaunch
    <3>5. QED
      BY <1>1, <3>3, <3>4
  <2>5. QED
    BY <2>1, <2>2, <2>3, <2>4 DEF SeesSame, CallsSame
<1>2. ASSUME NEW c \in checks, c.ph = q, AnswerCheck(c) PROVE SeesSame(ph)
  <2>1. DocsSame(ph) /\ ScreenSame(ph)
    BY <1>2, DocumentsSame DEF AnswerCheck, ScreenSame
  <2>2. OfPhone(checks', ph) = OfPhone(checks, ph)
    BY <1>2, CallElsewhere DEF AnswerCheck
  <2>3. CASE UNCHANGED writes
    BY <1>2, <2>1, <2>2, <2>3 DEF AnswerCheck, SeesSame, CallsSame
  <2>4. CASE ~UNCHANGED writes
    <3>1. PICK d \in IF c.do = "save" THEN DocOf(c) ELSE {c.doc} :
            writes' = writes \cup
              {[n |-> c.n, ph |-> c.ph,
                do |-> IF c.do = "save" THEN "save" ELSE "update",
                apple |-> c.apple, doc |-> d, val |-> c.to, awaited |-> c.awaited]}
      BY <1>2, <2>4 DEF AnswerCheck
    <3>2. PICK w : w.ph # ph /\ writes' = writes \cup {w}
      BY <1>2, <3>1
    <3>3. OfPhone(writes', ph) = OfPhone(writes, ph)
      BY <3>2, CallElsewhere
    <3>4. QED
      BY <1>2, <2>1, <2>2, <3>3 DEF AnswerCheck, SeesSame, CallsSame
  <2>5. QED
    BY <2>3, <2>4
<1>3. ASSUME NEW c \in uploads, c.ph = q, PutData(c) PROVE SeesSame(ph)
  <2>1. DocsSame(ph) /\ ScreenSame(ph)
    BY <1>3, DocumentsSame DEF PutData, ScreenSame
  <2>2. OfPhone(uploads', ph) = OfPhone(uploads, ph)
    BY <1>3, CallElsewhere DEF PutData
  <2>3. PICK w : w.ph # ph /\ writes' = writes \cup {w}
    BY <1>3 DEF PutData
  <2>4. OfPhone(writes', ph) = OfPhone(writes, ph)
    BY <2>3, CallElsewhere
  <2>5. QED
    BY <1>3, <2>1, <2>2, <2>4 DEF PutData, SeesSame, CallsSame
<1>4. QED
  BY <1>1, <1>2, <1>3

\* A write of a phone changes the screen and the calls of no other one.
LEMMA CommitScreens ==
    ASSUME IInv, NEW q \in Phones, NEW ph \in Phones, ph # q,
           NEW w \in writes, w.ph = q,
           \/ CommitSave(w) \/ CommitUpdate(w) \/ CommitRemove(w)
           \/ CommitImage(w) \/ FailWrite(w)
    PROVE  ScreenSame(ph) /\ CallsSame(ph)
<1>1. ScreenSame(ph)
  <2> USE DEF ScreenSame, LeaveFor, Show, SaveUserDefault, DeleteUserDefault,
              defaults, form, IInv, StateTyped
  <2>1. CASE CommitSave(w)
    BY <2>1 DEF CommitSave
  <2>2. CASE CommitUpdate(w)
    BY <2>2 DEF CommitUpdate
  <2>3. CASE CommitRemove(w) \/ CommitImage(w) \/ FailWrite(w)
    BY <2>3 DEF CommitRemove, CommitImage, FailWrite
  <2>4. QED
    BY <2>1, <2>2, <2>3
<1>2. /\ writes \ {w} \subseteq WriteCall
      /\ OfPhone(writes \ {w}, ph) = OfPhone(writes, ph)
  BY CallElsewhere DEF IInv, StateTyped
<1>3. /\ OfPhone(Forsaken(checks, q), ph) = OfPhone(checks, ph)
      /\ OfPhone(Forsaken(writes \ {w}, q), ph) = OfPhone(writes, ph)
  BY <1>2, OfPhoneForsaken DEF IInv, StateTyped
<1>4. QED
  BY <1>1, <1>2, <1>3
     DEF CallsSame, CommitSave, CommitUpdate, CommitRemove, CommitImage, FailWrite,
         LeaveFor

\* A write of a phone that shares no user changes only documents that are not
\* of this phone's users.
LEMMA CommitElsewhere ==
    ASSUME IInv, OwnPhones, NEW q \in Phones, NEW ph \in Phones, ph # q, Session(q),
           NEW w \in writes, w.ph = q,
           \/ CommitSave(w) \/ CommitUpdate(w) \/ CommitRemove(w)
           \/ CommitImage(w) \/ FailWrite(w)
    PROVE  SeesSame(ph)
<1>1. Writing(q, w)
  BY OneCall
<1>2. \A a \in signers[q] : a \notin signers[ph] /\ a # None
  BY AccountAssumption DEF OwnPhones
<1>3. w.doc \in Docs \cup {None}
  BY DEF IInv, StateTyped, WriteCall
<1>4. DocsSame(ph)
  <2>1. CASE CommitSave(w)
    <3>1. w.apple \in signers[q]
      BY <1>1, <2>1 DEF Writing, FormFilled, CommitSave
    <3>2. w.doc \in Docs /\ userIdentifier[w.doc] \in {None, w.apple}
      BY <1>3, <2>1 DEF IInv, SavesSound, CommitSave
    <3>3. None \notin signers[ph]
      BY AccountAssumption
    <3>4. QED
      BY <1>2, <2>1, <3>1, <3>2, <3>3 DEF CommitSave, DocsSame, IInv, StateTyped
  <2>2. CASE CommitUpdate(w) \/ CommitRemove(w)
    <3>1. w.doc \in Docs /\ userIdentifier[w.doc] \in signers[q]
      BY <1>1, <2>2 DEF Writing, EditsOwn, SignedIn, Accounts, CommitUpdate, CommitRemove
    <3>2. QED
      BY <1>2, <2>2, <3>1 DEF CommitUpdate, CommitRemove, DocsSame, IInv, StateTyped
  <2>3. CASE CommitImage(w) \/ FailWrite(w)
    BY <2>3 DEF CommitImage, FailWrite, DocsSame, users
  <2>4. QED
    BY <2>1, <2>2, <2>3
<1>5. QED
  BY <1>4, CommitScreens DEF SeesSame

-----------------------------------------------------------------------------
(* Patient sessions.                                                       *)

\* The document that a save writes is the only one of its user.
LEMMA SavesOneAccount ==
    ASSUME IInv, OneAccount, ~hasty, NEW ph \in Phones, Session(ph),
           NEW w \in writes, w.ph = ph, CommitSave(w), hasty' = hasty
    PROVE  OneAccount'
<1>1. Writing(ph, w)
  BY OneCall
<1>2. /\ FormFilled(ph) /\ w.apple = formIdentifier[ph]
      /\ formFirebaseId[ph] \in {None, w.doc}
  BY <1>1 DEF Writing, CommitSave
<1>3. Accounts(w.apple) \subseteq {w.doc}
  BY <1>2 DEF FormFilled
<1>4. \A d \in Docs :
        userIdentifier'[d] = IF d = w.doc THEN w.apple ELSE userIdentifier[d]
  BY DEF CommitSave, IInv, StateTyped
<1>5. QED
  BY <1>3, <1>4 DEF OneAccount, Accounts

\* A new app waits for nothing.
LEMMA InitPatient == Init => PatientInv
<1> SUFFICES ASSUME Init PROVE OneAccount /\ \A ph \in Phones : Session(ph)
  BY InitIInv DEF PatientInv
<1>1. OneAccount
  BY DEF Init, OneAccount
<1>2. ASSUME NEW ph \in Phones PROVE Session(ph)
  BY DEF Init, Session, InFlight, OfPhone, AtRest
<1>3. QED
  BY <1>1, <1>2

\* A tap, or a restart, waits for the calls of its phone.
LEMMA TapPatient ==
    ASSUME PatientInv, OwnPhones, NEW q \in Phones,
           Tap(q) \/ Reopen(q), Hurries(q), ~hasty'
    PROVE  OneAccount' /\ \A ph \in Phones : Session(ph)'
<1>1. ~hasty /\ Quiet(q)
  BY DEF Hurries
<1>2. IInv /\ OneAccount /\ \A ph \in Phones : Session(ph)
  BY <1>1 DEF PatientInv
<1>3. UNCHANGED userIdentifier
  BY DEF Tap, HandleLogIn, DoneInput, ChangeUserInfo, PushToInputProfile,
         Back, DeleteAccount, Logout, SaveProfileImage, Reopen, users
<1>4. OneAccount'
  BY <1>1, <1>2, <1>3 DEF OneAccount
<1>5. ASSUME NEW ph \in Phones PROVE Session(ph)'
  <2>1. CASE ph = q
    BY <1>1, <1>2, <2>1, TapHere, ReopenHere
  <2>2. CASE ph # q
    <3>1. SeesSame(ph)
      BY <1>2, <2>2, TapElsewhere, ReopenElsewhere
    <3>2. QED
      BY <1>2, <3>1, SessionSame DEF IInv
  <2>3. QED
    BY <2>1, <2>2
<1>6. QED
  BY <1>4, <1>5

\* An answer takes its own phone on, and leaves the sessions of the others.
LEMMA AnswerPatient ==
    ASSUME PatientInv, OwnPhones, NEW q \in Phones, Answer(q), ~hasty'
    PROVE  OneAccount' /\ \A ph \in Phones : Session(ph)'
<1>1. ~hasty /\ hasty' = hasty
  BY DEF Answer
<1>2. IInv /\ OneAccount /\ \A ph \in Phones : Session(ph)
  BY <1>1 DEF PatientInv
<1>3. ASSUME NEW c \in signIns, c.ph = q,
             AnswerNobody(c) \/ AnswerSomebody(c) \/ AnswerProfile(c) \/ AnswerLaunch(c)
      PROVE  /\ UNCHANGED userIdentifier /\ Session(q)'
             /\ \A ph \in Phones : ph # q => SeesSame(ph)
  <2>1. UNCHANGED userIdentifier
    BY <1>3 DEF AnswerNobody, AnswerSomebody, AnswerProfile, AnswerLaunch, users
  <2>2. Session(q)'
    BY <1>1, <1>2, <1>3, SignInHere
  <2>3. QED
    BY <1>2, <1>3, <2>1, <2>2, AnswerElsewhere
<1>4. ASSUME NEW c \in checks, c.ph = q, AnswerCheck(c)
      PROVE  /\ UNCHANGED userIdentifier /\ Session(q)'
             /\ \A ph \in Phones : ph # q => SeesSame(ph)
  <2>1. UNCHANGED userIdentifier
    BY <1>4 DEF AnswerCheck, users
  <2>2. QED
    BY <1>2, <1>4, <2>1, CheckHere, AnswerElsewhere
<1>5. ASSUME NEW c \in uploads, c.ph = q, PutData(c)
      PROVE  /\ UNCHANGED userIdentifier /\ Session(q)'
             /\ \A ph \in Phones : ph # q => SeesSame(ph)
  <2>1. UNCHANGED userIdentifier
    BY <1>5 DEF PutData, users
  <2>2. QED
    BY <1>2, <1>5, <2>1, UploadHere, AnswerElsewhere
<1>6. ASSUME NEW w \in writes, w.ph = q,
             \/ CommitSave(w) \/ CommitUpdate(w) \/ CommitRemove(w)
             \/ CommitImage(w) \/ FailWrite(w)
      PROVE  /\ UNCHANGED userIdentifier \/ OneAccount'
             /\ Session(q)'
             /\ \A ph \in Phones : ph # q => SeesSame(ph)
  <2>1. UNCHANGED userIdentifier \/ OneAccount'
    <3>1. CASE CommitSave(w)
      BY <1>1, <1>2, <1>6, <3>1, SavesOneAccount
    <3>2. CASE \/ CommitUpdate(w) \/ CommitRemove(w)
               \/ CommitImage(w) \/ FailWrite(w)
      BY <3>2 DEF CommitUpdate, CommitRemove, CommitImage, FailWrite, users
    <3>3. QED
      BY <1>6, <3>1, <3>2
  <2>2. Session(q)'
    BY <1>2, <1>6, CommitHere
  <2>3. \A ph \in Phones : ph # q => SeesSame(ph)
    BY <1>2, <1>6, CommitElsewhere
  <2>4. QED
    BY <2>1, <2>2, <2>3
<1>7. /\ UNCHANGED userIdentifier \/ OneAccount'
      /\ Session(q)'
      /\ \A ph \in Phones : ph # q => SeesSame(ph)
  BY <1>3, <1>4, <1>5, <1>6 DEF Answer
<1>8. OneAccount'
  BY <1>1, <1>2, <1>7 DEF OneAccount
<1>9. ASSUME NEW ph \in Phones PROVE Session(ph)'
  BY <1>2, <1>7, SessionSame DEF IInv
<1>10. QED
  BY <1>8, <1>9

\* Every step keeps the sessions of patient users in their flows.
LEMMA NextPatient == PatientInv /\ OwnPhones /\ [Next]_vars => PatientInv'
<1> SUFFICES ASSUME PatientInv, OwnPhones, [Next]_vars PROVE PatientInv'
  OBVIOUS
<1>1. IInv'
  BY NextIInv DEF PatientInv
<1>2. ASSUME ~hasty' PROVE OneAccount' /\ \A ph \in Phones : Session(ph)'
  <2>1. CASE UNCHANGED vars
    <3>1. StateTyped /\ ~hasty /\ OneAccount /\ \A ph \in Phones : Session(ph)
      BY <1>2, <2>1 DEF PatientInv, vars, IInv
    <3>2. \A ph \in Phones : SeesSame(ph)
      BY <2>1 DEF SeesSame, DocsSame, ScreenSame, CallsSame, vars, users, defaults,
                  form, calls
    <3>3. OneAccount'
      BY <2>1, <3>1 DEF OneAccount, vars, users
    <3>4. QED
      BY <3>1, <3>2, <3>3, SessionSame
  <2>2. ASSUME NEW q \in Phones, Tap(q) \/ Reopen(q), Hurries(q)
        PROVE  OneAccount' /\ \A ph \in Phones : Session(ph)'
    BY <1>2, <2>2, TapPatient
  <2>3. ASSUME NEW q \in Phones, Answer(q)
        PROVE  OneAccount' /\ \A ph \in Phones : Session(ph)'
    BY <1>2, <2>3, AnswerPatient
  <2>4. QED
    BY <1>2, <2>1, <2>2, <2>3 DEF Next
<1>3. QED
  BY <1>1, <1>2 DEF PatientInv

\* On phones that share nobody, patient users are always at one point of one
\* flow, which page, form, user defaults, documents and the one call agree on.
THEOREM PatientFlows == ASSUME OwnPhones PROVE Spec => []PatientInv
<1>1. PatientInv /\ [Next]_vars => PatientInv'
  BY NextPatient
<1>2. QED
  BY <1>1, InitPatient, PTL DEF Spec

\* However often they sign out, remove their account and sign in again, patient
\* users of one phone each keep one document each.
THEOREM OneAccountEach == ASSUME OwnPhones PROVE Spec => []OneAccount
<1>1. PatientInv => OneAccount
  BY DEF PatientInv, OneAccount
<1>2. QED
  BY <1>1, PatientFlows, PTL

\* When the calls of such a phone are done, it shows the pages of a user exactly
\* if one is signed in, and then the user defaults are what the document of this
\* user says, which has not been removed.
THEOREM SessionsAgree == ASSUME OwnPhones PROVE Spec => []SessionAgrees
<1>1. PatientInv => SessionAgrees
  <2> SUFFICES ASSUME PatientInv, NEW ph \in Phones, ~hasty, Quiet(ph)
               PROVE  /\ page[ph] \in {"tabs", "profile"} <=> myIdentifier[ph] # None
                      /\ myIdentifier[ph] # None =>
                           /\ myFirebaseId[ph] # None
                           /\ userIdentifier[myFirebaseId[ph]] = myIdentifier[ph]
                           /\ id[myFirebaseId[ph]] = myId[ph]
                           /\ status[myFirebaseId[ph]] = "active"
    BY DEF SessionAgrees
  <2>1. AtRest(ph)
    BY OneCall DEF PatientInv
  <2>2. None \notin signers[ph] /\ None \notin Docs
    BY AccountAssumption
  <2>3. SignedIn(ph) => /\ myIdentifier[ph] # None
                        /\ myFirebaseId[ph] # None
                        /\ userIdentifier[myFirebaseId[ph]] = myIdentifier[ph]
                        /\ id[myFirebaseId[ph]] = myId[ph]
                        /\ status[myFirebaseId[ph]] = "active"
    BY <2>2 DEF SignedIn, Accounts
  <2>4. QED
    BY <2>1, <2>3 DEF AtRest, EditsOwn, FormFilled
<1>2. QED
  BY <1>1, PatientFlows, PTL

-----------------------------------------------------------------------------
(* Writes, and what they were started for.                                  *)

\* Two writes of the same value.
SameWrite(b, w) == Alike(b, w) /\ b.val = w.val

\* A write is one that was there, awaited by whomever, or was started by one of
\* the four that start writes.
LEMMA WhoWrites ==
    ASSUME StateTyped, [Next]_vars, NEW w \in writes'
    PROVE  \/ \E b \in writes : SameWrite(b, w)
           \/ \E c \in checks : AnswerCheck(c)
           \/ \E c \in uploads : PutData(c)
           \/ w.do = "remove"
           \/ \E ph \in Phones, i \in Ids : Hurries(ph) /\ ChangeUserInfo(ph, i)
<1> SUFFICES ASSUME ~ \E c \in checks : AnswerCheck(c),
                    ~ \E c \in uploads : PutData(c),
                    w.do # "remove",
                    ~ \E ph \in Phones, i \in Ids : Hurries(ph) /\ ChangeUserInfo(ph, i)
             PROVE  \E b \in writes : SameWrite(b, w)
  OBVIOUS
<1>0. w \in writes => \E b \in writes : SameWrite(b, w)
  BY DEF SameWrite, Alike
<1>1. ASSUME NEW ph \in Phones, NEW ws, ws \subseteq writes, w \in Forsaken(ws, ph)
      PROVE  \E b \in writes : SameWrite(b, w)
  <2>1. PICK b \in ws : w = IF b.ph = ph /\ b.awaited = "page"
                           THEN [b EXCEPT !.awaited = "app"] ELSE b
    BY <1>1 DEF Forsaken
  <2>2. SameWrite(b, w)
    BY <1>1, <2>1 DEF SameWrite, Alike, StateTyped, WriteCall
  <2>3. QED
    BY <1>1, <2>2
<1>2. ASSUME NEW ph \in Phones, Tap(ph), Hurries(ph)
      PROVE  \E b \in writes : SameWrite(b, w)
  <2>1. CASE Back(ph)
    BY <1>1, <2>1 DEF Back
  <2>2. CASE DeleteAccount(ph)
    BY <1>1, <2>2 DEF DeleteAccount
  <2>3. QED
    BY <1>0, <1>2, <2>1, <2>2
       DEF Tap, HandleLogIn, DoneInput, PushToInputProfile, Logout,
           SaveProfileImage, calls
<1>3. ASSUME NEW ph \in Phones, Answer(ph) PROVE \E b \in writes : SameWrite(b, w)
  <2>1. ASSUME NEW v \in writes, CommitSave(v) \/ CommitUpdate(v)
        PROVE  \E b \in writes : SameWrite(b, w)
    <3>1. v.ph \in Phones
      BY DEF StateTyped, WriteCall
    <3>2. w \in writes \/ w \in Forsaken(writes \ {v}, v.ph)
      BY <2>1 DEF CommitSave, CommitUpdate
    <3>3. QED
      BY <1>0, <1>1, <3>1, <3>2
  <2>2. QED
    BY <1>0, <1>3, <2>1
       DEF Answer, AnswerNobody, AnswerSomebody, AnswerProfile, AnswerLaunch,
           CommitRemove, CommitImage, FailWrite
<1>4. ASSUME NEW ph \in Phones, Reopen(ph) PROVE \E b \in writes : SameWrite(b, w)
  <2>1. PICK b \in writes :
          w = IF b.ph = ph THEN [b EXCEPT !.awaited = "nobody"] ELSE b
    BY <1>4 DEF Reopen
  <2>2. SameWrite(b, w)
    BY <2>1 DEF SameWrite, Alike, StateTyped, WriteCall
  <2>3. QED
    BY <2>2
<1>5. QED
  BY <1>0, <1>2, <1>3, <1>4 DEF Next, Lose, vars, calls

-----------------------------------------------------------------------------
(* Photos.                                                                 *)

\* The phone of upload c has no other call in flight.
Alone(c) ==
    /\ \A b \in signIns \cup checks \cup writes : b.ph # c.ph
    /\ \A b \in uploads : b.ph = c.ph => b = c

\* A picture is for whoever is signed in on its phone, and a write brings a
\* document its own picture.
PhotosOwn ==
    /\ \A c \in uploads : c.doc = myFirebaseId[c.ph] /\ Alone(c)
    /\ \A w \in writes : w.do = "image" => w.val = w.doc
    /\ \A d \in Docs : image[d] \in {None, d}

PhotoInv == IInv /\ (~hasty => PhotosOwn)

\* An upload stays alone in a step that its phone does not see.
LEMMA AloneElsewhere ==
    ASSUME IInv, PhotosOwn, NEW c \in uploads', c.ph \in Phones,
           ScreenSame(c.ph), CallsSame(c.ph)
    PROVE  c.doc = myFirebaseId'[c.ph] /\ Alone(c)'
<1>1. c \in uploads
  BY DEF CallsSame, OfPhone
<1>2. c.doc = myFirebaseId[c.ph] /\ Alone(c)
  BY <1>1 DEF PhotosOwn
<1>3. c.doc = myFirebaseId'[c.ph]
  BY <1>2 DEF ScreenSame
<1>4. \A b \in signIns' \cup checks' \cup writes' : b.ph # c.ph
  BY <1>2 DEF CallsSame, OfPhone, Alone
<1>5. \A b \in uploads' : b.ph = c.ph => b = c
  BY <1>2 DEF CallsSame, OfPhone, Alone
<1>6. QED
  BY <1>3, <1>4, <1>5 DEF Alone

\* The picture that a phone sends while it waits for nothing is alone.
LEMMA TapAlone ==
    ASSUME IInv, NEW q \in Phones, Tap(q) \/ Reopen(q), Quiet(q),
           NEW c \in uploads', c.ph = q
    PROVE  c.doc = myFirebaseId'[q] /\ Alone(c)'
<1>1. \A b \in signIns \cup checks \cup uploads \cup writes : b.ph # q
  BY DEF Quiet
<1>2. SaveProfileImage(q)
  BY <1>1 DEF Tap, HandleLogIn, DoneInput, ChangeUserInfo, PushToInputProfile,
              Back, DeleteAccount, Logout, Reopen, calls
<1>3. c = [n |-> ops, ph |-> q, doc |-> myFirebaseId[q]]
  BY <1>1, <1>2 DEF SaveProfileImage
<1>4. c.doc = myFirebaseId'[q]
  BY <1>2, <1>3 DEF SaveProfileImage, defaults
<1>5. \A b \in uploads' : b.ph = q => b = c
  BY <1>1, <1>2, <1>3 DEF SaveProfileImage
<1>6. \A b \in signIns' \cup checks' \cup writes' : b.ph # q
  BY <1>1, <1>2 DEF SaveProfileImage
<1>7. QED
  BY <1>4, <1>5, <1>6 DEF Alone

\* Answers to other calls of its phone there are none.
LEMMA AnswerAlone ==
    ASSUME PhotosOwn, NEW q \in Phones, Answer(q), NEW c \in uploads', c.ph = q
    PROVE  FALSE
<1>1. uploads' \subseteq uploads
  BY DEF Answer, AnswerNobody, AnswerSomebody, AnswerProfile, AnswerLaunch,
         AnswerCheck, PutData, CommitSave, CommitUpdate, CommitRemove,
         CommitImage, FailWrite
<1>2. c \in uploads /\ Alone(c)
  BY <1>1 DEF PhotosOwn
<1>3. PutData(c)
  BY <1>2 DEF Alone, Answer
<1>4. QED
  BY <1>3 DEF PutData

\* Who is not the one that taps or is answered sees nothing of it.
LEMMA OthersSame ==
    ASSUME IInv, NEW q \in Phones, Tap(q) \/ Reopen(q) \/ Answer(q),
           NEW ph \in Phones, ph # q
    PROVE  ScreenSame(ph) /\ CallsSame(ph)
<1>1. CASE Tap(q) \/ Reopen(q)
  BY <1>1, TapElsewhere, ReopenElsewhere DEF SeesSame
<1>2. ASSUME NEW w \in writes, w.ph = q,
             \/ CommitSave(w) \/ CommitUpdate(w) \/ CommitRemove(w)
             \/ CommitImage(w) \/ FailWrite(w)
      PROVE  ScreenSame(ph) /\ CallsSame(ph)
  BY <1>2, CommitScreens
<1>3. CASE Answer(q) /\ ~ \E w \in writes :
             w.ph = q /\ \/ CommitSave(w) \/ CommitUpdate(w) \/ CommitRemove(w)
                         \/ CommitImage(w) \/ FailWrite(w)
  BY <1>3, AnswerElsewhere DEF SeesSame, Answer
<1>4. QED
  BY <1>1, <1>2, <1>3 DEF Answer

\* A document gets a picture from a write of it only.
LEMMA WhoPictures ==
    [Next]_vars => \/ \E w \in writes : CommitSave(w) \/ CommitImage(w)
                   \/ UNCHANGED image
<1> SUFFICES ASSUME [Next]_vars,
                    ~ \E w \in writes : CommitSave(w) \/ CommitImage(w)
             PROVE  UNCHANGED image
  OBVIOUS
<1> USE DEF users
<1>1. ASSUME NEW ph \in Phones, Tap(ph) PROVE UNCHANGED image
  BY <1>1 DEF Tap, HandleLogIn, DoneInput, ChangeUserInfo, PushToInputProfile,
              Back, DeleteAccount, Logout, SaveProfileImage
<1>2. ASSUME NEW ph \in Phones, Answer(ph) PROVE UNCHANGED image
  BY <1>2 DEF Answer, AnswerNobody, AnswerSomebody, AnswerProfile, AnswerLaunch,
              AnswerCheck, PutData, CommitUpdate, CommitRemove, FailWrite
<1>3. QED
  BY <1>1, <1>2 DEF Next, Reopen, Lose, vars

\* Every step of patient users keeps the pictures their own.
LEMMA NextPhotoInv == PhotoInv /\ [Next]_vars => PhotoInv'
<1> SUFFICES ASSUME PhotoInv, [Next]_vars, ~hasty' PROVE PhotosOwn'
  BY NextIInv DEF PhotoInv
<1>0. ~hasty
  BY DEF Next, Hurries, Answer, vars
<1>1. IInv /\ StateTyped /\ ~hasty
  BY <1>0 DEF PhotoInv, IInv
<1>2. PhotosOwn
  BY <1>1 DEF PhotoInv
<1>3. ASSUME NEW c \in uploads' PROVE c.doc = myFirebaseId'[c.ph] /\ Alone(c)'
  <2>1. c.ph \in Phones
    <3>1. StateTyped'
      BY <1>1, NextTyped
    <3>2. QED
      BY <3>1 DEF StateTyped, UploadCall
  <2>2. ASSUME NEW q \in Phones, Tap(q) \/ Reopen(q), Hurries(q)
        PROVE  c.doc = myFirebaseId'[c.ph] /\ Alone(c)'
    <3>1. Quiet(q)
      BY <2>2 DEF Hurries
    <3>2. CASE c.ph = q
      BY <1>1, <2>2, <3>1, <3>2, TapAlone
    <3>3. CASE c.ph # q
      BY <1>1, <1>2, <2>1, <2>2, <3>3, OthersSame, AloneElsewhere
    <3>4. QED
      BY <3>2, <3>3
  <2>3. ASSUME NEW q \in Phones, Answer(q)
        PROVE  c.doc = myFirebaseId'[c.ph] /\ Alone(c)'
    <3>1. c.ph # q
      BY <1>2, <2>3, AnswerAlone
    <3>2. QED
      BY <1>1, <1>2, <2>1, <2>3, <3>1, OthersSame, AloneElsewhere
  <2>4. CASE UNCHANGED vars
    BY <1>2, <2>4 DEF PhotosOwn, Alone, vars, defaults, calls
  <2>5. QED
    BY <2>2, <2>3, <2>4 DEF Next
<1>4. ASSUME NEW w \in writes', w.do = "image" PROVE w.val = w.doc
  <2>1. ASSUME NEW b \in writes, SameWrite(b, w) PROVE w.val = w.doc
    BY <1>2, <1>4, <2>1 DEF SameWrite, Alike, PhotosOwn
  <2>2. w \in writes => w.val = w.doc
    BY <1>2, <1>4 DEF PhotosOwn
  <2>3. ASSUME NEW c \in checks, AnswerCheck(c) PROVE w \in writes
    BY <1>4, <2>3 DEF AnswerCheck
  <2>4. ASSUME NEW c \in uploads, PutData(c) PROVE w.val = w.doc
    BY <1>2, <2>2, <2>4 DEF PutData, PhotosOwn
  <2>5. ASSUME NEW ph \in Phones, NEW i \in Ids, ChangeUserInfo(ph, i)
        PROVE  w \in writes
    BY <1>4, <2>5 DEF ChangeUserInfo
  <2>6. QED
    BY <1>1, <1>4, <2>1, <2>2, <2>3, <2>4, <2>5, WhoWrites
<1>5. ASSUME NEW d \in Docs PROVE image'[d] \in {None, d}
  <2>1. image[d] \in {None, d}
    BY <1>2 DEF PhotosOwn
  <2>2. ASSUME NEW w \in writes, CommitSave(w) PROVE image'[d] \in {None, d}
    BY <1>1, <2>1, <2>2 DEF CommitSave, StateTyped
  <2>3. ASSUME NEW w \in writes, CommitImage(w) PROVE image'[d] \in {None, d}
    BY <1>1, <1>2, <2>1, <2>3 DEF CommitImage, StateTyped, PhotosOwn
  <2>4. QED
    BY <2>1, <2>2, <2>3, WhoPictures
<1>6. QED
  BY <1>3, <1>4, <1>5 DEF PhotosOwn

\* Whoever else signs in, on this phone or on another one, a patient user's
\* document shows their own photo: the upload's completion finds the user
\* defaults of the user who took it.
THEOREM OwnPhotoShown == Spec => []OwnPhoto
<1>1. Init => PhotoInv
  <2>1. Init => PhotosOwn
    BY DEF Init, PhotosOwn
  <2>2. QED
    BY <2>1, InitIInv DEF PhotoInv
<1>2. PhotoInv => OwnPhoto
  BY DEF PhotoInv, PhotosOwn, OwnPhoto
<1>3. QED
  BY <1>1, <1>2, NextPhotoInv, PTL DEF Spec

-----------------------------------------------------------------------------
(* Ids.                                                                    *)

\* No two phones are past their look-ups of one id, which both found free, with
\* the writes of it under way.
IdsApart ==
    \A v, w \in writes :
        /\ v.do \in {"save", "update"} /\ w.do \in {"save", "update"}
        /\ v.val = w.val
        => v.ph = w.ph

\* The id that a write will give to its document is no other's.
ValuesFree ==
    \A w \in writes, d \in Docs :
        w.do \in {"save", "update"} /\ userIdentifier[d] # None /\ id[d] = w.val
        => d = w.doc

IdsInv == PatientInv /\ (~hasty => IdsUnique /\ ValuesFree)

\* A phone has one write under way, to the value it started with, and nobody
\* else writes this value.
LEMMA NextValuesFree ==
    ASSUME IdsInv, IdsApart, [Next]_vars, ~hasty, ~hasty', ~UNCHANGED vars
    PROVE  ValuesFree'
<1> SUFFICES ASSUME NEW w \in writes', NEW d \in Docs, w.do \in {"save", "update"},
                    userIdentifier'[d] # None, id'[d] = w.val
             PROVE  d = w.doc
  BY DEF ValuesFree
<1>1. /\ IInv /\ StateTyped /\ IdsUnique /\ ValuesFree
      /\ \A ph \in Phones : Session(ph)
  BY DEF IdsInv, PatientInv, IInv
<1>2. ASSUME NEW ph \in Phones, NEW b \in writes, b.ph = ph
      PROVE  \A v \in writes : v.ph = ph => v = b
  BY <1>1, <1>2, OneCall DEF InFlight, OfPhone
<1>3. ASSUME NEW b \in writes, SameWrite(b, w), UNCHANGED <<userIdentifier, id>>
      PROVE  d = w.doc
  BY <1>1, <1>3 DEF SameWrite, Alike, ValuesFree
<1>4. ASSUME NEW c \in checks, AnswerCheck(c) PROVE d = w.doc
  <2>1. UNCHANGED <<userIdentifier, id>>
    BY <1>4 DEF AnswerCheck, users
  <2>2. CASE w \in writes
    BY <1>3, <2>1, <2>2 DEF SameWrite, Alike
  <2>3. CASE w \notin writes
    <3>1. Free(c.id) /\ w.val = c.to
      BY <1>4, <2>3 DEF AnswerCheck
    <3>2. c.ph \in Phones
      BY <1>1 DEF StateTyped, CheckCall
    <3>3. c.to = c.id
      BY <1>1, <3>2, OneCall DEF Checking
    <3>4. QED
      BY <2>1, <3>1, <3>3 DEF Free
  <2>4. QED
    BY <2>2, <2>3
<1>5. ASSUME NEW ph \in Phones, NEW i \in Ids, ChangeUserInfo(ph, i), Hurries(ph)
      PROVE  d = w.doc
  <2>1. UNCHANGED <<userIdentifier, id>>
    BY <1>5 DEF ChangeUserInfo, users
  <2>2. CASE w \in writes
    BY <1>3, <2>1, <2>2 DEF SameWrite, Alike
  <2>3. CASE w \notin writes
    <3>1. w.val = myId[ph] /\ w.doc = formFirebaseId[ph] /\ page[ph] = "profile"
      BY <1>5, <2>3 DEF ChangeUserInfo
    <3>2. EditsOwn(ph)
      BY <1>1, <1>5, <3>1, OneCall DEF Hurries, AtRest
    <3>3. /\ myFirebaseId[ph] \in Docs /\ w.doc = myFirebaseId[ph]
          /\ id[w.doc] = w.val /\ userIdentifier[w.doc] = myIdentifier[ph]
          /\ myIdentifier[ph] # None
      BY <3>1, <3>2, AccountAssumption DEF EditsOwn, SignedIn, Accounts
    <3>4. QED
      BY <1>1, <2>1, <3>3 DEF IdsUnique
  <2>4. QED
    BY <2>2, <2>3
<1>6. CASE UNCHANGED <<userIdentifier, id>>
  <2>1. ASSUME NEW c \in uploads, PutData(c) PROVE w \in writes
    BY <2>1 DEF PutData
  <2>2. QED
    BY <1>1, <1>3, <1>4, <1>5, <1>6, <2>1, WhoWrites DEF SameWrite, Alike
<1>7. CASE ~UNCHANGED <<userIdentifier, id>>
  <2>1. PICK v \in writes : CommitSave(v) \/ CommitUpdate(v)
    <3> SUFFICES ASSUME ~ \E v \in writes : CommitSave(v) \/ CommitUpdate(v)
                 PROVE  UNCHANGED <<userIdentifier, id>>
      BY <1>7
    <3>1. ASSUME NEW ph \in Phones, Tap(ph) PROVE UNCHANGED users
      BY <3>1 DEF Tap, HandleLogIn, DoneInput, ChangeUserInfo, PushToInputProfile,
                  Back, DeleteAccount, Logout, SaveProfileImage
    <3>2. ASSUME NEW ph \in Phones, Answer(ph) PROVE UNCHANGED <<userIdentifier, id>>
      BY <3>2 DEF Answer, AnswerNobody, AnswerSomebody, AnswerProfile, AnswerLaunch,
                  AnswerCheck, PutData, CommitRemove, CommitImage, FailWrite, users
    <3>3. QED
      BY <3>1, <3>2 DEF Next, Reopen, Lose, vars, users
  <2>2. v.ph \in Phones
    BY <1>1 DEF StateTyped, WriteCall
  <2>3. v.doc \in Docs /\ v.do \in {"save", "update"}
    BY <1>1, <2>1 DEF StateTyped, WriteCall, CommitSave, CommitUpdate, IInv, SavesSound
  <2>4. PICK b \in writes \ {v} : SameWrite(b, w)
    <3>1. w \in Forsaken(writes \ {v}, v.ph) \/ w \in writes \ {v}
      BY <2>1 DEF CommitSave, CommitUpdate
    <3>2. PICK b \in writes \ {v} :
            w = b \/ w = [b EXCEPT !.awaited = "app"]
      BY <3>1 DEF Forsaken
    <3>3. SameWrite(b, w)
      BY <1>1, <3>2 DEF SameWrite, Alike, StateTyped, WriteCall
    <3>4. QED
      BY <3>3
  <2>5. b.val # v.val
    BY <1>2, <2>2, <2>3, <2>4 DEF IdsApart, SameWrite, Alike
  <2>6. /\ id'[d] = IF d = v.doc THEN v.val ELSE id[d]
        /\ d # v.doc => userIdentifier'[d] = userIdentifier[d]
    BY <1>1, <2>1, <2>3 DEF CommitSave, CommitUpdate, StateTyped
  <2>7. d # v.doc
    BY <2>4, <2>5, <2>6 DEF SameWrite
  <2>8. QED
    BY <1>1, <2>4, <2>6, <2>7 DEF ValuesFree, SameWrite, Alike
<1>8. QED
  BY <1>6, <1>7

\* Whoever is given an id by a write is the only one.
LEMMA NextIdsUnique ==
    ASSUME IdsInv, [Next]_vars, ~hasty, ~hasty'
    PROVE  IdsUnique'
<1>1. IInv /\ StateTyped /\ IdsUnique /\ ValuesFree
  BY DEF IdsInv, PatientInv, IInv
<1>2. ASSUME NEW v \in writes, CommitSave(v) \/ CommitUpdate(v) PROVE IdsUnique'
  <2>1. v.doc \in Docs
    BY <1>1, <1>2 DEF StateTyped, WriteCall, CommitSave, CommitUpdate, IInv, SavesSound
  <2>2. \A d \in Docs : id'[d] = IF d = v.doc THEN v.val ELSE id[d]
    BY <1>1, <1>2 DEF CommitSave, CommitUpdate, StateTyped
  <2>3. \A d \in Docs \ {v.doc} : userIdentifier'[d] = userIdentifier[d]
    BY <1>1, <1>2 DEF CommitSave, CommitUpdate, StateTyped
  <2>4. \A d \in Docs \ {v.doc} : userIdentifier[d] # None => id[d] # v.val
    BY <1>1, <1>2 DEF ValuesFree, CommitSave, CommitUpdate
  <2>5. QED
    BY <1>1, <2>1, <2>2, <2>3, <2>4 DEF IdsUnique
<1>3. CASE ~ \E v \in writes : CommitSave(v) \/ CommitUpdate(v)
  <2>1. ASSUME NEW ph \in Phones, Tap(ph) PROVE UNCHANGED users
    BY <2>1 DEF Tap, HandleLogIn, DoneInput, ChangeUserInfo, PushToInputProfile,
                Back, DeleteAccount, Logout, SaveProfileImage
  <2>2. ASSUME NEW ph \in Phones, Answer(ph) PROVE UNCHANGED <<userIdentifier, id>>
    BY <1>3, <2>2 DEF Answer, AnswerNobody, AnswerSomebody, AnswerProfile, AnswerLaunch,
                      AnswerCheck, PutData, CommitRemove, CommitImage, FailWrite, users
  <2>3. UNCHANGED <<userIdentifier, id>>
    BY <2>1, <2>2 DEF Next, Reopen, Lose, vars, users
  <2>4. QED
    BY <1>1, <2>3 DEF IdsUnique
<1>4. QED
  BY <1>2, <1>3

\* However many phones there are, patient users who share none get an id that is
\* somebody else's in one way only: two phones whose look-ups both found it free
\* write it at the same time.
THEOREM IdsUniqueUnlessRaced ==
    ASSUME OwnPhones PROVE Spec /\ []IdsApart => []IdsUnique
<1>1. Init => IdsInv
  <2>1. Init => IdsUnique /\ ValuesFree
    BY DEF Init, IdsUnique, ValuesFree
  <2>2. QED
    BY <2>1, InitPatient DEF IdsInv
<1>2. IdsInv /\ IdsApart /\ [Next]_vars => IdsInv'
  <2> SUFFICES ASSUME IdsInv, IdsApart, [Next]_vars PROVE IdsInv'
    OBVIOUS
  <2>1. PatientInv'
    BY NextPatient DEF IdsInv
  <2>2. ASSUME ~hasty' PROVE IdsUnique' /\ ValuesFree'
    <3>1. ~hasty
      BY <2>2 DEF Next, Hurries, Answer, vars
    <3>2. CASE UNCHANGED vars
      BY <3>1, <3>2 DEF IdsInv, IdsUnique, ValuesFree, vars, users, calls
    <3>3. CASE ~UNCHANGED vars
      BY <2>2, <3>1, <3>3, NextValuesFree, NextIdsUnique
    <3>4. QED
      BY <3>2, <3>3
  <2>3. QED
    BY <2>1, <2>2 DEF IdsInv
<1>3. IdsInv => IdsUnique
  BY DEF IdsInv, IdsUnique
<1>4. QED
  BY <1>1, <1>2, <1>3, PTL DEF Spec

=============================================================================
