----------------------------- MODULE CourtQueue -----------------------------
(***************************************************************************)
(* Lining up for a court: PlayOneViewController and PlayOneDataManager.    *)
(*                                                                         *)
(* Each court document holds `finder_ids', the users in line.  A client    *)
(* that lines up creates its own document in `play_one_finders' and edits  *)
(* the court's list by a read, a callback and a write of the whole list.   *)
(* What the user may tap next is not decided by these calls but by the     *)
(* next fetch of all courts, which a snapshot listener starts after every  *)
(* change and which can be overtaken by a later one.                       *)
(*                                                                         *)
(* As in Roster, a write is committed together with the callback that      *)
(* issues it.  A client's writes to its own document keep their order.     *)
(***************************************************************************)
EXTENDS Naturals, Sequences, SequencesExt, Lists

CONSTANTS
    Users,       \* firebaseIds; every user has one client
    Courts,      \* document ids of courts, which no client creates or deletes
    order,       \* order[c]: where court c is shown
    NoCourt,     \* courtIAdded == nil
    Unread,      \* the list, or the courts, of a read that is not answered
    MaxFetches,  \* bound on the fetches of one client in flight
    MaxOps       \* bound on the taps that start a write

ASSUME CourtQueueAssumption ==
    /\ order \in [Courts -> Nat]
    /\ NoCourt \notin Courts
    /\ Unread \notin Seq(Users) \cup [Courts -> Seq(Users)]
    /\ MaxFetches \in Nat
    /\ MaxOps \in Nat

VARIABLES
    \* Firestore
    finderIds,     \* finder_ids of a court
    finderDoc,     \* play_one_finders document: none, no photo yet, photo
    \* PlayOneViewController, by user
    playOneData,   \* "empty", or fetched "with" or "without" the user
    canAddPlay,
    courtIAdded,
    cancelItem,    \* the "cancel" bar button item is there
    lineUpButton,  \* the courts whose section header shows the "+"
    \* calls in flight
    news,          \* the listener has a snapshot to deliver to the user
    fetches, courtJobs, docWrites, uploads,
    \* history, never read by the system
    tapped,        \* <<u, c>>: u has tapped the "+" of court c
    ops            \* those taps so far

documents == <<finderIds, finderDoc>>
buttons   == <<canAddPlay, courtIAdded, cancelItem, lineUpButton>>
screen    == <<playOneData, buttons>>
jobs      == <<news, fetches, courtJobs, docWrites, uploads>>
vars      == <<documents, screen, jobs, tapped, ops>>

-----------------------------------------------------------------------------

Fetch    == [id : 1..MaxFetches, user : Users,
             snap : [Courts -> Seq(Users)] \cup {Unread}]
CourtJob == [id : Nat, do : {"add", "delete"}, user : Users, court : Courts,
             snap : Seq(Users) \cup {Unread}]
Upload   == [id : Nat, user : Users]

TypeOK ==
    /\ finderIds \in [Courts -> Seq(Users)]
    /\ finderDoc \in [Users -> {"none", "blank", "photo"}]
    /\ playOneData \in [Users -> {"empty", "with", "without"}]
    /\ canAddPlay \in [Users -> BOOLEAN]
    /\ courtIAdded \in [Users -> Courts \cup {NoCourt}]
    /\ cancelItem \in [Users -> BOOLEAN]
    /\ lineUpButton \in [Users -> SUBSET Courts]
    /\ news \in [Users -> BOOLEAN]
    /\ fetches \subseteq Fetch
    /\ courtJobs \subseteq CourtJob
    /\ docWrites \in [Users -> Seq({"create", "delete"})]
    /\ uploads \subseteq Upload
    /\ tapped \subseteq Users \X Courts
    /\ ops \in 0..MaxOps

\* Nobody is in line; every client has opened the page, and its listener is
\* about to deliver a first snapshot.
Init ==
    /\ finderIds = [c \in Courts |-> <<>>]
    /\ finderDoc = [u \in Users |-> "none"]
    /\ playOneData = [u \in Users |-> "empty"]
    /\ canAddPlay = [u \in Users |-> TRUE]
    /\ courtIAdded = [u \in Users |-> NoCourt]
    /\ cancelItem = [u \in Users |-> FALSE]
    /\ lineUpButton = [u \in Users |-> {}]
    /\ news = [u \in Users |-> TRUE]
    /\ fetches = {}
    /\ courtJobs = {}
    /\ docWrites = [u \in Users |-> <<>>]
    /\ uploads = {}
    /\ tapped = {}
    /\ ops = 0

-----------------------------------------------------------------------------
(* The user.                                                               *)

Begin == /\ ops < MaxOps
         /\ ops' = ops + 1

\* getPlayOneCourts: the rows are dropped, the table still shows them, and
\* the query is sent.
GetPlayOneCourts(u) ==
    \E i \in 1..MaxFetches :
        /\ \A f \in fetches : f.user = u => f.id # i
        /\ fetches' = fetches \cup {[id |-> i, user |-> u, snap |-> Unread]}
        /\ playOneData' = [playOneData EXCEPT ![u] = "empty"]

\* Pull to refresh, as often as one likes.
Refresh(u) ==
    /\ GetPlayOneCourts(u)
    /\ UNCHANGED <<documents, buttons, news, courtJobs, docWrites, uploads,
                   tapped, ops>>

AddFirst(u, c) ==           \* mutant: the row's tag is not looked at
    [id |-> ops, do |-> "add", user |-> u,
     court |-> CHOOSE d \in Courts : \A e \in Courts : order[d] <= order[e],
     snap |-> Unread]

AddKept(u, c) ==            \* mutant: the court of an earlier line is used
    [id |-> ops, do |-> "add", user |-> u, court |-> courtIAdded[u],
     snap |-> Unread]

Add(u, c) ==
    [id |-> ops, do |-> "add", user |-> u, court |-> c, snap |-> Unread]

Delete(u) ==
    [id |-> ops, do |-> "delete", user |-> u, court |-> courtIAdded[u],
     snap |-> Unread]

\* The "+" of court c while the rows are there.  If canAddPlay is false a
\* notice is printed.
LineUp(u, c) ==
    /\ Begin
    /\ c \in lineUpButton[u]
    /\ canAddPlay[u]
    /\ playOneData[u] # "empty"
    /\ docWrites' = [docWrites EXCEPT ![u] = Append(@, "create")]
    /\ courtJobs' = courtJobs \cup {Add(u, c)}
    /\ cancelItem' = [cancelItem EXCEPT ![u] = TRUE]
    /\ tapped' = tapped \cup {<<u, c>>}
    /\ UNCHANGED <<documents, playOneData, canAddPlay, courtIAdded,
                   lineUpButton, news, fetches, uploads>>

\* The app ends and is opened again: reads in flight are forgotten, writes to
\* the user's document were stored on the device.
Reopened(u) ==
    /\ playOneData' = [playOneData EXCEPT ![u] = "empty"]
    /\ canAddPlay' = [canAddPlay EXCEPT ![u] = TRUE]
    /\ courtIAdded' = [courtIAdded EXCEPT ![u] = NoCourt]
    /\ cancelItem' = [cancelItem EXCEPT ![u] = FALSE]
    /\ lineUpButton' = [lineUpButton EXCEPT ![u] = {}]
    /\ news' = [news EXCEPT ![u] = TRUE]
    /\ fetches' = {f \in fetches : f.user # u}
    /\ courtJobs' = {j \in courtJobs : j.user # u}
    /\ uploads' = {j \in uploads : j.user # u}
    /\ UNCHANGED <<documents, tapped>>

\* The same tap when the rows were dropped: the user's document is created,
\* then the index is out of range and the app traps.
LineUpTraps(u) ==
    /\ Begin
    /\ lineUpButton[u] # {}
    /\ canAddPlay[u]
    /\ playOneData[u] = "empty"
    /\ docWrites' = [docWrites EXCEPT ![u] = Append(@, "create")]
    /\ Reopened(u)

\* "cancel", then "yes": courtIAdded! is read before it is reset.
CancelPlay(u) ==
    /\ Begin
    /\ cancelItem[u]
    /\ courtIAdded[u] # NoCourt
    /\ cancelItem' = [cancelItem EXCEPT ![u] = FALSE]
    /\ canAddPlay' = [canAddPlay EXCEPT ![u] = TRUE]
    /\ courtJobs' = courtJobs \cup {Delete(u)}
    /\ docWrites' = [docWrites EXCEPT ![u] = Append(@, "delete")]
    /\ courtIAdded' = [courtIAdded EXCEPT ![u] = NoCourt]
    /\ UNCHANGED <<documents, playOneData, lineUpButton, news, fetches,
                   uploads, tapped>>

CancelPlayTraps(u) ==
    /\ Begin
    /\ cancelItem[u]
    /\ courtIAdded[u] = NoCourt
    /\ Reopened(u)
    /\ UNCHANGED docWrites

\* From one's own row, PlayOneFinderViewController and CameraViewController:
\* savePlayOneImage stores a picture, then updates the user's document.
SavePlayOneImage(u) ==
    /\ Begin
    /\ playOneData[u] = "with"
    /\ uploads' = uploads \cup {[id |-> ops, user |-> u]}
    /\ UNCHANGED <<documents, screen, news, fetches, courtJobs, docWrites,
                   tapped>>

UserStep ==
    \E u \in Users :
        \/ Refresh(u)
        \/ \E c \in Courts : LineUp(u, c)
        \/ LineUpTraps(u)
        \/ CancelPlay(u)
        \/ CancelPlayTraps(u)
        \/ SavePlayOneImage(u)

\* A section header is scrolled into view and drawn again: its "+" follows
\* canAddPlay, which a cancel has set meanwhile.  (With the rows dropped the
\* index is out of range and the app traps: Kill.)
RedrawHeader(u, c) ==
    /\ playOneData[u] # "empty"
    /\ lineUpButton' = [lineUpButton EXCEPT ![u] =
                          IF canAddPlay[u] THEN @ \cup {c} ELSE @ \ {c}]
    /\ UNCHANGED <<documents, playOneData, canAddPlay, courtIAdded, cancelItem,
                   jobs, tapped, ops>>

Scroll == \E u \in Users, c \in Courts : RedrawHeader(u, c)

-----------------------------------------------------------------------------
(* What the client receives.                                               *)

\* The snapshot listener of listenPlayOne.
Listen(u) ==
    /\ news[u]
    /\ news' = [news EXCEPT ![u] = FALSE]
    /\ GetPlayOneCourts(u)
    /\ UNCHANGED <<documents, buttons, courtJobs, docWrites, uploads, tapped,
                   ops>>

\* The query of getPlayOneCourts is answered; the users are still to be read.
ReadCourts(f) ==
    /\ f.snap = Unread
    /\ fetches' = (fetches \ {f}) \cup {[f EXCEPT !.snap = finderIds]}
    /\ UNCHANGED <<documents, screen, news, courtJobs, docWrites, uploads,
                   tapped, ops>>

\* The courts in which the fetch found its own user.
Mine(f) == {c \in Courts : Contains(f.snap[c], f.user)}

LastOfAll(cs) ==            \* mutant: the last row of the table
    {c \in Courts : \A d \in Courts : order[d] <= order[c]}

\* The rows are sorted by `order' and the last match overwrites the others.
LastShown(cs) == {c \in cs : \A d \in cs : order[d] <= order[c]}

CanAddAgain(f) ==           \* mutant: `canAddPlay = false' is gone
    canAddPlay[f.user]

\* canAddPlay is reset where the user is found, and set to true nowhere here.
CanAdd(f) == canAddPlay[f.user] /\ Mine(f) = {}

\* The delegate: the rows and the buttons follow the fetch, and the table is
\* reloaded, so that every header's "+" follows canAddPlay.
DidGet(f) ==
    /\ f.snap # Unread
    /\ fetches' = fetches \ {f}
    /\ playOneData' = [playOneData EXCEPT ![f.user] =
                         IF Mine(f) # {} THEN "with" ELSE "without"]
    /\ canAddPlay' = [canAddPlay EXCEPT ![f.user] = CanAdd(f)]
    /\ \E c \in IF Mine(f) = {} THEN {courtIAdded[f.user]}
                ELSE LastShown(Mine(f)) :
         courtIAdded' = [courtIAdded EXCEPT ![f.user] = c]
    /\ cancelItem' = [cancelItem EXCEPT ![f.user] = @ \/ Mine(f) # {}]
    /\ lineUpButton' = [lineUpButton EXCEPT ![f.user] =
                          IF CanAdd(f) THEN Courts ELSE {}]
    /\ UNCHANGED <<documents, news, courtJobs, docWrites, uploads, tapped, ops>>

ClientStep ==
    \/ \E u \in Users : Listen(u)
    \/ \E f \in fetches : ReadCourts(f) \/ DidGet(f)

-----------------------------------------------------------------------------
(* What Firestore does.                                                    *)

\* The first write of u to its own document that is not committed yet.
CommitDoc(u) ==
    /\ docWrites[u] # <<>>
    /\ finderDoc' = [finderDoc EXCEPT ![u] =
                       IF Head(docWrites[u]) = "create" THEN "blank" ELSE "none"]
    /\ docWrites' = [docWrites EXCEPT ![u] = Tail(@)]
    /\ UNCHANGED <<finderIds, screen, news, fetches, courtJobs, uploads,
                   tapped, ops>>

CommitPhotoMerges(j) ==     \* mutant: setData(merge) in place of updateData
    /\ uploads' = uploads \ {j}
    /\ finderDoc' = [finderDoc EXCEPT ![j.user] = "photo"]
    /\ UNCHANGED <<finderIds, screen, news, fetches, courtJobs, docWrites,
                   tapped, ops>>

\* updateData of savePlayOneImage fails on a missing document.
CommitPhoto(j) ==
    /\ uploads' = uploads \ {j}
    /\ finderDoc' = [finderDoc EXCEPT ![j.user] =
                       IF @ = "none" THEN "none" ELSE "photo"]
    /\ UNCHANGED <<finderIds, screen, news, fetches, courtJobs, docWrites,
                   tapped, ops>>

ReadCourt(j) ==
    /\ j.snap = Unread
    /\ courtJobs' = (courtJobs \ {j}) \cup {[j EXCEPT !.snap = finderIds[j.court]]}
    /\ UNCHANGED <<documents, screen, news, fetches, docWrites, uploads,
                   tapped, ops>>

NewLineFirst(j) ==          \* mutant: insert(at: 0)
    IF j.do = "add" THEN <<j.user>> \o j.snap ELSE RemovingFirst(j.snap, j.user)

NewLine(j) == IF j.do = "add" THEN Append(j.snap, j.user)
              ELSE RemovingFirst(j.snap, j.user)

HeardOnce(j) == news        \* mutant: nobody listens after the first snapshot

\* The listeners hear of a change, the writer's own included.
Heard(j) == IF NewLine(j) = finderIds[j.court] THEN news
            ELSE [u \in Users |-> TRUE]

\* addFinderOFACourt, deleteFinderOFACourt.
WriteCourt(j) ==
    /\ j.snap # Unread
    /\ courtJobs' = courtJobs \ {j}
    /\ finderIds' = [finderIds EXCEPT ![j.court] = NewLine(j)]
    /\ news' = Heard(j)
    /\ UNCHANGED <<finderDoc, screen, fetches, docWrites, uploads, tapped, ops>>

StoreStep ==
    \/ \E u \in Users : CommitDoc(u)
    \/ \E j \in uploads : CommitPhoto(j)
    \/ \E j \in courtJobs : ReadCourt(j) \/ WriteCourt(j)

-----------------------------------------------------------------------------
(* Failures.                                                               *)

\* The app is ended by the user or the system, or it traps in a scroll.
Kill(u) == Reopened(u) /\ UNCHANGED <<docWrites, ops>>

\* A call that ends with an error, which the app prints.
Lose ==
    /\ \/ \E f \in fetches : /\ fetches' = fetches \ {f}
                             /\ UNCHANGED <<courtJobs, docWrites, uploads>>
       \/ \E j \in courtJobs : /\ courtJobs' = courtJobs \ {j}
                               /\ UNCHANGED <<fetches, docWrites, uploads>>
       \/ \E u \in Users : /\ docWrites[u] # <<>>
                           /\ docWrites' = [docWrites EXCEPT ![u] = Tail(@)]
                           /\ UNCHANGED <<fetches, courtJobs, uploads>>
       \/ \E j \in uploads : /\ uploads' = uploads \ {j}
                             /\ UNCHANGED <<fetches, courtJobs, docWrites>>
    /\ UNCHANGED <<documents, screen, news, tapped, ops>>

Failure == Lose \/ \E u \in Users : Kill(u)

Next == UserStep \/ Scroll \/ ClientStep \/ StoreStep \/ Failure

\* Any interleaving, any failure.
Spec == Init /\ [][Next]_vars

\* As Spec, without failures.
ReliableSpec == Init /\ [][UserStep \/ Scroll \/ ClientStep \/ StoreStep]_vars

\* One operation at a time: the next one starts when every client shows what
\* the one before it did.  Scrolling is no operation and goes on meanwhile.
Idle ==
    /\ fetches = {} /\ courtJobs = {} /\ uploads = {}
    /\ \A u \in Users : ~news[u] /\ docWrites[u] = <<>>

SerialNext == (Idle /\ UserStep) \/ Scroll \/ ClientStep \/ StoreStep

\* Firestore retries a call until it is answered and keeps listeners open.
SerialSpec == Init /\ [][SerialNext]_vars /\ WF_vars(ClientStep \/ StoreStep)

-----------------------------------------------------------------------------
(* Safety under every interleaving and failure.                            *)

\* The client never refuses a tap on a "+" it shows (the branch of lineUp that
\* prints that one has lined up already is never reached), and it offers to
\* cancel whenever it refuses to line up, with a court to cancel.
ButtonsAgree ==
    \A u \in Users :
        /\ lineUpButton[u] # {} => canAddPlay[u]
        /\ canAddPlay[u] <=> courtIAdded[u] = NoCourt
        /\ ~canAddPlay[u] => cancelItem[u]

\* Nobody is put in a line they did not tap, by any client's write-back.
OnlyTapped ==
    \A c \in Courts : \A i \in DOMAIN finderIds[c] :
        <<finderIds[c][i], c>> \in tapped

\* Nor does a client ever try to cancel in a court its user did not tap.
CancelsOwnCourt ==
    \A u \in Users : courtIAdded[u] # NoCourt => <<u, courtIAdded[u]>> \in tapped

\* A late photo does not bring back the document of a user who cancelled.
NoPhotoComeback ==
    [][\A u \in Users : finderDoc[u] = "none" => finderDoc'[u] # "photo"]_vars

-----------------------------------------------------------------------------
(* One operation at a time.                                                *)

InLine(u, c) == Contains(finderIds[c], u)

\* When nothing is in flight the line, the user's document and every button
\* of the user's screen tell the same story.
StoryAgrees ==
    Idle => \A u \in Users :
        LET waiting == {c \in Courts : InLine(u, c)} IN
        /\ courtIAdded[u] # NoCourt => waiting = {courtIAdded[u]}
        /\ canAddPlay[u] <=> waiting = {}
        /\ lineUpButton[u] = IF waiting = {} THEN Courts ELSE {}
        /\ cancelItem[u] <=> waiting # {}
        /\ finderDoc[u] # "none" <=> waiting # {}

Lines == INSTANCE WaitingLines WITH line <- finderIds

\* The lists are first-come, first-served lines with one place per user.
ImplementsWaitingLines == Lines!Spec

\* Whoever is in line is eventually shown as being there, with a court to
\* cancel, or has left the line.
LineIsShown ==
    \A u \in Users :
        (\E c \in Courts : InLine(u, c)) ~>
            \/ courtIAdded[u] # NoCourt
            \/ \A c \in Courts : ~InLine(u, c)

-----------------------------------------------------------------------------
(* Without failures.                                                       *)

\* PlayOneViewController.cancelPlay: `courtIAdded!', there is a court to
\* cancel whenever cancel can be tapped.
CourtToCancel ==
    \A u \in Users : cancelItem[u] => courtIAdded[u] # NoCourt
=============================================================================
