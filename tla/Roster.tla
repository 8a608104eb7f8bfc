------------------------------- MODULE Roster -------------------------------
(***************************************************************************)
(* Plays, join requests and the two lists that say who plays.              *)
(*                                                                         *)
(* A play document keeps `player_info' (the users on its roster), a user   *)
(* document keeps `my_play_list' (the plays the user takes part in).  The  *)
(* app has no transaction: every change of a list is a Firestore read, a   *)
(* callback, and a write of the whole list back, and one user operation    *)
(* starts several of them at once.  Module FinderDataManager owns plays,   *)
(* module RequestDataManager owns join requests.                           *)
(*                                                                         *)
(* A job is one asynchronous call in flight.  A job that edits a list has  *)
(* two steps: the read (`snap' holds what the callback is given) and the   *)
(* write, which is committed together with its completion handler.  A      *)
(* client's own writes are applied in the order they were issued and are   *)
(* visible to its own later reads, so nothing can be observed between the  *)
(* callback that issues a write and the commit of that write other than    *)
(* what an earlier read would have seen.                                   *)
(***************************************************************************)
EXTENDS Naturals, Sequences, SequencesExt, Lists

CONSTANTS
    Users,      \* firebaseIds of the user documents
    Plays,      \* document ids of plays, each taken by one savePlay
    Requests,   \* document ids of requests, each taken by one saveRequest
    finderId,   \* finderId[p]: the user who posts play p
    senderId,   \* senderId[r]: request_sender_id of r
    playId,     \* playId[r]: play_id of r; its finder is request_receiver_id
    Unread,     \* `snap' of a job whose read has not been answered
    MaxOps,     \* bound on the number of user operations
    MaxTangled  \* the bound once calls have overlapped or failed

ASSUME RosterAssumption ==
    /\ finderId \in [Plays -> Users]
    /\ senderId \in [Requests -> Users]
    /\ playId \in [Requests -> Plays]
    \* AddPlayViewController hides the send button on one's own play.
    /\ \A r \in Requests : senderId[r] # finderId[playId[r]]
    /\ Unread \notin Seq(Plays) \cup Seq(Users)
    /\ MaxOps \in Nat

ASSUME TangledAssumption == MaxTangled \in Nat

VARIABLES
    \* Firestore
    playDoc,      \* play document: not yet named, named, stored, deleted
    playerInfo,   \* player_info of a stored play
    myPlayList,   \* my_play_list of a user
    status,       \* request document: life cycle, and its status while stored
    \* what the screens show
    received,     \* RequestsReceivedViewController.myRequests, by status
    sent,         \* RequestSentViewController.myRequests, by status
    page,         \* MyFindersViewController.myFinders: player_info as fetched
    \* calls in flight
    playJobs, requestJobs, statusJobs, listJobs, infoJobs,
    \* history, never read by the system
    granted,      \* <<u, p>>: a request of u for p was committed as accepted
    ledger,       \* ledger[u][p]: seats u holds in p by the decisions committed
    wiped,        \* users who have returned to a removed account
    ops,          \* user operations so far
    tangled       \* an operation began while calls of another were in flight,
                  \* its user left the phone, or a call failed

documents == <<playDoc, playerInfo, myPlayList, status>>
screens   == <<received, sent, page>>
jobs      == <<playJobs, requestJobs, statusJobs, listJobs, infoJobs>>
history   == <<granted, ledger, wiped>>
vars      == <<documents, screens, jobs, history, ops, tangled>>

-----------------------------------------------------------------------------

\* The values of `status' a request document can hold (Requests.swift).
Stored == {"pending", "accepted", "denied", "cancelled"}

PlayState    == {"none", "drafted", "live", "gone"}
RequestState == {"none", "drafted", "gone"} \cup Stored

PlayJob    == [id : Nat, do : {"save", "delete", "sweep"}, play : Plays]
RequestJob == [id : Nat, do : {"check", "put", "delete"}, req : Requests]
StatusJob  == [id : Nat, req : Requests, to : Stored, was : Stored]
ListJob    == [id : Nat, leg : Nat, do : {"append", "remove", "purge"},
               user : Users, play : Plays, snap : Seq(Plays) \cup {Unread}]
InfoJob    == [id : Nat, do : {"append", "remove"},
               user : Users, play : Plays, snap : Seq(Users) \cup {Unread}]

StateTyped ==
    /\ playDoc \in [Plays -> PlayState]
    /\ playerInfo \in [Plays -> Seq(Users)]
    /\ myPlayList \in [Users -> Seq(Plays)]
    /\ status \in [Requests -> RequestState]
    /\ received \in [Requests -> Stored \cup {"none"}]
    /\ sent \in [Requests -> Stored \cup {"none"}]
    /\ page \in [Plays -> Seq(Users) \cup {Unread}]
    /\ playJobs \subseteq PlayJob
    /\ requestJobs \subseteq RequestJob
    /\ statusJobs \subseteq StatusJob
    /\ listJobs \subseteq ListJob
    /\ infoJobs \subseteq InfoJob
    /\ granted \subseteq Users \X Plays
    /\ ledger \in [Users -> [Plays -> Nat]]
    /\ wiped \subseteq Users
    /\ ops \in 0..MaxOps

TypeOK == StateTyped /\ tangled \in BOOLEAN

Init ==
    /\ playDoc = [p \in Plays |-> "none"]
    /\ playerInfo = [p \in Plays |-> <<>>]
    /\ myPlayList = [u \in Users |-> <<>>]
    /\ status = [r \in Requests |-> "none"]
    /\ received = [r \in Requests |-> "none"]
    /\ sent = [r \in Requests |-> "none"]
    /\ page = [p \in Plays |-> Unread]
    /\ playJobs = {}
    /\ requestJobs = {}
    /\ statusJobs = {}
    /\ listJobs = {}
    /\ infoJobs = {}
    /\ granted = {}
    /\ ledger = [u \in Users |-> [p \in Plays |-> 0]]
    /\ wiped = {}
    /\ ops = 0
    /\ tangled = FALSE

-----------------------------------------------------------------------------
(* What the user does.  Each operation issues its calls and returns.       *)

Begin == /\ ops < MaxOps
         /\ ops' = ops + 1

\* EstablishFinderViewController.addData on a new post: savePlay names the
\* document and issues the write.
SavePlay(p) ==
    /\ Begin
    /\ playDoc[p] = "none"
    /\ playDoc' = [playDoc EXCEPT ![p] = "drafted"]
    /\ playJobs' = playJobs \cup {[id |-> ops, do |-> "save", play |-> p]}
    /\ UNCHANGED <<playerInfo, myPlayList, status, screens, history,
                   requestJobs, statusJobs, listJobs, infoJobs>>

\* deletePlay(page): the document, the lists of the players the page shows
\* and the requests are all attacked at once.
DeletePlay(p) ==
    /\ Begin
    /\ page[p] # Unread
    /\ playJobs' = playJobs \cup
          {[id |-> ops, do |-> d, play |-> p] : d \in {"delete", "sweep"}}
    /\ listJobs' = listJobs \cup
          {[id |-> ops, leg |-> i, do |-> "purge", user |-> page[p][i],
            play |-> p, snap |-> Unread] : i \in DOMAIN page[p]}
    /\ UNCHANGED <<documents, screens, history,
                   requestJobs, statusJobs, infoJobs>>

\* saveRequest from AddPlayViewController, which shows a play that was stored
\* when it was fetched: first the query for an earlier request.
SaveRequest(r) ==
    /\ Begin
    /\ status[r] = "none"
    /\ playDoc[playId[r]] \in {"live", "gone"}
    /\ status' = [status EXCEPT ![r] = "drafted"]
    /\ requestJobs' = requestJobs \cup
          {[id |-> ops, do |-> "check", req |-> r]}
    /\ UNCHANGED <<playDoc, playerInfo, myPlayList, screens, history,
                   playJobs, statusJobs, listJobs, infoJobs>>

\* The accept and deny buttons are there while the row was fetched as pending.
UpdateRequest(r, to) ==
    /\ Begin
    /\ received[r] = "pending"
    /\ statusJobs' = statusJobs \cup
          {[id |-> ops, req |-> r, to |-> to, was |-> received[r]]}
    /\ UNCHANGED <<documents, screens, history,
                   playJobs, requestJobs, listJobs, infoJobs>>

\* The cancel button is disabled only when the row was fetched as cancelled.
CancelRequest(r) ==
    /\ Begin
    /\ sent[r] \notin {"none", "cancelled"}
    /\ statusJobs' = statusJobs \cup
          {[id |-> ops, req |-> r, to |-> "cancelled", was |-> sent[r]]}
    /\ UNCHANGED <<documents, screens, history,
                   playJobs, requestJobs, listJobs, infoJobs>>

\* saveProfileInfo of a user who returns to a removed account (module Account):
\* the new profile has no plays.  Who had none loses none.
SaveProfileInfo(u) ==
    /\ Begin
    /\ myPlayList[u] # <<>>
    /\ myPlayList' = [myPlayList EXCEPT ![u] = <<>>]
    /\ wiped' = wiped \cup {u}
    /\ UNCHANGED <<playDoc, playerInfo, status, screens, jobs, granted, ledger>>

UserStep ==
    \/ \E p \in Plays : SavePlay(p) \/ DeletePlay(p)
    \/ \E u \in Users : SaveProfileInfo(u)
    \/ \E r \in Requests :
         \/ SaveRequest(r)
         \/ \E to \in {"accepted", "denied"} : UpdateRequest(r, to)
         \/ CancelRequest(r)

-----------------------------------------------------------------------------
(* What the screens fetch.                                                 *)

FetchedDraft(r) ==          \* mutant: a request that is being sent is shown
    IF status[r] = "gone" THEN "none" ELSE status[r]

Fetched(r) == IF status[r] \in Stored THEN status[r] ELSE "none"

\* getPlayRequests by user u: both lists are replaced as a whole.
GetPlayRequests(u) ==
    /\ received' = [r \in Requests |-> IF finderId[playId[r]] = u
                                       THEN Fetched(r) ELSE received[r]]
    /\ sent' = [r \in Requests |-> IF senderId[r] = u
                                   THEN Fetched(r) ELSE sent[r]]
    /\ UNCHANGED <<documents, page, jobs, history, ops>>

\* The listener on one's own requests refreshes a row that is already shown.
UpdateRequestsSentTableView(r) ==
    /\ sent[r] # "none"
    /\ status[r] \in Stored
    /\ sent' = [sent EXCEPT ![r] = status[r]]
    /\ UNCHANGED <<documents, received, page, jobs, history, ops>>

\* getThisUserPlays by u: the delegate is called only if every play of the
\* list is still stored; MyFinders keeps the plays u posted.
GetThisUserPlays(u) ==
    LET mine == ToSet(myPlayList[u]) IN
    /\ \A p \in mine : playDoc[p] = "live"
    /\ page' = [p \in Plays |-> IF finderId[p] # u THEN page[p]
                                ELSE IF p \in mine THEN playerInfo[p]
                                ELSE Unread]
    /\ UNCHANGED <<documents, received, sent, jobs, history, ops>>

ScreenStep ==
    \/ \E u \in Users : GetPlayRequests(u) \/ GetThisUserPlays(u)
    \/ \E r \in Requests : UpdateRequestsSentTableView(r)

-----------------------------------------------------------------------------
(* What Firestore answers, with the callback or completion handler that    *)
(* the answer runs.                                                        *)

Edit(id, leg, do, u, p) ==
    [id |-> id, leg |-> leg, do |-> do, user |-> u, play |-> p,
     snap |-> Unread]

EditInfo(id, do, u, p) ==
    [id |-> id, do |-> do, user |-> u, play |-> p, snap |-> Unread]

CommitSaveOnly(j) ==        \* mutant: the completion handler does nothing
    /\ j.do = "save"
    /\ playDoc' = [playDoc EXCEPT ![j.play] = "live"]
    /\ playerInfo' = [playerInfo EXCEPT ![j.play] = <<finderId[j.play]>>]
    /\ playJobs' = playJobs \ {j}
    /\ UNCHANGED <<myPlayList, status, screens, history, ops,
                   requestJobs, statusJobs, listJobs, infoJobs>>

\* setData of savePlay succeeds; the finder's own list comes next.
CommitSave(j) ==
    /\ j.do = "save"
    /\ playDoc' = [playDoc EXCEPT ![j.play] = "live"]
    /\ playerInfo' = [playerInfo EXCEPT ![j.play] = <<finderId[j.play]>>]
    /\ playJobs' = playJobs \ {j}
    /\ listJobs' = listJobs \cup
          {Edit(j.id, 0, "append", finderId[j.play], j.play)}
    /\ UNCHANGED <<myPlayList, status, screens, history, ops,
                   requestJobs, statusJobs, infoJobs>>

\* delete of deletePlay; deleting a document twice is no error.
CommitDelete(j) ==
    /\ j.do = "delete"
    /\ playDoc' = [playDoc EXCEPT ![j.play] = "gone"]
    /\ playerInfo' = [playerInfo EXCEPT ![j.play] = <<>>]
    /\ playJobs' = playJobs \ {j}
    /\ UNCHANGED <<myPlayList, status, screens, history, ops,
                   requestJobs, statusJobs, listJobs, infoJobs>>

\* deletaAllRequestOfPlayId: the query answers, one delete per document.
SweepRequests(j) ==
    /\ j.do = "sweep"
    /\ playJobs' = playJobs \ {j}
    /\ requestJobs' = requestJobs \cup
          {[id |-> j.id, do |-> "delete", req |-> r] :
             r \in {q \in Requests : playId[q] = j.play /\ status[q] \in Stored}}
    /\ UNCHANGED <<documents, screens, history, ops,
                   statusJobs, listJobs, infoJobs>>

AlreadyPending(r, me) ==    \* mutant: only a pending request counts
    \E q \in Requests : /\ playId[q] = playId[r]
                        /\ senderId[q] = me
                        /\ status[q] = "pending"

\* A stored request of user me for the play of r, of any status.
AlreadySent(r, me) ==
    \E q \in Requests : /\ playId[q] = playId[r]
                        /\ senderId[q] = me
                        /\ status[q] \in Stored

\* The query of saveRequest answers on a phone where me is signed in by then.
CheckRequest(j, me) ==
    /\ j.do = "check"
    /\ requestJobs' = (requestJobs \ {j}) \cup
          (IF AlreadySent(j.req, me) THEN {} ELSE {[j EXCEPT !.do = "put"]})
    /\ UNCHANGED <<documents, screens, history, ops,
                   playJobs, statusJobs, listJobs, infoJobs>>

\* setData of saveRequest.
PutRequest(j) ==
    /\ j.do = "put"
    /\ status' = [status EXCEPT ![j.req] = "pending"]
    /\ requestJobs' = requestJobs \ {j}
    /\ UNCHANGED <<playDoc, playerInfo, myPlayList, screens, history, ops,
                   playJobs, statusJobs, listJobs, infoJobs>>

DeleteRequest(j) ==
    /\ j.do = "delete"
    /\ status' = [status EXCEPT ![j.req] = "gone"]
    /\ requestJobs' = requestJobs \ {j}
    /\ UNCHANGED <<playDoc, playerInfo, myPlayList, screens, history, ops,
                   playJobs, statusJobs, listJobs, infoJobs>>

\* What the completion handlers of updateRequest and cancelRequest start:
\* accepting appends, cancelling removes if the request was fetched accepted.
EffectOfDenialToo(j) ==     \* mutant: `if status == 99' is gone
    IF j.to # "cancelled" THEN {"append"}
    ELSE IF j.was = "accepted" THEN {"remove"} ELSE {}

EffectOfAnyCancel(j) ==     \* mutant: the fetched status is not looked at
    IF j.to = "accepted" THEN {"append"}
    ELSE IF j.to = "cancelled" THEN {"remove"} ELSE {}

EffectOfFetched(j) ==       \* mutant: both handlers test the fetched status
    IF j.was # "accepted" THEN {}
    ELSE IF j.to = "cancelled" THEN {"remove"} ELSE {"append"}

Effect(j) ==
    IF j.to = "accepted" THEN {"append"}
    ELSE IF j.to = "cancelled" /\ j.was = "accepted" THEN {"remove"}
    ELSE {}

\* History: the seats of a user who had n before the decision of job j.
Seats(j, n) ==
    IF j.to = "accepted" THEN n + 1
    ELSE IF j.to = "cancelled" /\ j.was = "accepted" /\ n > 0 THEN n - 1
    ELSE n

\* updateData fails, with an error that is printed, on a missing document.
UpsertSucceeds(r) ==        \* mutant: setData in place of updateData
    status[r] # "drafted"

UpdateSucceeds(r) == status[r] \in Stored

\* updateData of updateRequest and cancelRequest on a stored request.
CommitStatus(j) ==
    LET u == senderId[j.req]
        p == playId[j.req]
    IN
    /\ UpdateSucceeds(j.req)
    /\ status' = [status EXCEPT ![j.req] = j.to]
    /\ statusJobs' = statusJobs \ {j}
    /\ listJobs' = listJobs \cup {Edit(j.id, 0, d, u, p) : d \in Effect(j)}
    /\ infoJobs' = infoJobs \cup {EditInfo(j.id, d, u, p) : d \in Effect(j)}
    /\ granted' = IF j.to = "accepted" THEN granted \cup {<<u, p>>} ELSE granted
    /\ ledger' = [ledger EXCEPT ![u][p] = Seats(j, @)]
    /\ UNCHANGED <<playDoc, playerInfo, myPlayList, screens, ops, wiped,
                   playJobs, requestJobs>>

\* updateData on a request that was deleted: no handler has an effect.
FailStatus(j) ==
    /\ ~UpdateSucceeds(j.req)
    /\ statusJobs' = statusJobs \ {j}
    /\ UNCHANGED <<documents, screens, history, ops,
                   playJobs, requestJobs, listJobs, infoJobs>>

ReadList(j) ==
    /\ j.snap = Unread
    /\ listJobs' = (listJobs \ {j}) \cup
          {[j EXCEPT !.snap = myPlayList[j.user]]}
    /\ UNCHANGED <<documents, screens, history, ops,
                   playJobs, requestJobs, statusJobs, infoJobs>>

NewList(j) == IF j.do = "append" THEN Append(j.snap, j.play)
              ELSE RemovingFirst(j.snap, j.play)

\* appendPlayIdToUserPlayList and the two deletePlayIdToUserPlayList: the one
\* of deletePlay ("purge") writes nothing if it did not find the play.
WriteList(j) ==
    /\ j.snap # Unread
    /\ listJobs' = listJobs \ {j}
    /\ myPlayList' =
          IF j.do = "purge" /\ ~Contains(j.snap, j.play) THEN myPlayList
          ELSE [myPlayList EXCEPT ![j.user] = NewList(j)]
    /\ UNCHANGED <<playDoc, playerInfo, status, screens, history, ops,
                   playJobs, requestJobs, statusJobs, infoJobs>>

\* A play that is not stored ends the job.
ReadInfo(j) ==
    /\ j.snap = Unread
    /\ infoJobs' = (infoJobs \ {j}) \cup
          (IF playDoc[j.play] = "live"
           THEN {[j EXCEPT !.snap = playerInfo[j.play]]} ELSE {})
    /\ UNCHANGED <<documents, screens, history, ops,
                   playJobs, requestJobs, statusJobs, listJobs>>

NewInfoHead(j) ==           \* mutant: the wrong index is removed
    IF j.do = "append" THEN Append(j.snap, j.user) ELSE Tail(j.snap)

NewInfo(j) == IF j.do = "append" THEN Append(j.snap, j.user)
              ELSE RemovingFirst(j.snap, j.user)

\* appendUserIdToPlayPlayerInfo, deleteUserIdToPlayPlayerInfo.
WriteInfo(j) ==
    /\ j.snap # Unread
    /\ infoJobs' = infoJobs \ {j}
    /\ playerInfo' =
          IF playDoc[j.play] # "live" THEN playerInfo
          ELSE [playerInfo EXCEPT ![j.play] = NewInfo(j)]
    /\ UNCHANGED <<playDoc, myPlayList, status, screens, history, ops,
                   playJobs, requestJobs, statusJobs, listJobs>>

StoreStep ==
    \/ \E j \in playJobs : CommitSave(j) \/ CommitDelete(j) \/ SweepRequests(j)
    \/ \E j \in requestJobs :
         CheckRequest(j, senderId[j.req]) \/ PutRequest(j) \/ DeleteRequest(j)
    \/ \E j \in statusJobs : CommitStatus(j) \/ FailStatus(j)
    \/ \E j \in listJobs : ReadList(j) \/ WriteList(j)
    \/ \E j \in infoJobs : ReadInfo(j) \/ WriteInfo(j)

Answer == StoreStep /\ UNCHANGED tangled

\* The sender has left the phone, to somebody or nobody, before the query is
\* answered, which then looks for a request of the wrong user.
AnswerToAnother ==
    \E j \in requestJobs : \E me \in (Users \cup {"nobody"}) \ {senderId[j.req]} :
        CheckRequest(j, me)

-----------------------------------------------------------------------------
(* A call that never completes: Firestore reports an error, which the app  *)
(* prints, or the app is killed before the answer arrives.                 *)

Lose ==
    /\ \/ \E j \in playJobs : /\ playJobs' = playJobs \ {j}
                              /\ UNCHANGED <<requestJobs, statusJobs, listJobs, infoJobs>>
       \/ \E j \in requestJobs : /\ requestJobs' = requestJobs \ {j}
                                 /\ UNCHANGED <<playJobs, statusJobs, listJobs, infoJobs>>
       \/ \E j \in statusJobs : /\ statusJobs' = statusJobs \ {j}
                                /\ UNCHANGED <<playJobs, requestJobs, listJobs, infoJobs>>
       \/ \E j \in listJobs : /\ listJobs' = listJobs \ {j}
                              /\ UNCHANGED <<playJobs, requestJobs, statusJobs, infoJobs>>
       \/ \E j \in infoJobs : /\ infoJobs' = infoJobs \ {j}
                              /\ UNCHANGED <<playJobs, requestJobs, statusJobs, listJobs>>
    /\ UNCHANGED <<documents, screens, history, ops>>

Idle == \A set \in {playJobs, requestJobs, statusJobs, listJobs, infoJobs} :
            set = {}

ReliableNext ==
    \/ UserStep /\ tangled' = (tangled \/ ~Idle)
    \/ ScreenStep /\ UNCHANGED tangled
    \/ Answer
    \/ AnswerToAnother /\ tangled' = TRUE

Next ==
    /\ ReliableNext \/ (Lose /\ tangled' = TRUE)
    /\ tangled' => ops' <= MaxTangled

\* Any number of clients, any interleaving, any failure.  Firestore retries a
\* call until it is answered, or fails.
Spec == Init /\ [][Next]_vars /\ WF_vars(Answer)

\* As Spec, but no call fails.
ReliableSpec == Init /\ [][ReliableNext]_vars

-----------------------------------------------------------------------------
(* Safety under every interleaving and failure.                            *)

\* Whatever updates of player_info are lost or overwritten, the finder, put
\* first by savePlay, stays first on the roster of a stored play.
FinderOnRoster ==
    \A p \in Plays : playDoc[p] = "live" =>
        playerInfo[p] # <<>> /\ playerInfo[p][1] = finderId[p]

\* Nobody is on a roster, or sees a play among their own, unless they posted
\* it or the finder's acceptance of their request was committed.
Consent ==
    /\ \A p \in Plays : \A i \in DOMAIN playerInfo[p] :
         playerInfo[p][i] = finderId[p] \/ <<playerInfo[p][i], p>> \in granted
    /\ \A u \in Users : \A i \in DOMAIN myPlayList[u] :
         u = finderId[myPlayList[u][i]] \/ <<u, myPlayList[u][i]>> \in granted

\* A deleted play or request never comes back: writes that are still in flight
\* when it is deleted are updateData, which does not create a document.
NoResurrection ==
    [][/\ \A p \in Plays : playDoc[p] = "gone" => playDoc'[p] = "gone"
       /\ \A r \in Requests : status[r] = "gone" => status'[r] = "gone"
      ]_vars

-----------------------------------------------------------------------------
(* The inductive invariant behind these properties: they must also hold of *)
(* every list that some callback is about to write back.                   *)

\* s may be the roster of play p.
SoundInfo(p, s) ==
    /\ s # <<>> /\ s[1] = finderId[p]
    /\ \A i \in DOMAIN s : s[i] = finderId[p] \/ <<s[i], p>> \in granted

\* s may be the list of user u.
SoundList(u, s) ==
    \A i \in DOMAIN s : u = finderId[s[i]] \/ <<u, s[i]>> \in granted

StoredSound ==
    /\ \A p \in Plays : IF playDoc[p] = "live" THEN SoundInfo(p, playerInfo[p])
                        ELSE playerInfo[p] = <<>>
    /\ \A u \in Users : SoundList(u, myPlayList[u])

\* Nobody appends a user who was not accepted, nobody removes the finder.
InfoJobsSound ==
    \A j \in infoJobs :
        /\ j.user # finderId[j.play]
        /\ j.do = "append" => <<j.user, j.play>> \in granted
        /\ j.snap # Unread => SoundInfo(j.play, j.snap)

ListJobsSound ==
    \A j \in listJobs :
        /\ j.do = "append" =>
             j.user = finderId[j.play] \/ <<j.user, j.play>> \in granted
        /\ j.snap # Unread => SoundList(j.user, j.snap)

\* A document is created by one write, issued while it is only named.
PlaysOnce ==
    /\ \A p \in Plays : page[p] # Unread => playDoc[p] \in {"live", "gone"}
    /\ \A j \in playJobs :
         /\ j.do = "save" => playDoc[j.play] = "drafted"
         /\ j.do = "delete" => playDoc[j.play] \in {"live", "gone"}
    /\ \A j, k \in playJobs :
         j.do = "save" /\ k.do = "save" /\ j.play = k.play => j = k

RequestsOnce ==
    /\ \A j \in requestJobs :
         IF j.do = "delete" THEN status[j.req] \in Stored \cup {"gone"}
         ELSE status[j.req] = "drafted"
    /\ \A j, k \in requestJobs :
         j.do # "delete" /\ k.do # "delete" /\ j.req = k.req => j = k

IInv ==
    /\ StateTyped
    /\ StoredSound
    /\ InfoJobsSound
    /\ ListJobsSound
    /\ PlaysOnce
    /\ RequestsOnce

-----------------------------------------------------------------------------
(* One operation at a time: each begins when nothing is in flight, on      *)
(* screens that may be stale.                                              *)

Count(s, e) == Cardinality({i \in DOMAIN s : s[i] = e})

\* When nothing is in flight both lists hold exactly the seats the committed
\* decisions gave, on stale screens too, for every stored play; the list of who
\* has returned to a removed account was emptied.
Ledger ==
    ~tangled /\ Idle => \A p \in Plays, u \in Users : playDoc[p] = "live" =>
        LET seats == IF u = finderId[p] THEN 1 ELSE ledger[u][p] IN
        /\ Count(playerInfo[p], u) = seats
        /\ u \notin wiped => Count(myPlayList[u], p) = seats

\* saveRequest stores no second request of a sender for the same play.
OneRequest ==
    ~tangled => \A r, q \in Requests :
        /\ senderId[r] = senderId[q] /\ playId[r] = playId[q]
        /\ status[r] \in Stored /\ status[q] \in Stored
        => r = q

\* A posted play reaches its finder's list, unless it is deleted first or the
\* finder removes the account and returns.
PublishedIsListed ==
    \A p \in Plays :
        playDoc[p] = "live" ~> \/ tangled
                               \/ playDoc[p] = "gone"
                               \/ finderId[p] \in wiped
                               \/ Contains(myPlayList[finderId[p]], p)

\* An accepted sender reaches the roster, unless the sender cancels or the
\* play is deleted.
AcceptedJoins ==
    \A r \in Requests :
        status[r] = "accepted" ~>
            \/ tangled
            \/ status[r] \in {"cancelled", "gone"}
            \/ playDoc[playId[r]] = "gone"
            \/ Contains(playerInfo[playId[r]], senderId[r])

-----------------------------------------------------------------------------
(* Many clients, every call answered.                                      *)

\* FinderDataManager.savePlay: "finder must have to go to that play".  When
\* nothing is in flight the finder of a stored play, if the account was never
\* removed, has it in the list.
FinderGoes ==
    Idle => \A p \in Plays : playDoc[p] = "live" /\ finderId[p] \notin wiped =>
        Contains(myPlayList[finderId[p]], p)

-----------------------------------------------------------------------------
(* The abstract roster.                                                    *)

Life(p) == IF playDoc[p] \in {"none", "drafted"} THEN "none" ELSE playDoc[p]

Abstract == INSTANCE Membership WITH
    life     <- [p \in Plays |-> Life(p)],
    roster   <- [p \in Plays |-> ToSet(playerInfo[p])],
    accepted <- granted

\* Every behaviour, seen through the sets of players, is one of Membership.
ImplementsMembership == Abstract!Spec
=============================================================================
