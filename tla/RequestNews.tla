----------------------------- MODULE RequestNews ----------------------------
(***************************************************************************)
(* The notifications of new requests: TabBarViewController,                *)
(* RequestDataManager.listenPlayRequests and NotificationManager on one    *)
(* phone, on which several users may sign in after each other.             *)
(*                                                                         *)
(* Every sign-in adds a listener for the requests to its user, which stays *)
(* until the app ends, whoever is signed in by then.  A listener is handed *)
(* the changes since its last snapshot, those of its first snapshot being  *)
(* all requests there are; what keeps old requests from being news is that *)
(* their senders' clocks show a time before the launch of the receiver.    *)
(*                                                                         *)
(* The listener of the requests sent, which updates their page, is module  *)
(* Roster's UpdateRequestsSentTableView.                                   *)
(***************************************************************************)
EXTENDS Naturals

CONSTANTS
    Users,
    Nobody,       \* nobody is signed in
    Requests,     \* documents of requests
    receiver,     \* receiver[r] is the user who is asked
    Never,        \* the create time of a request that was not sent
    MaxTime,      \* bound on the seconds that pass
    MaxSignIns,   \* bound on the listeners that are added
    MaxLaunches   \* bound on the launches

ASSUME RequestNewsAssumption ==
    /\ Nobody \notin Users
    /\ receiver \in [Requests -> Users]
    /\ Never \notin Nat
    /\ MaxTime \in Nat
    /\ MaxSignIns \in Nat
    /\ MaxLaunches \in Nat \ {0}

VARIABLES
    time,           \* the phone's clock, in seconds
    \* Firestore
    status,         \* status[r] of the documents
    createTime,     \* createTime[r] of the documents
    \* the phone
    page,
    thisUser,       \* firebase_id in the user defaults
    launchAppDate,
    removals,       \* of accounts, not confirmed yet
    listeners,      \* of the requests received
    reads,          \* getUserByFirebaseId of the senders of new requests
    \* history, never read by the system
    launches,       \* how many there were
    signIns,        \* signIns[n] is what is known of the n-th listener
    noticed,        \* noticed[n][r]: how often it has notified of r
    ahead,          \* requests stored when their sender's clock was ahead
    unread          \* requests whose sender could not be read

store   == <<status, createTime>>
session == <<page, thisUser, launchAppDate, removals, launches>>
history == <<signIns, noticed, ahead, unread>>
vars    == <<time, store, session, listeners, reads, history>>

-----------------------------------------------------------------------------

Time     == 0..MaxTime
Status   == {"none", "pending", "answered", "gone"}
Numbers  == 1..MaxSignIns

\* `seen' is the last snapshot.
Listener == [n : Numbers, user : Users, seen : [Requests -> Status]]
ReadCall == [n : Numbers, request : Requests]

\* A listener that was not added yet has launch 0.
SignIn   == [launch : 0..MaxLaunches, user : Users \cup {Nobody}]

TypeOK ==
    /\ time \in Time
    /\ status \in [Requests -> Status]
    /\ createTime \in [Requests -> Time \cup {Never}]
    /\ page \in {"launch", "login", "tabs"}
    /\ thisUser \in Users \cup {Nobody}
    /\ launchAppDate \in Time
    /\ removals \in Nat
    /\ listeners \subseteq Listener
    /\ reads \subseteq ReadCall
    /\ launches \in 1..MaxLaunches
    /\ signIns \in [Numbers -> SignIn]
    /\ noticed \in [Numbers -> [Requests -> Nat]]
    /\ ahead \subseteq Requests
    /\ unread \subseteq Requests

Init ==
    /\ time = 0
    /\ status = [r \in Requests |-> "none"]
    /\ createTime = [r \in Requests |-> Never]
    /\ page = "launch"
    /\ thisUser \in Users \cup {Nobody}
    /\ launchAppDate = 0
    /\ removals = 0
    /\ listeners = {} /\ reads = {}
    /\ launches = 1
    /\ signIns = [n \in Numbers |-> [launch |-> 0, user |-> Nobody]]
    /\ noticed = [n \in Numbers |-> [r \in Requests |-> 0]]
    /\ ahead = {} /\ unread = {}

Tick ==
    /\ time < MaxTime
    /\ time' = time + 1
    /\ UNCHANGED <<store, session, listeners, reads, history>>

-----------------------------------------------------------------------------
(* The requests, on other phones.                                          *)

\* saveRequest: the document arrives at any time after the tap, with the time
\* of the tap by the sender's clock.
Send(r) ==
    /\ status[r] = "none"
    /\ status' = [status EXCEPT ![r] = "pending"]
    /\ \E t \in Time :
         /\ createTime' = [createTime EXCEPT ![r] = t]
         /\ ahead' = IF t > time THEN ahead \cup {r} ELSE ahead
    /\ UNCHANGED <<time, session, listeners, reads, signIns, noticed, unread>>

\* It is accepted, denied or cancelled; it goes with its play.
Changed(r) ==
    /\ \/ status[r] = "pending" /\ status' = [status EXCEPT ![r] = "answered"]
       \/ /\ status[r] \in {"pending", "answered"}
          /\ status' = [status EXCEPT ![r] = "gone"]
    /\ UNCHANGED <<time, createTime, session, listeners, reads, history>>

-----------------------------------------------------------------------------
(* Signing in and out.                                                     *)

\* listenPlayRequests, for whoever is signed in when the tabs come up.
ListenPlayRequests(u) ==
    \E n \in Numbers :
        /\ \A m \in Numbers : signIns[m].launch = 0 <=> m >= n
        /\ signIns' = [signIns EXCEPT ![n] = [launch |-> launches, user |-> u]]
        /\ listeners' = listeners \cup
             {[n |-> n, user |-> u, seen |-> [r \in Requests |-> "none"]]}

HasSessionAlways == TRUE    \* mutant: the tabs come up for nobody

HasSession == thisUser # Nobody

\* The launch page gives way to the tabs, or to the login page.
LaunchEnds ==
    /\ page = "launch"
    /\ IF HasSession
       THEN page' = "tabs" /\ ListenPlayRequests(thisUser)
       ELSE page' = "login" /\ UNCHANGED <<signIns, listeners>>
    /\ UNCHANGED <<time, store, thisUser, launchAppDate, removals, launches, reads,
                   noticed, ahead, unread>>

LogIn(u) ==
    /\ page = "login"
    /\ page' = "tabs"
    /\ thisUser' = u
    /\ ListenPlayRequests(u)
    /\ UNCHANGED <<time, store, launchAppDate, removals, launches, reads, noticed,
                   ahead, unread>>

\* The listeners stay, and the launch date too.
Logout ==
    /\ page = "tabs"
    /\ page' = "login"
    /\ thisUser' = Nobody
    /\ UNCHANGED <<time, store, launchAppDate, removals, launches, listeners, reads,
                   history>>

\* The account is removed: the login page is shown at once, and the user
\* defaults are still there.
DeleteAccount ==
    /\ page = "tabs"
    /\ page' = "login"
    /\ removals' = removals + 1
    /\ UNCHANGED <<time, store, thisUser, launchAppDate, launches, listeners, reads,
                   history>>

\* removeThisuser is confirmed: the user defaults are cleared, whoever has
\* signed in meanwhile and sees the tabs.
RemoveConfirmed ==
    /\ removals > 0
    /\ removals' = removals - 1
    /\ thisUser' = Nobody
    /\ UNCHANGED <<time, store, page, launchAppDate, launches, listeners, reads,
                   history>>

\* or ends with an error, which is printed.
RemoveFails ==
    /\ removals > 0
    /\ removals' = removals - 1
    /\ UNCHANGED <<time, store, page, thisUser, launchAppDate, launches, listeners,
                   reads, history>>

\* The app ends, and is launched again: no confirmation is waited for any more.
Relaunch ==
    /\ launches < MaxLaunches
    /\ launches' = launches + 1
    /\ page' = "launch"
    /\ launchAppDate' = time
    /\ removals' = 0
    /\ listeners' = {} /\ reads' = {}
    /\ UNCHANGED <<time, store, thisUser, history>>

-----------------------------------------------------------------------------
(* Snapshots and notifications.                                            *)

\* What the query of a listener gives now.
Result(l) == [r \in Requests |-> IF receiver[r] = l.user THEN status[r] ELSE "none"]

\* The documents in the result.
Received(l) == {r \in Requests : Result(l)[r] \in {"pending", "answered"}}

AddedOrModified(l) ==       \* mutant: a change is news
    {r \in Received(l) : l.seen[r] # Result(l)[r]}

AddedPending(l) ==          \* mutant: what is answered is not news
    {r \in Received(l) : l.seen[r] = "none" /\ Result(l)[r] = "pending"}

\* The documents that are .added.
Added(l) == {r \in Received(l) : l.seen[r] = "none"}

\* The launch was before the request was made.
IsNew(r) == launchAppDate < createTime[r]

\* A snapshot holds all that has changed since the last; modified and removed
\* documents are passed by.
Snapshot(l) ==
    /\ Result(l) # l.seen
    /\ listeners' = (listeners \ {l}) \cup {[l EXCEPT !.seen = Result(l)]}
    /\ reads' = reads \cup {[n |-> l.n, request |-> r] : r \in {s \in Added(l) : IsNew(s)}}
    /\ UNCHANGED <<time, store, session, history>>

\* successNotificationContent, of the sender who was read.
Notify(x) ==
    /\ reads' = reads \ {x}
    /\ noticed' = [noticed EXCEPT ![x.n][x.request] = @ + 1]
    /\ UNCHANGED <<time, store, session, listeners, signIns, ahead, unread>>

\* The sender's document is not there, or the read ends with an error.
NoSender(x) ==
    /\ reads' = reads \ {x}
    /\ unread' = unread \cup {x.request}
    /\ UNCHANGED <<time, store, session, listeners, signIns, noticed, ahead>>

\* A listener is told of an error, and of nothing else any more.
ListenerFails(l) ==
    /\ listeners' = listeners \ {l}
    /\ UNCHANGED <<time, store, session, reads, history>>

Next ==
    \/ Tick
    \/ \E r \in Requests : Send(r) \/ Changed(r)
    \/ LaunchEnds \/ Logout \/ Relaunch
    \/ DeleteAccount \/ RemoveConfirmed \/ RemoveFails
    \/ \E u \in Users : LogIn(u)
    \/ \E l \in listeners : Snapshot(l) \/ ListenerFails(l)
    \/ \E x \in reads : Notify(x) \/ NoSender(x)

\* Firestore delivers snapshots and answers reads.
Spec == /\ Init /\ [][Next]_vars
        /\ WF_vars(\E l \in listeners : Snapshot(l))
        /\ WF_vars(\E x \in reads : Notify(x) \/ NoSender(x))

-----------------------------------------------------------------------------
(* Properties.                                                             *)

\* listenPlayRequests: every listener notifies of a request at most once, and
\* only if its user is the receiver; and however often the app is launched, all
\* that notify of a request are of one launch, unless its sender's clock was
\* ahead.  So whoever signs in once in a launch is notified once.
NotifiedOnce ==
    \A r \in Requests, n \in Numbers : noticed[n][r] > 0 =>
        /\ noticed[n][r] = 1
        /\ signIns[n].user = receiver[r]
        /\ \A m \in Numbers : noticed[m][r] > 0 /\ r \notin ahead =>
             signIns[m].launch = signIns[n].launch

\* A stored request that is newer than the launch, with a listener for its
\* receiver.
Due(r) ==
    /\ status[r] \in {"pending", "answered"}
    /\ IsNew(r)
    /\ \E l \in listeners : l.user = receiver[r]

\* Its receiver is notified, even when the request is answered first, unless
\* its sender cannot be read.
Notified ==
    \A r \in Requests :
        Due(r) ~> \/ \E n \in Numbers : noticed[n][r] > 0
                  \/ r \in unread
                  \/ ~Due(r)
=============================================================================
