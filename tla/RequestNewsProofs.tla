------------------------- MODULE RequestNewsProofs --------------------------
(***************************************************************************)
(* Theorems about module RequestNews, for any users and requests, any      *)
(* number of launches and sign-ins, any clocks of the senders and any      *)
(* failure.                                                                *)
(***************************************************************************)
EXTENDS RequestNews, TLAPS

-----------------------------------------------------------------------------
(* Type correctness.                                                       *)

\* A phone before its first launch ends is well typed.
LEMMA InitTypeOK == Init => TypeOK
<1> SUFFICES ASSUME Init PROVE TypeOK
  OBVIOUS
<1>1. signIns \in [Numbers -> SignIn] /\ noticed \in [Numbers -> [Requests -> Nat]]
  <2>1. [launch |-> 0, user |-> Nobody] \in SignIn
    BY RequestNewsAssumption DEF SignIn
  <2>2. QED
    BY <2>1 DEF Init
<1>2. status \in [Requests -> Status] /\ createTime \in [Requests -> Time \cup {Never}]
  BY DEF Init, Status
<1>3. time \in Time /\ launchAppDate \in Time /\ launches \in 1..MaxLaunches
  BY RequestNewsAssumption DEF Init, Time
<1>4. QED
  BY <1>1, <1>2, <1>3 DEF Init, TypeOK

\* A new listener is one, and its sign-in is known.
LEMMA ListenTyped ==
    ASSUME TypeOK, NEW u \in Users, ListenPlayRequests(u)
    PROVE  listeners' \subseteq Listener /\ signIns' \in [Numbers -> SignIn]
<1>1. PICK n \in Numbers :
        /\ signIns' = [signIns EXCEPT ![n] = [launch |-> launches, user |-> u]]
        /\ listeners' = listeners \cup
             {[n |-> n, user |-> u, seen |-> [r \in Requests |-> "none"]]}
  BY DEF ListenPlayRequests
<1>2. [launch |-> launches, user |-> u] \in SignIn
  BY RequestNewsAssumption DEF TypeOK, SignIn
<1>3. [r \in Requests |-> "none"] \in [Requests -> Status]
  BY DEF Status
<1>4. [n |-> n, user |-> u, seen |-> [r \in Requests |-> "none"]] \in Listener
  BY <1>3 DEF Listener
<1>5. QED
  BY <1>1, <1>2, <1>4 DEF TypeOK

\* Every step keeps the types.
LEMMA NextTypeOK == TypeOK /\ [Next]_vars => TypeOK'
<1> SUFFICES ASSUME TypeOK, [Next]_vars PROVE TypeOK'
  OBVIOUS
<1> USE DEF store, session, history
<1>1. CASE Tick
  BY <1>1, RequestNewsAssumption DEF Tick, TypeOK, Time
<1>2. ASSUME NEW r \in Requests, Send(r) PROVE TypeOK'
  <2>1. status' \in [Requests -> Status] /\ ahead' \subseteq Requests
    BY <1>2 DEF Send, TypeOK, Status
  <2>2. createTime' \in [Requests -> Time \cup {Never}]
    BY <1>2 DEF Send, TypeOK
  <2>3. QED
    BY <1>2, <2>1, <2>2 DEF Send, TypeOK
<1>3. ASSUME NEW r \in Requests, Changed(r) PROVE TypeOK'
  <2>1. status' \in [Requests -> Status]
    BY <1>3 DEF Changed, TypeOK, Status
  <2>2. QED
    BY <1>3, <2>1 DEF Changed, TypeOK
<1>4. CASE LaunchEnds
  <2>1. CASE HasSession
    <3>1. thisUser \in Users
      BY <2>1 DEF HasSession, TypeOK
    <3>2. QED
      BY <1>4, <2>1, <3>1, ListenTyped DEF LaunchEnds, TypeOK
  <2>2. CASE ~HasSession
    BY <1>4, <2>2 DEF LaunchEnds, HasSession, TypeOK
  <2>3. QED
    BY <2>1, <2>2
<1>5. ASSUME NEW u \in Users, LogIn(u) PROVE TypeOK'
  BY <1>5, ListenTyped DEF LogIn, TypeOK
<1>6. CASE Logout \/ DeleteAccount \/ RemoveConfirmed \/ RemoveFails
  BY <1>6 DEF Logout, DeleteAccount, RemoveConfirmed, RemoveFails, TypeOK
<1>7. CASE Relaunch
  <2>1. launches' \in 1..MaxLaunches
    BY <1>7, RequestNewsAssumption DEF Relaunch, TypeOK
  <2>2. page' = "launch" /\ thisUser' \in Users \cup {Nobody}
    BY <1>7 DEF Relaunch, TypeOK
  <2>3. QED
    BY <1>7, <2>1, <2>2 DEF Relaunch, TypeOK
<1>8. ASSUME NEW l \in listeners, Snapshot(l) PROVE TypeOK'
  <2>1. l \in Listener
    BY DEF TypeOK
  <2>2. Result(l) \in [Requests -> Status]
    BY DEF Result, TypeOK, Status
  <2>3. [l EXCEPT !.seen = Result(l)] \in Listener
    BY <2>1, <2>2 DEF Listener
  <2>4. \A r \in Requests : [n |-> l.n, request |-> r] \in ReadCall
    BY <2>1 DEF Listener, ReadCall
  <2>5. Added(l) \subseteq Requests
    BY DEF Added, Received
  <2>6. listeners' \subseteq Listener /\ reads' \subseteq ReadCall
    BY <1>8, <2>3, <2>4, <2>5 DEF Snapshot, TypeOK
  <2>7. QED
    BY <1>8, <2>6 DEF Snapshot, TypeOK
<1>9. ASSUME NEW x \in reads, Notify(x) \/ NoSender(x) PROVE TypeOK'
  <2>1. x.n \in Numbers /\ x.request \in Requests
    BY DEF TypeOK, ReadCall
  <2>2. CASE Notify(x)
    <3>1. noticed[x.n] \in [Requests -> Nat] /\ noticed[x.n][x.request] + 1 \in Nat
      BY <2>1 DEF TypeOK
    <3>2. noticed' \in [Numbers -> [Requests -> Nat]]
      BY <2>1, <2>2, <3>1 DEF Notify, TypeOK
    <3>3. QED
      BY <2>2, <3>2 DEF Notify, TypeOK
  <2>3. CASE NoSender(x)
    <3>1. unread' \subseteq Requests /\ noticed' = noticed
      BY <2>1, <2>3 DEF NoSender, TypeOK
    <3>2. QED
      BY <2>3, <3>1 DEF NoSender, TypeOK
  <2>4. QED
    BY <1>9, <2>2, <2>3
<1>10. ASSUME NEW l \in listeners, ListenerFails(l) PROVE TypeOK'
  BY <1>10 DEF ListenerFails, TypeOK
<1>11. CASE UNCHANGED vars
  BY <1>11 DEF vars, TypeOK
<1>12. QED
  BY <1>1, <1>2, <1>3, <1>4, <1>5, <1>6, <1>7, <1>8, <1>9, <1>10, <1>11 DEF Next

\* The sessions, listeners and reads of the phone are well typed for ever.
THEOREM TypeCorrect == Spec => []TypeOK
BY InitTypeOK, NextTypeOK, PTL DEF Spec

-----------------------------------------------------------------------------
(* Nobody is notified twice.                                               *)

\* A request in the store has a time, which is past unless it was ahead.
ClocksSound ==
    /\ launchAppDate <= time
    /\ \A r \in Requests : status[r] # "none" =>
         /\ createTime[r] \in Nat
         /\ r \notin ahead => createTime[r] <= time

\* A listener is known, is the only one of its number, and has seen only
\* requests to its user.
ListenersSound ==
    \A l \in listeners :
        /\ signIns[l.n] = [launch |-> launches, user |-> l.user]
        /\ \A k \in listeners : k.n = l.n => k = l
        /\ \A r \in Requests : l.seen[r] # "none" =>
             receiver[r] = l.user /\ status[r] # "none"

\* The listener of number n has seen r, if it is still there.
Seen(n, r) == \A l \in listeners : l.n = n => l.seen[r] # "none"

\* A sender is read for the first notification of a new request to the user of
\* a listener of this launch.
ReadsSound ==
    \A x \in reads :
        /\ signIns[x.n] = [launch |-> launches, user |-> receiver[x.request]]
        /\ noticed[x.n][x.request] = 0
        /\ status[x.request] # "none"
        /\ IsNew(x.request)
        /\ Seen(x.n, x.request)

\* Who has notified of r was a listener of its receiver and has seen r, and if
\* that was before this launch, r is not new any more.
NoticesSound ==
    \A n \in Numbers, r \in Requests : noticed[n][r] > 0 =>
        /\ signIns[n].launch > 0
        /\ status[r] # "none"
        /\ Seen(n, r)
        /\ r \notin ahead /\ signIns[n].launch # launches => ~IsNew(r)

NewsSound ==
    ClocksSound /\ ListenersSound /\ ReadsSound /\ NoticesSound /\ NotifiedOnce

NewsInv == TypeOK /\ NewsSound

\* A new listener has no past.
LEMMA ListenSound ==
    ASSUME NewsInv, NEW u \in Users, ListenPlayRequests(u),
           UNCHANGED <<time, store, launchAppDate, launches, reads, noticed, ahead>>
    PROVE  NewsSound'
<1>0. PICK n \in Numbers :
        /\ \A m \in Numbers : signIns[m].launch = 0 <=> m >= n
        /\ signIns' = [signIns EXCEPT ![n] = [launch |-> launches, user |-> u]]
        /\ listeners' = listeners \cup
             {[n |-> n, user |-> u, seen |-> [r \in Requests |-> "none"]]}
  BY DEF ListenPlayRequests
<1>1. /\ signIns[n].launch = 0
      /\ signIns' = [signIns EXCEPT ![n] = [launch |-> launches, user |-> u]]
      /\ listeners' = listeners \cup
           {[n |-> n, user |-> u, seen |-> [r \in Requests |-> "none"]]}
  <2>1. n >= n
    BY RequestNewsAssumption DEF Numbers
  <2>2. QED
    BY <1>0, <2>1
<1>2. launches > 0 /\ launches # 0
  BY RequestNewsAssumption DEF NewsInv, TypeOK
<1>3. /\ \A l \in listeners : l.n # n
      /\ \A x \in reads : x.n # n
      /\ \A m \in Numbers, r \in Requests : noticed[m][r] > 0 => m # n
  <2>1. ASSUME NEW l \in listeners PROVE l.n # n
    <3>0. signIns[l.n] = [launch |-> launches, user |-> l.user]
      BY DEF NewsInv, NewsSound, ListenersSound
    <3>1. signIns[l.n].launch = launches
      BY <3>0
    <3>2. QED
      BY <1>1, <1>2, <3>1
  <2>2. ASSUME NEW x \in reads PROVE x.n # n
    <3>0. signIns[x.n] = [launch |-> launches, user |-> receiver[x.request]]
      BY DEF NewsInv, NewsSound, ReadsSound
    <3>1. signIns[x.n].launch = launches
      BY <3>0
    <3>2. QED
      BY <1>1, <1>2, <3>1
  <2>3. ASSUME NEW m \in Numbers, NEW r \in Requests, noticed[m][r] > 0 PROVE m # n
    <3>1. signIns[m].launch > 0
      BY <2>3 DEF NewsInv, NewsSound, NoticesSound
    <3>2. QED
      BY <1>1, <3>1
  <2>4. QED
    BY <2>1, <2>2, <2>3
<1>4. /\ signIns'[n] = [launch |-> launches, user |-> u]
      /\ \A m \in Numbers \ {n} : signIns'[m] = signIns[m]
  BY <1>1 DEF NewsInv, TypeOK
<1>5. ClocksSound'
  BY DEF NewsInv, NewsSound, ClocksSound, store
<1>6. ListenersSound'
  BY <1>1, <1>3, <1>4 DEF NewsInv, NewsSound, ListenersSound, TypeOK, Listener, store
<1>7. \A m \in Numbers \ {n}, r \in Requests : Seen(m, r) => Seen(m, r)'
  BY <1>1 DEF Seen
<1>8. ReadsSound'
  BY <1>3, <1>4, <1>7
     DEF NewsInv, NewsSound, ReadsSound, TypeOK, ReadCall, IsNew, store
<1>9. NoticesSound'
  BY <1>3, <1>4, <1>7 DEF NewsInv, NewsSound, NoticesSound, IsNew, store
<1>10. NotifiedOnce'
  BY <1>3, <1>4 DEF NewsInv, NewsSound, NotifiedOnce
<1>11. QED
  BY <1>5, <1>6, <1>8, <1>9, <1>10 DEF NewsSound

\* A snapshot shows what is there, and asks for what is new.
LEMMA SnapshotSound ==
    ASSUME NewsInv, NEW l \in listeners, Snapshot(l) PROVE NewsSound'
<1>0. PICK k : k = [l EXCEPT !.seen = Result(l)]
  OBVIOUS
<1>1. /\ l \in Listener /\ k.n = l.n /\ k.user = l.user /\ k.seen = Result(l)
      /\ listeners' = (listeners \ {l}) \cup {k}
  BY <1>0 DEF NewsInv, TypeOK, Listener, Snapshot
<1>2. /\ signIns[l.n] = [launch |-> launches, user |-> l.user]
      /\ \A h \in listeners : h.n = l.n => h = l
      /\ \A r \in Requests : l.seen[r] # "none" =>
           receiver[r] = l.user /\ status[r] # "none"
  BY DEF NewsInv, NewsSound, ListenersSound
<1>3. \A r \in Requests : k.seen[r] = IF receiver[r] = l.user THEN status[r] ELSE "none"
  BY <1>1 DEF Result
<1>4. \A n \in Numbers, r \in Requests : Seen(n, r) => Seen(n, r)'
  BY <1>1, <1>2, <1>3 DEF Seen
<1>5. UNCHANGED <<time, store, session, history>>
  BY DEF Snapshot
<1>6. ClocksSound'
  BY <1>5 DEF NewsInv, NewsSound, ClocksSound, store, session, history
<1>7. ListenersSound'
  BY <1>1, <1>2, <1>3, <1>5
     DEF NewsInv, NewsSound, ListenersSound, store, session, history
<1>8. ReadsSound'
  <2>1. ASSUME NEW x \in reads
        PROVE  /\ signIns'[x.n] = [launch |-> launches', user |-> receiver[x.request]]
               /\ noticed'[x.n][x.request] = 0
               /\ status'[x.request] # "none"
               /\ IsNew(x.request)'
               /\ Seen(x.n, x.request)'
    BY <1>4, <1>5 DEF NewsInv, NewsSound, ReadsSound, TypeOK, ReadCall, IsNew, store,
       session, history
  <2>2. ASSUME NEW r \in Added(l), IsNew(r)
        PROVE  /\ signIns'[l.n] = [launch |-> launches', user |-> receiver[r]]
               /\ noticed'[l.n][r] = 0
               /\ status'[r] # "none"
               /\ IsNew(r)'
               /\ Seen(l.n, r)'
    <3>1. /\ r \in Requests /\ l.seen[r] = "none" /\ receiver[r] = l.user
          /\ status[r] \in {"pending", "answered"}
      BY DEF Added, Received, Result
    <3>2. l.n \in Numbers /\ ~Seen(l.n, r)
      BY <1>1, <3>1 DEF Seen, Listener
    <3>3. ~(noticed[l.n][r] > 0)
      BY <3>1, <3>2 DEF NewsInv, NewsSound, NoticesSound
    <3>4. noticed[l.n][r] = 0
      BY <3>1, <3>2, <3>3 DEF NewsInv, TypeOK
    <3>5. Seen(l.n, r)'
      BY <1>1, <1>2, <1>3, <3>1 DEF Seen
    <3>6. QED
      BY <1>2, <1>5, <2>2, <3>1, <3>4, <3>5 DEF IsNew, store, session, history
  <2>3. \A x \in reads' : x \in reads \/ \E r \in Added(l) :
          IsNew(r) /\ x = [n |-> l.n, request |-> r]
    BY DEF Snapshot
  <2>4. QED
    BY <2>1, <2>2, <2>3 DEF ReadsSound
<1>9. NoticesSound'
  BY <1>4, <1>5 DEF NewsInv, NewsSound, NoticesSound, IsNew, store, session, history
<1>10. NotifiedOnce'
  BY <1>5 DEF NewsInv, NewsSound, NotifiedOnce, history
<1>11. QED
  BY <1>6, <1>7, <1>8, <1>9, <1>10 DEF NewsSound

\* A notification is the first of its listener, and of no later launch than
\* another of the same request.
LEMMA NotifySound ==
    ASSUME NewsInv, NEW x \in reads, Notify(x) PROVE NewsSound'
<1>1. /\ x.n \in Numbers /\ x.request \in Requests
      /\ signIns[x.n] = [launch |-> launches, user |-> receiver[x.request]]
      /\ noticed[x.n][x.request] = 0
      /\ status[x.request] # "none"
      /\ IsNew(x.request)
      /\ Seen(x.n, x.request)
  BY DEF NewsInv, NewsSound, ReadsSound, TypeOK, ReadCall
<1>2. signIns[x.n].launch = launches /\ signIns[x.n].user = receiver[x.request]
      /\ launches > 0
  BY <1>1, RequestNewsAssumption DEF NewsInv, TypeOK
<1>3. /\ noticed'[x.n][x.request] = 1
      /\ \A n \in Numbers, r \in Requests :
           (n = x.n /\ r = x.request) \/ noticed'[n][r] = noticed[n][r]
  BY <1>1 DEF NewsInv, TypeOK, Notify
<1>4. UNCHANGED <<time, store, session, listeners, signIns, ahead>>
      /\ reads' = reads \ {x}
  BY DEF Notify
<1>5. ClocksSound' /\ ListenersSound'
  BY <1>4 DEF NewsInv, NewsSound, ClocksSound, ListenersSound, store, session
<1>6. \A n, r : Seen(n, r)' = Seen(n, r)
  BY <1>4 DEF Seen
<1>7. ReadsSound'
  <2> SUFFICES ASSUME NEW y \in reads, y # x
               PROVE  /\ signIns[y.n] = [launch |-> launches, user |-> receiver[y.request]]
                      /\ noticed'[y.n][y.request] = 0
                      /\ status[y.request] # "none"
                      /\ IsNew(y.request)
                      /\ Seen(y.n, y.request)
    BY <1>4, <1>6 DEF ReadsSound, IsNew, store, session
  <2>1. y.n \in Numbers /\ y.request \in Requests /\ ~(y.n = x.n /\ y.request = x.request)
    BY DEF NewsInv, TypeOK, ReadCall
  <2>2. QED
    BY <1>3, <2>1 DEF NewsInv, NewsSound, ReadsSound
<1>8. NoticesSound'
  BY <1>1, <1>2, <1>3, <1>4, <1>6
     DEF NewsInv, NewsSound, NoticesSound, IsNew, store, session
<1>9. NotifiedOnce'
  <2>1. \A m \in Numbers : noticed[m][x.request] > 0 /\ x.request \notin ahead =>
          signIns[m].launch = launches
    BY <1>1 DEF NewsInv, NewsSound, NoticesSound
  <2>2. QED
    BY <1>1, <1>2, <1>3, <1>4, <2>1 DEF NewsInv, NewsSound, NotifiedOnce
<1>10. QED
  BY <1>5, <1>7, <1>8, <1>9 DEF NewsSound

\* A step that adds no listener, no read and no notification.
LEMMA QuietSound ==
    ASSUME NewsInv, ClocksSound',
           UNCHANGED <<launchAppDate, launches, signIns, noticed>>,
           listeners' \subseteq listeners, reads' \subseteq reads,
           ahead \subseteq ahead',
           \A r \in Requests : status[r] # "none" =>
               status'[r] # "none" /\ createTime'[r] = createTime[r]
    PROVE  NewsSound'
<1>1. \A n \in Numbers, r \in Requests : Seen(n, r) => Seen(n, r)'
  BY DEF Seen
<1>2. ListenersSound'
  BY DEF NewsInv, NewsSound, ListenersSound
<1>3. ReadsSound'
  <2> SUFFICES ASSUME NEW x \in reads
               PROVE  /\ signIns[x.n] = [launch |-> launches, user |-> receiver[x.request]]
                      /\ noticed[x.n][x.request] = 0
                      /\ status'[x.request] # "none"
                      /\ IsNew(x.request)'
                      /\ Seen(x.n, x.request)'
    BY DEF ReadsSound
  <2>1. x.n \in Numbers /\ x.request \in Requests
    BY DEF NewsInv, TypeOK, ReadCall
  <2>2. /\ signIns[x.n] = [launch |-> launches, user |-> receiver[x.request]]
        /\ noticed[x.n][x.request] = 0
        /\ status[x.request] # "none"
        /\ IsNew(x.request)
        /\ Seen(x.n, x.request)
    BY DEF NewsInv, NewsSound, ReadsSound
  <2>3. QED
    BY <1>1, <2>1, <2>2 DEF IsNew
<1>4. NoticesSound'
  <2> SUFFICES ASSUME NEW n \in Numbers, NEW r \in Requests, noticed[n][r] > 0
               PROVE  /\ signIns[n].launch > 0
                      /\ status'[r] # "none"
                      /\ Seen(n, r)'
                      /\ r \notin ahead' /\ signIns[n].launch # launches => ~IsNew(r)'
    BY DEF NoticesSound
  <2>1. /\ signIns[n].launch > 0
        /\ status[r] # "none"
        /\ Seen(n, r)
        /\ r \notin ahead /\ signIns[n].launch # launches => ~IsNew(r)
    BY DEF NewsInv, NewsSound, NoticesSound
  <2>2. QED
    BY <1>1, <2>1 DEF IsNew
<1>5. NotifiedOnce'
  BY DEF NewsInv, NewsSound, NotifiedOnce
<1>6. QED
  BY <1>2, <1>3, <1>4, <1>5 DEF NewsSound

\* Whatever was stored before the launch, by a clock that was not ahead, is old.
LEMMA RelaunchSound ==
    ASSUME NewsInv, Relaunch PROVE NewsSound'
<1>1. /\ launches' = launches + 1 /\ launchAppDate' = time
      /\ listeners' = {} /\ reads' = {}
      /\ UNCHANGED <<time, status, createTime, signIns, noticed, ahead>>
  BY DEF Relaunch, store, history
<1>2. ClocksSound'
  BY <1>1, RequestNewsAssumption DEF NewsInv, NewsSound, ClocksSound, TypeOK, Time
<1>3. ListenersSound' /\ ReadsSound'
  BY <1>1 DEF ListenersSound, ReadsSound
<1>4. NoticesSound'
  <2> SUFFICES ASSUME NEW n \in Numbers, NEW r \in Requests, noticed[n][r] > 0
               PROVE  /\ signIns[n].launch > 0
                      /\ status[r] # "none"
                      /\ Seen(n, r)'
                      /\ r \notin ahead => ~IsNew(r)'
    BY <1>1 DEF NoticesSound
  <2>1. signIns[n].launch > 0 /\ status[r] # "none"
    BY DEF NewsInv, NewsSound, NoticesSound
  <2>2. Seen(n, r)'
    BY <1>1 DEF Seen
  <2>3. r \notin ahead => createTime[r] \in Nat /\ createTime[r] <= time
    BY <2>1 DEF NewsInv, NewsSound, ClocksSound
  <2>4. time \in Nat
    BY RequestNewsAssumption DEF NewsInv, TypeOK, Time
  <2>5. QED
    BY <1>1, <2>1, <2>2, <2>3, <2>4 DEF IsNew
<1>5. NotifiedOnce'
  BY <1>1 DEF NewsInv, NewsSound, NotifiedOnce
<1>6. QED
  BY <1>2, <1>3, <1>4, <1>5 DEF NewsSound

\* Before the first launch ends nobody has been notified of anything.
LEMMA InitNews == Init => NewsInv
<1> SUFFICES ASSUME Init PROVE NewsInv
  OBVIOUS
<1>1. ClocksSound
  BY DEF Init, ClocksSound
<1>2. ListenersSound /\ ReadsSound
  BY DEF Init, ListenersSound, ReadsSound
<1>3. \A n \in Numbers, r \in Requests : ~(noticed[n][r] > 0)
  BY DEF Init
<1>4. NoticesSound /\ NotifiedOnce
  BY <1>3 DEF NoticesSound, NotifiedOnce
<1>5. QED
  BY <1>1, <1>2, <1>4, InitTypeOK DEF NewsInv, NewsSound

\* Every step keeps the invariant.
LEMMA NextNews == NewsInv /\ [Next]_vars => NewsInv'
<1> SUFFICES ASSUME NewsInv, [Next]_vars PROVE NewsSound'
  BY NextTypeOK DEF NewsInv
<1>0. TypeOK /\ ClocksSound /\ time \in Nat
  BY RequestNewsAssumption DEF NewsInv, NewsSound, TypeOK, Time
<1> USE DEF store, session, history
<1>1. CASE Tick
  <2>1. ClocksSound'
    BY <1>0, <1>1, RequestNewsAssumption DEF Tick, ClocksSound, TypeOK, Time
  <2>2. QED
    BY <1>1, <2>1, QuietSound DEF Tick
<1>2. ASSUME NEW r \in Requests, Send(r) PROVE NewsSound'
  <2>1. PICK t \in Time : /\ createTime' = [createTime EXCEPT ![r] = t]
                          /\ ahead' = IF t > time THEN ahead \cup {r} ELSE ahead
    BY <1>2 DEF Send
  <2>2. t \in Nat /\ createTime'[r] = t /\ status'[r] = "pending"
    BY <1>0, <1>2, <2>1, RequestNewsAssumption DEF Send, TypeOK, Time
  <2>3. \A s \in Requests :
          s = r \/ (status'[s] = status[s] /\ createTime'[s] = createTime[s])
    BY <1>0, <1>2, <2>1 DEF Send, TypeOK
  <2>4. ahead \subseteq ahead' /\ (r \notin ahead' => t <= time)
    <3>1. CASE t > time
      BY <2>1, <3>1
    <3>2. CASE ~(t > time)
      BY <1>0, <2>1, <2>2, <3>2
    <3>3. QED
      BY <3>1, <3>2
  <2>5. UNCHANGED <<time, session, listeners, reads, signIns, noticed>>
    BY <1>2 DEF Send
  <2>6. ClocksSound'
    BY <1>0, <2>2, <2>3, <2>4, <2>5 DEF ClocksSound
  <2>7. \A s \in Requests : status[s] # "none" =>
          status'[s] # "none" /\ createTime'[s] = createTime[s]
    BY <1>2, <2>2, <2>3 DEF Send
  <2>8. QED
    BY <2>4, <2>5, <2>6, <2>7, QuietSound
<1>3. ASSUME NEW r \in Requests, Changed(r) PROVE NewsSound'
  <2>1. status[r] # "none" /\ status'[r] # "none"
    BY <1>0, <1>3 DEF Changed, TypeOK
  <2>2. \A s \in Requests : s = r \/ status'[s] = status[s]
    BY <1>0, <1>3 DEF Changed, TypeOK
  <2>3. ClocksSound'
    BY <1>0, <1>3, <2>1, <2>2 DEF Changed, ClocksSound
  <2>4. \A s \in Requests : status[s] # "none" => status'[s] # "none"
    BY <2>1, <2>2
  <2>5. QED
    BY <1>3, <2>3, <2>4, QuietSound DEF Changed
<1>4. CASE LaunchEnds
  <2>1. CASE HasSession
    <3>1. thisUser \in Users
      BY <1>0, <2>1 DEF HasSession, TypeOK
    <3>2. QED
      BY <1>4, <2>1, <3>1, ListenSound DEF LaunchEnds
  <2>2. CASE ~HasSession
    <3>1. UNCHANGED <<time, store, launchAppDate, launches, signIns, noticed, ahead,
                      listeners, reads>>
      BY <1>4, <2>2 DEF LaunchEnds
    <3>2. ClocksSound'
      BY <1>0, <3>1 DEF ClocksSound
    <3>3. QED
      BY <3>1, <3>2, QuietSound
  <2>3. QED
    BY <2>1, <2>2
<1>5. ASSUME NEW u \in Users, LogIn(u) PROVE NewsSound'
  BY <1>5, ListenSound DEF LogIn
<1>6. CASE Relaunch
  BY <1>6, RelaunchSound
<1>7. ASSUME NEW l \in listeners, Snapshot(l) PROVE NewsSound'
  BY <1>7, SnapshotSound
<1>8. ASSUME NEW x \in reads, Notify(x) PROVE NewsSound'
  BY <1>8, NotifySound
<1>9. ASSUME UNCHANGED <<time, status, createTime, launchAppDate, launches, signIns,
                        noticed, ahead>>,
             listeners' \subseteq listeners, reads' \subseteq reads
       PROVE  NewsSound'
  <2>1. ClocksSound'
    BY <1>0, <1>9 DEF ClocksSound
  <2>2. QED
    BY <1>9, <2>1, QuietSound
<1>10. CASE Logout \/ DeleteAccount \/ RemoveConfirmed \/ RemoveFails
  BY <1>9, <1>10 DEF Logout, DeleteAccount, RemoveConfirmed, RemoveFails
<1>11. ASSUME NEW x \in reads, NoSender(x) PROVE NewsSound'
  BY <1>9, <1>11 DEF NoSender
<1>12. ASSUME NEW l \in listeners, ListenerFails(l) PROVE NewsSound'
  BY <1>9, <1>12 DEF ListenerFails
<1>13. CASE UNCHANGED vars
  BY <1>9, <1>13 DEF vars
<1>14. QED
  BY <1>1, <1>2, <1>3, <1>4, <1>5, <1>6, <1>7, <1>8, <1>10, <1>11, <1>12, <1>13
     DEF Next

\* No listener notifies twice of a request, or of one to somebody else, and no
\* launch notifies of what an earlier one has notified of.
THEOREM NeverNotifiedTwice == Spec => []NotifiedOnce
<1>1. NewsInv => NotifiedOnce
  BY DEF NewsInv, NewsSound
<1>2. QED
  BY <1>1, InitNews, NextNews, PTL DEF Spec

-----------------------------------------------------------------------------
(* Nobody who is to be notified is forgotten.                              *)

\* Listener n has notified of r, will, or would have but for its sender.
Announced(n, r) ==
    noticed[n][r] > 0 \/ r \in unread \/ [n |-> n, request |-> r] \in reads

\* A listener has announced every new request that it has seen in its query, and
\* what it has seen go is gone.
Heard(l, r) ==
    /\ l.seen[r] = "gone" => status[r] = "gone"
    /\ l.seen[r] \in {"pending", "answered"} /\ IsNew(r) => Announced(l.n, r)

HeardAll == \A l \in listeners, r \in Requests : Heard(l, r)

\* Somebody is or will be notified of r, unless its sender cannot be read.
UnderWay(r) == \/ \E n \in Numbers : noticed[n][r] > 0
               \/ r \in unread
               \/ \E x \in reads : x.request = r
               \/ \E l \in listeners : r \in Added(l)

\* listenPlayRequests: a request that its receiver is to be notified of has been
\* announced, or a snapshot is to come that shows it for the first time.
DueIsUnderWay == \A r \in Requests : Due(r) => UnderWay(r)

\* What was announced stays so until the next launch.
LEMMA AnnouncedStays ==
    ASSUME TypeOK, [Next]_vars, ~Relaunch, NEW n \in Numbers, NEW r \in Requests,
           Announced(n, r)
    PROVE  Announced(n, r)'
<1>1. CASE UNCHANGED <<noticed, unread>> /\ reads \subseteq reads'
  BY <1>1 DEF Announced
<1>2. ASSUME NEW x \in reads, Notify(x) PROVE Announced(n, r)'
  <2>1. x.n \in Numbers /\ x.request \in Requests /\ x = [n |-> x.n, request |-> x.request]
    BY DEF TypeOK, ReadCall
  <2>2. noticed[n][r] \in Nat
    BY DEF TypeOK
  <2>3. CASE x = [n |-> n, request |-> r]
    <3>1. x.n = n /\ x.request = r
      BY <2>3
    <3>2. noticed'[n][r] = noticed[n][r] + 1
      BY <1>2, <3>1 DEF Notify, TypeOK
    <3>3. QED
      BY <2>2, <3>2 DEF Announced
  <2>4. CASE x # [n |-> n, request |-> r]
    <3>1. x.n # n \/ x.request # r
      BY <2>1, <2>4
    <3>2. noticed'[n][r] = noticed[n][r]
      BY <1>2, <2>1, <3>1 DEF Notify, TypeOK
    <3>3. [n |-> n, request |-> r] \in reads => [n |-> n, request |-> r] \in reads'
      BY <1>2, <2>4 DEF Notify
    <3>4. unread' = unread
      BY <1>2 DEF Notify
    <3>5. QED
      BY <3>2, <3>3, <3>4 DEF Announced
  <2>5. QED
    BY <2>3, <2>4
<1>3. ASSUME NEW x \in reads, NoSender(x) PROVE Announced(n, r)'
  <2>1. x = [n |-> n, request |-> r] => x.request = r
    OBVIOUS
  <2>2. /\ noticed' = noticed /\ reads' = reads \ {x}
        /\ unread' = unread \cup {x.request}
    BY <1>3 DEF NoSender
  <2>3. QED
    BY <2>1, <2>2 DEF Announced
<1>4. ASSUME NEW u \in Users, LogIn(u) PROVE UNCHANGED <<noticed, unread, reads>>
  BY <1>4 DEF LogIn
<1>5. \/ LaunchEnds \/ Logout \/ Tick \/ UNCHANGED vars
      \/ DeleteAccount \/ RemoveConfirmed \/ RemoveFails
      => UNCHANGED <<noticed, unread, reads>>
  BY DEF LaunchEnds, Logout, DeleteAccount, RemoveConfirmed, RemoveFails, Tick,
         history, vars
<1>6. ASSUME NEW q \in Requests, Send(q) \/ Changed(q)
      PROVE  UNCHANGED <<noticed, unread, reads>>
  BY <1>6 DEF Send, Changed, history
<1>7. ASSUME NEW l \in listeners, Snapshot(l) \/ ListenerFails(l)
      PROVE  UNCHANGED <<noticed, unread>> /\ reads \subseteq reads'
  BY <1>7 DEF Snapshot, ListenerFails, history
<1>8. QED
  BY <1>1, <1>2, <1>3, <1>4, <1>5, <1>6, <1>7 DEF Next

\* A listener is added, or has a snapshot; none outlives its launch.
LEMMA WhoListens ==
    ASSUME [Next]_vars, NEW l \in listeners'
    PROVE  \/ l \in listeners /\ ~Relaunch
           \/ \A r \in Requests : l.seen[r] = "none"
           \/ \E k \in listeners : Snapshot(k) /\ l = [k EXCEPT !.seen = Result(k)]
<1>1. ASSUME NEW u, ListenPlayRequests(u)
      PROVE  l \in listeners \/ \A r \in Requests : l.seen[r] = "none"
  BY <1>1 DEF ListenPlayRequests
<1>2. ASSUME NEW u \in Users, LogIn(u) PROVE ListenPlayRequests(u)
  BY <1>2 DEF LogIn
<1>3. LaunchEnds => ListenPlayRequests(thisUser) \/ listeners' = listeners
  BY DEF LaunchEnds
<1>4. \/ Tick \/ Logout \/ UNCHANGED vars
      \/ DeleteAccount \/ RemoveConfirmed \/ RemoveFails
      => listeners' = listeners
  BY DEF Tick, Logout, DeleteAccount, RemoveConfirmed, RemoveFails, vars
<1>5. ASSUME NEW q \in Requests, Send(q) \/ Changed(q)
      PROVE  listeners' = listeners
  BY <1>5 DEF Send, Changed
<1>6. ASSUME NEW x \in reads, Notify(x) \/ NoSender(x) PROVE listeners' = listeners
  BY <1>6 DEF Notify, NoSender
<1>7. ASSUME NEW k \in listeners, Snapshot(k)
      PROVE  l \in listeners \/ l = [k EXCEPT !.seen = Result(k)]
  BY <1>7 DEF Snapshot
<1>8. ASSUME NEW k \in listeners, ListenerFails(k) PROVE l \in listeners
  BY <1>8 DEF ListenerFails
<1>9. ~Relaunch
  BY DEF Relaunch
<1>10. QED
  BY <1>1, <1>2, <1>3, <1>4, <1>5, <1>6, <1>7, <1>8, <1>9 DEF Next

\* A request that was seen keeps its time, and one that is gone does not return.
LEMMA RequestsStay ==
    ASSUME NewsInv, [Next]_vars, NEW r \in Requests
    PROVE  /\ status[r] = "gone" => status'[r] = "gone"
           /\ status[r] # "none" /\ ~Relaunch => (IsNew(r)' <=> IsNew(r))
<1>1. ASSUME NEW q \in Requests, Send(q)
      PROVE  /\ status[r] # "none" => /\ status'[r] = status[r]
                                      /\ createTime'[r] = createTime[r]
             /\ launchAppDate' = launchAppDate
  BY <1>1 DEF Send, session, NewsInv, TypeOK
<1>2. ASSUME NEW q \in Requests, Changed(q)
      PROVE  (status[r] = "gone" => status'[r] = "gone")
             /\ createTime' = createTime /\ launchAppDate' = launchAppDate
  BY <1>2 DEF Changed, session, NewsInv, TypeOK
<1>3. \/ Tick \/ LaunchEnds \/ Logout \/ UNCHANGED vars
      \/ DeleteAccount \/ RemoveConfirmed \/ RemoveFails
      => UNCHANGED <<status, createTime, launchAppDate>>
  BY DEF Tick, LaunchEnds, Logout, DeleteAccount, RemoveConfirmed, RemoveFails,
         vars, store, session
<1>4. ASSUME NEW u \in Users, LogIn(u)
      PROVE  UNCHANGED <<status, createTime, launchAppDate>>
  BY <1>4 DEF LogIn, store
<1>5. ASSUME NEW l \in listeners, Snapshot(l) \/ ListenerFails(l)
      PROVE  UNCHANGED <<status, createTime, launchAppDate>>
  BY <1>5 DEF Snapshot, ListenerFails, store, session
<1>6. ASSUME NEW x \in reads, Notify(x) \/ NoSender(x)
      PROVE  UNCHANGED <<status, createTime, launchAppDate>>
  BY <1>6 DEF Notify, NoSender, store, session
<1>7. Relaunch => status' = status
  BY DEF Relaunch, store
<1>8. /\ status[r] = "gone" => status'[r] = "gone"
      /\ status[r] # "none" /\ ~Relaunch =>
           launchAppDate' = launchAppDate /\ createTime'[r] = createTime[r]
  BY <1>1, <1>2, <1>3, <1>4, <1>5, <1>6, <1>7 DEF Next
<1>9. QED
  BY <1>8 DEF IsNew

\* A snapshot announces what it shows for the first time.
LEMMA NextHeard == ASSUME NewsInv, HeardAll, [Next]_vars PROVE HeardAll'
<1> SUFFICES ASSUME NEW l \in listeners', NEW r \in Requests PROVE Heard(l, r)'
  BY DEF HeardAll
<1>1. ASSUME NEW k \in listeners
      PROVE  /\ k.n \in Numbers /\ k.seen[r] \in Status
             /\ k.seen[r] # "none" => status[r] # "none"
             /\ Heard(k, r)
  <2>1. k.n \in Numbers /\ k.seen[r] \in Status
    BY DEF NewsInv, TypeOK, Listener
  <2>2. k.seen[r] # "none" => status[r] # "none"
    BY DEF NewsInv, NewsSound, ListenersSound
  <2>3. QED
    BY <2>1, <2>2 DEF HeardAll
<1>2. CASE l \in listeners /\ ~Relaunch
  <2>1. Announced(l.n, r) => Announced(l.n, r)'
    BY <1>1, <1>2, AnnouncedStays DEF NewsInv
  <2>2. QED
    BY <1>1, <1>2, <2>1, RequestsStay DEF Heard
<1>3. CASE l.seen[r] = "none"
  BY <1>3 DEF Heard
<1>4. ASSUME NEW k \in listeners, Snapshot(k), l = [k EXCEPT !.seen = Result(k)]
      PROVE  Heard(l, r)'
  <2>1. l.n = k.n /\ l.seen[r] \in {"none", status[r]}
    BY <1>4 DEF NewsInv, TypeOK, Listener, Result
  <2>2. UNCHANGED <<status, createTime, launchAppDate>>
    BY <1>4 DEF Snapshot, store, session
  <2>3. ASSUME l.seen[r] \in {"pending", "answered"}, IsNew(r)
        PROVE  Announced(k.n, r)'
    <3>1. status[r] = l.seen[r] /\ r \in Received(k)
      BY <1>4, <2>1, <2>3 DEF Received, NewsInv, TypeOK, Listener
    <3>2. CASE k.seen[r] = "none"
      BY <1>4, <2>3, <3>1, <3>2 DEF Added, Snapshot, Announced
    <3>3. CASE k.seen[r] # "none"
      <4>1. Announced(k.n, r)
        BY <1>1, <2>3, <3>1, <3>3 DEF Heard, Status
      <4>2. ~Relaunch
        BY <1>4 DEF Relaunch
      <4>3. QED
        BY <1>1, <4>1, <4>2, AnnouncedStays DEF NewsInv
    <3>4. QED
      BY <3>2, <3>3
  <2>4. QED
    BY <2>1, <2>2, <2>3 DEF Heard, IsNew
<1>5. QED
  BY <1>2, <1>3, <1>4, WhoListens

\* listenPlayRequests: however snapshots, answers and sign-ins interleave, a
\* request that is due is announced or will be shown as added.
THEOREM DueAlwaysUnderWay == Spec => []DueIsUnderWay
<1>1. Init => NewsInv /\ HeardAll
  BY InitNews DEF Init, HeardAll
<1>2. NewsInv /\ HeardAll /\ [Next]_vars => NewsInv' /\ HeardAll'
  BY NextNews, NextHeard
<1>3. NewsInv /\ HeardAll => DueIsUnderWay
  <2> SUFFICES ASSUME NewsInv, HeardAll, NEW r \in Requests, Due(r)
               PROVE  UnderWay(r)
    BY DEF DueIsUnderWay
  <2>1. PICK l \in listeners : l.user = receiver[r]
    BY DEF Due
  <2>2. l.n \in Numbers /\ l.seen[r] \in Status
    BY DEF NewsInv, TypeOK, Listener
  <2>3. status[r] \in {"pending", "answered"} /\ IsNew(r) /\ Heard(l, r)
    BY DEF Due, HeardAll
  <2>4. CASE l.seen[r] = "none"
    BY <2>1, <2>3, <2>4 DEF Added, Received, Result, UnderWay
  <2>5. CASE l.seen[r] # "none"
    <3>1. Announced(l.n, r)
      BY <2>2, <2>3, <2>5 DEF Heard, Status
    <3>2. [n |-> l.n, request |-> r].request = r
      OBVIOUS
    <3>3. QED
      BY <2>2, <3>1, <3>2 DEF Announced, UnderWay
  <2>6. QED
    BY <2>4, <2>5
<1>4. QED
  BY <1>1, <1>2, <1>3, PTL DEF Spec
=============================================================================
