-------------------------- MODULE CourtQueueProofs --------------------------
(***************************************************************************)
(* Theorems about module CourtQueue, for any users and courts, any number  *)
(* of calls in flight, any interleaving, any lost call and any restart.    *)
(***************************************************************************)
EXTENDS CourtQueue, ListLemmas, TLAPS

-----------------------------------------------------------------------------
(* Type correctness.                                                       *)

\* The first screen, before anybody is in line, is well typed.
LEMMA InitTypeOK == Init => TypeOK
<1>1. <<>> \in Seq(Users) /\ <<>> \in Seq({"create", "delete"})
  OBVIOUS
<1>2. QED
  BY <1>1, CourtQueueAssumption DEF Init, TypeOK

\* A fetch starts without the courts, which come with the answer.
LEMMA GetPlayOneCourtsTypeOK ==
    ASSUME TypeOK, NEW u \in Users, GetPlayOneCourts(u)
    PROVE  /\ fetches' \subseteq Fetch
           /\ playOneData' \in [Users -> {"empty", "with", "without"}]
BY DEF GetPlayOneCourts, TypeOK, Fetch

\* A restart forgets reads and screens, never to more than they can hold.
LEMMA ReopenedTypeOK ==
    ASSUME TypeOK, NEW u \in Users, Reopened(u),
           docWrites' \in [Users -> Seq({"create", "delete"})],
           ops' \in 0..MaxOps
    PROVE  TypeOK'
BY CourtQueueAssumption DEF Reopened, TypeOK, documents

\* A tap starts calls about a known court.
LEMMA UserStepTypeOK == TypeOK /\ UserStep => TypeOK'
<1> SUFFICES ASSUME TypeOK, NEW u \in Users,
                    \/ Refresh(u)
                    \/ \E c \in Courts : LineUp(u, c)
                    \/ LineUpTraps(u)
                    \/ CancelPlay(u)
                    \/ CancelPlayTraps(u)
                    \/ SavePlayOneImage(u)
             PROVE  TypeOK'
  BY DEF UserStep
<1>1. Begin => ops' \in 0..MaxOps /\ ops \in Nat
  BY CourtQueueAssumption DEF Begin, TypeOK
<1>2. \A w \in {"create", "delete"} :
        [docWrites EXCEPT ![u] = Append(@, w)] \in [Users -> Seq({"create", "delete"})]
  BY AppendProperties DEF TypeOK
<1>3. CASE Refresh(u)
  BY <1>3, GetPlayOneCourtsTypeOK DEF Refresh, TypeOK, documents, buttons
<1>4. ASSUME NEW c \in Courts, LineUp(u, c) PROVE TypeOK'
  <2>1. Add(u, c) \in CourtJob
    BY <1>1, <1>4 DEF LineUp, Add, CourtJob
  <2>2. docWrites' \in [Users -> Seq({"create", "delete"})]
    BY <1>2, <1>4 DEF LineUp
  <2>3. QED
    BY <1>1, <1>4, <2>1, <2>2 DEF LineUp, TypeOK, documents
<1>5. CASE LineUpTraps(u)
  BY <1>1, <1>2, <1>5, ReopenedTypeOK DEF LineUpTraps
<1>6. CASE CancelPlay(u)
  <2>1. Delete(u) \in CourtJob
    BY <1>1, <1>6 DEF CancelPlay, Delete, CourtJob, TypeOK
  <2>2. docWrites' \in [Users -> Seq({"create", "delete"})]
    BY <1>2, <1>6 DEF CancelPlay
  <2>3. QED
    BY <1>1, <1>6, <2>1, <2>2 DEF CancelPlay, TypeOK, documents
<1>7. CASE CancelPlayTraps(u)
  BY <1>1, <1>7, ReopenedTypeOK DEF CancelPlayTraps, TypeOK
<1>8. CASE SavePlayOneImage(u)
  BY <1>1, <1>8 DEF SavePlayOneImage, TypeOK, documents, screen, buttons, Upload
<1>9. QED
  BY <1>3, <1>4, <1>5, <1>6, <1>7, <1>8

\* A scroll draws headers and does nothing else.
LEMMA ScrollAlone ==
    Scroll => UNCHANGED <<documents, playOneData, canAddPlay, courtIAdded,
                          cancelItem, jobs, tapped, ops>>
BY DEF Scroll, RedrawHeader

\* A header drawn again is that of a court.
LEMMA ScrollTypeOK == TypeOK /\ Scroll => TypeOK'
<1> SUFFICES ASSUME TypeOK, NEW u \in Users, NEW c \in Courts, RedrawHeader(u, c)
             PROVE  TypeOK'
  BY DEF Scroll
<1>1. lineUpButton' \in [Users -> SUBSET Courts]
  BY DEF RedrawHeader, TypeOK
<1>2. QED
  BY <1>1 DEF RedrawHeader, TypeOK, documents, jobs

\* The row that decides courtIAdded is a court.
LEMMA MineAreCourts ==
    ASSUME TypeOK, NEW f \in fetches, f.snap # Unread
    PROVE  /\ f.user \in Users /\ f.snap \in [Courts -> Seq(Users)]
           /\ Mine(f) \subseteq Courts
           /\ LastShown(Mine(f)) \subseteq Mine(f)
BY DEF TypeOK, Fetch, Mine, LastShown

\* An answer puts what it carries on the screen.
LEMMA ClientStepTypeOK == TypeOK /\ ClientStep => TypeOK'
<1> SUFFICES ASSUME TypeOK, ClientStep PROVE TypeOK'
  OBVIOUS
<1>1. ASSUME NEW u \in Users, Listen(u) PROVE TypeOK'
  BY <1>1, GetPlayOneCourtsTypeOK DEF Listen, TypeOK, documents, buttons
<1>2. ASSUME NEW f \in fetches, ReadCourts(f) PROVE TypeOK'
  <2>1. finderIds \in [Courts -> Seq(Users)] /\ f \in Fetch
    BY DEF TypeOK
  <2>2. [f EXCEPT !.snap = finderIds] \in Fetch
    BY <2>1 DEF Fetch
  <2>3. QED
    BY <1>2, <2>2 DEF ReadCourts, TypeOK, documents, screen, buttons
<1>3. ASSUME NEW f \in fetches, DidGet(f) PROVE TypeOK'
  <2>1. f.user \in Users /\ Mine(f) \subseteq Courts /\ LastShown(Mine(f)) \subseteq Courts
    BY <1>3, MineAreCourts DEF DidGet
  <2>2. CanAdd(f) \in BOOLEAN
    BY DEF CanAdd, TypeOK
  <2>3. courtIAdded' \in [Users -> Courts \cup {NoCourt}]
    BY <1>3, <2>1 DEF DidGet, TypeOK
  <2>4. QED
    BY <1>3, <2>1, <2>2, <2>3 DEF DidGet, TypeOK, documents
<1>4. QED
  BY <1>1, <1>2, <1>3 DEF ClientStep

\* A line written back is a line of users.
LEMMA StoreStepTypeOK == TypeOK /\ StoreStep => TypeOK'
<1> SUFFICES ASSUME TypeOK, StoreStep PROVE TypeOK'
  OBVIOUS
<1> USE DEF documents, screen, buttons
<1>1. ASSUME NEW u \in Users, CommitDoc(u) PROVE TypeOK'
  <2>1. Tail(docWrites[u]) \in Seq({"create", "delete"})
    BY <1>1 DEF CommitDoc, TypeOK
  <2>2. QED
    BY <1>1, <2>1 DEF CommitDoc, TypeOK
<1>2. ASSUME NEW j \in uploads, CommitPhoto(j) PROVE TypeOK'
  BY <1>2 DEF CommitPhoto, TypeOK
<1>3. ASSUME NEW j \in courtJobs, ReadCourt(j) PROVE TypeOK'
  <2>1. j \in CourtJob /\ finderIds[j.court] \in Seq(Users)
    BY DEF TypeOK, CourtJob
  <2>2. [j EXCEPT !.snap = finderIds[j.court]] \in CourtJob
    BY <2>1 DEF CourtJob
  <2>3. QED
    BY <1>3, <2>2 DEF ReadCourt, TypeOK
<1>4. ASSUME NEW j \in courtJobs, WriteCourt(j) PROVE TypeOK'
  <2>1. j.user \in Users /\ j.court \in Courts /\ j.snap \in Seq(Users)
    BY <1>4 DEF WriteCourt, TypeOK, CourtJob
  <2>2. NewLine(j) \in Seq(Users)
    BY <2>1, AppendProperties, RemovingFirstProperties DEF NewLine
  <2>3. Heard(j) \in [Users -> BOOLEAN]
    BY DEF Heard, TypeOK
  <2>4. QED
    BY <1>4, <2>1, <2>2, <2>3 DEF WriteCourt, TypeOK
<1>5. QED
  BY <1>1, <1>2, <1>3, <1>4 DEF StoreStep

\* A failure takes calls away and forgets screens.
LEMMA FailureTypeOK == TypeOK /\ Failure => TypeOK'
<1> SUFFICES ASSUME TypeOK, Failure PROVE TypeOK'
  OBVIOUS
<1>1. ASSUME NEW u \in Users, Kill(u) PROVE TypeOK'
  BY <1>1, ReopenedTypeOK DEF Kill, TypeOK
<1>2. CASE Lose
  <2>1. ASSUME NEW u \in Users, docWrites[u] # <<>>
        PROVE  Tail(docWrites[u]) \in Seq({"create", "delete"})
    BY <2>1 DEF TypeOK
  <2>2. /\ fetches' \subseteq fetches /\ courtJobs' \subseteq courtJobs
        /\ uploads' \subseteq uploads
        /\ UNCHANGED <<documents, screen, news, tapped, ops>>
        /\ \/ docWrites' = docWrites
           \/ \E u \in Users : /\ docWrites[u] # <<>>
                               /\ docWrites' = [docWrites EXCEPT ![u] = Tail(@)]
    BY <1>2 DEF Lose
  <2>3. docWrites \in [Users -> Seq({"create", "delete"})]
    BY DEF TypeOK
  <2>4. docWrites' \in [Users -> Seq({"create", "delete"})]
    BY ONLY <2>1, <2>2, <2>3
  <2>5. fetches' \subseteq Fetch /\ courtJobs' \subseteq CourtJob /\ uploads' \subseteq Upload
    BY <2>2 DEF TypeOK
  <2>6. QED
    BY <2>2, <2>4, <2>5 DEF TypeOK, documents, screen, buttons
<1>3. QED
  BY <1>1, <1>2 DEF Failure

\* Every step, and every stutter, keeps the types.
LEMMA NextTypeOK == TypeOK /\ [Next]_vars => TypeOK'
<1>1. TypeOK /\ UNCHANGED vars => TypeOK'
  BY DEF TypeOK, vars, documents, screen, buttons, jobs
<1>2. QED
  BY <1>1, UserStepTypeOK, ScrollTypeOK, ClientStepTypeOK, StoreStepTypeOK,
     FailureTypeOK DEF Next

\* Every variable keeps its type: a call is about a known court, and a line
\* written back holds users.
THEOREM TypeCorrect == Spec => []TypeOK
BY InitTypeOK, NextTypeOK, PTL DEF Spec

-----------------------------------------------------------------------------
(* The buttons.                                                            *)

\* Nothing is lined up for, so there is a "+" to wait for and no court.
LEMMA InitButtons == Init => ButtonsAgree
BY DEF Init, ButtonsAgree

\* The four assignments of a tap, of an answer and of a restart move together.
LEMMA ButtonsStep == TypeOK /\ ButtonsAgree /\ [Next]_vars => ButtonsAgree'
<1> SUFFICES ASSUME TypeOK, ButtonsAgree, [Next]_vars PROVE ButtonsAgree'
  OBVIOUS
<1> USE DEF buttons, screen
<1>1. ASSUME UNCHANGED buttons PROVE ButtonsAgree'
  BY <1>1 DEF ButtonsAgree
<1>2. ASSUME NEW u \in Users, Reopened(u) PROVE ButtonsAgree'
  BY <1>2, CourtQueueAssumption DEF Reopened, ButtonsAgree, TypeOK
<1>3. ASSUME NEW u \in Users, NEW c \in Courts, LineUp(u, c) PROVE ButtonsAgree'
  BY <1>3 DEF LineUp, ButtonsAgree, TypeOK
<1>4. ASSUME NEW u \in Users, CancelPlay(u) PROVE ButtonsAgree'
  BY <1>4 DEF CancelPlay, ButtonsAgree, TypeOK
<1>5. ASSUME NEW f \in fetches, DidGet(f) PROVE ButtonsAgree'
  <2>1. /\ f.user \in Users /\ Mine(f) \subseteq Courts
        /\ LastShown(Mine(f)) \subseteq Mine(f)
    BY <1>5, MineAreCourts DEF DidGet
  <2>2. PICK c \in IF Mine(f) = {} THEN {courtIAdded[f.user]}
                   ELSE LastShown(Mine(f)) :
          courtIAdded' = [courtIAdded EXCEPT ![f.user] = c]
    BY <1>5 DEF DidGet
  <2>3. Mine(f) # {} => c # NoCourt
    BY <2>1, <2>2, CourtQueueAssumption
  <2>4. QED
    BY <1>5, <2>1, <2>2, <2>3 DEF DidGet, CanAdd, ButtonsAgree, TypeOK
<1>10. ASSUME NEW u \in Users, NEW c \in Courts, RedrawHeader(u, c)
       PROVE  ButtonsAgree'
  BY <1>10 DEF RedrawHeader, ButtonsAgree, TypeOK
<1>6. UserStep => \/ UNCHANGED buttons
                  \/ \E u \in Users : \/ Reopened(u)
                                      \/ \E c \in Courts : LineUp(u, c)
                                      \/ CancelPlay(u)
  BY DEF UserStep, Refresh, LineUpTraps, CancelPlayTraps, SavePlayOneImage
<1>7. ClientStep => UNCHANGED buttons \/ \E f \in fetches : DidGet(f)
  BY DEF ClientStep, Listen, ReadCourts
<1>8. StoreStep => UNCHANGED buttons
  BY DEF StoreStep, CommitDoc, CommitPhoto, ReadCourt, WriteCourt
<1>9. Failure => UNCHANGED buttons \/ \E u \in Users : Reopened(u)
  BY DEF Failure, Lose, Kill
<1>11. QED
  BY <1>1, <1>2, <1>3, <1>4, <1>5, <1>10, <1>6, <1>7, <1>8, <1>9
     DEF Next, vars, Scroll

\* Whatever answers arrive, in whatever order, a "+" that is shown is never
\* refused, and a refusal comes with a court to cancel.
THEOREM ButtonsAlwaysAgree == Spec => []ButtonsAgree
<1>1. Init => TypeOK /\ ButtonsAgree
  BY InitTypeOK, InitButtons
<1>2. TypeOK /\ ButtonsAgree /\ [Next]_vars => (TypeOK /\ ButtonsAgree)'
  BY NextTypeOK, ButtonsStep
<1>3. QED
  BY <1>1, <1>2, PTL DEF Spec

-----------------------------------------------------------------------------
(* The lines.                                                              *)

\* Everybody in s tapped the "+" of court c.
TappedLine(s, c) == \A i \in DOMAIN s : <<s[i], c>> \in tapped

\* The lines of a call that was answered were lines of the store, so they are
\* lines of users who tapped; and a user is added only by a tap.
CallsSound ==
    /\ \A f \in fetches : f.snap # Unread =>
          \A c \in Courts : TappedLine(f.snap[c], c)
    /\ \A j \in courtJobs :
          /\ j.do = "add" => <<j.user, j.court>> \in tapped
          /\ j.snap # Unread => TappedLine(j.snap, j.court)

\* OnlyTapped is not inductive: the next WriteCourt stores what some client
\* holds in a callback, which need not be what the court holds now.
IInv == /\ TypeOK
        /\ OnlyTapped
        /\ CancelsOwnCourt
        /\ CallsSound

\* Nobody is in line.
LEMMA InitIInv == Init => IInv
BY InitTypeOK DEF Init, IInv, OnlyTapped, CancelsOwnCourt, CallsSound

\* A tap is never forgotten.
LEMMA TappedGrows == [Next]_vars => tapped \subseteq tapped'
<1>1. UserStep => tapped \subseteq tapped'
  BY DEF UserStep, Refresh, LineUp, LineUpTraps, CancelPlay, CancelPlayTraps,
         SavePlayOneImage, Reopened
<1>2. ClientStep => tapped' = tapped
  BY DEF ClientStep, Listen, ReadCourts, DidGet
<1>3. StoreStep => tapped' = tapped
  BY DEF StoreStep, CommitDoc, CommitPhoto, ReadCourt, WriteCourt
<1>4. Failure => tapped' = tapped
  BY DEF Failure, Lose, Kill, Reopened
<1>5. QED
  BY <1>1, <1>2, <1>3, <1>4, ScrollAlone DEF Next, vars

\* What WriteCourt is about to store is a line of users who tapped.
LEMMA NewLineTapped ==
    ASSUME IInv, NEW j \in courtJobs, j.snap # Unread
    PROVE  TappedLine(NewLine(j), j.court)
<1> DEFINE s == j.snap
           n == NewLine(j)
<1>1. j.user \in Users /\ s \in Seq(Users) /\ j.do \in {"add", "delete"}
  BY DEF IInv, TypeOK, CourtJob
<1>2. TappedLine(s, j.court)
  BY DEF IInv, CallsSound
<1>3. j.do = "add" => <<j.user, j.court>> \in tapped
  BY DEF IInv, CallsSound
<1>4. \A i \in DOMAIN n : \/ j.do = "add" /\ n[i] = j.user
                         \/ \E k \in DOMAIN s : n[i] = s[k]
  <2>1. CASE j.do = "add"
    BY <1>1, <2>1, AppendProperties DEF NewLine
  <2>2. CASE j.do # "add"
    <3>1. n = RemovingFirst(s, j.user)
      BY <2>2 DEF NewLine
    <3> HIDE DEF s, n
    <3>2. QED
      BY <1>1, <3>1, RemovingFirstProperties
  <2>3. QED
    BY <2>1, <2>2
<1> HIDE DEF s, n
<1>5. TappedLine(n, j.court)
  BY <1>2, <1>3, <1>4 DEF TappedLine
<1>6. QED
  BY <1>5 DEF n

\* Only a job's write changes a line.
LEMMA OnlyTappedStep == IInv /\ [Next]_vars => OnlyTapped'
<1> SUFFICES ASSUME IInv, [Next]_vars PROVE OnlyTapped'
  OBVIOUS
<1>1. tapped \subseteq tapped'
  BY TappedGrows
<1>2. ASSUME NEW j \in courtJobs, WriteCourt(j) PROVE OnlyTapped'
  <2>1. TappedLine(NewLine(j), j.court)
    BY <1>2, NewLineTapped DEF WriteCourt
  <2>2. \A c \in Courts : \/ finderIds'[c] = finderIds[c]
                          \/ c = j.court /\ finderIds'[c] = NewLine(j)
    BY <1>2 DEF WriteCourt, IInv, TypeOK
  <2>3. QED
    BY <1>1, <2>1, <2>2 DEF IInv, OnlyTapped, TappedLine
<1>3. CASE finderIds' = finderIds
  BY <1>1, <1>3 DEF IInv, OnlyTapped
<1>4. UserStep => finderIds' = finderIds
  BY DEF UserStep, Refresh, LineUp, LineUpTraps, CancelPlay, CancelPlayTraps,
         SavePlayOneImage, Reopened, documents
<1>5. ClientStep => finderIds' = finderIds
  BY DEF ClientStep, Listen, ReadCourts, DidGet, documents
<1>6. StoreStep => finderIds' = finderIds \/ \E j \in courtJobs : WriteCourt(j)
  BY DEF StoreStep, CommitDoc, CommitPhoto, ReadCourt, documents
<1>7. Failure => finderIds' = finderIds
  BY DEF Failure, Lose, Kill, Reopened, documents
<1>8. QED
  BY <1>2, <1>3, <1>4, <1>5, <1>6, <1>7, ScrollAlone DEF Next, vars, documents

\* courtIAdded is set only to a court where the answer found the user.
LEMMA OwnCourtStep == IInv /\ [Next]_vars => CancelsOwnCourt'
<1> SUFFICES ASSUME IInv, [Next]_vars PROVE CancelsOwnCourt'
  OBVIOUS
<1> USE DEF IInv
<1>1. tapped \subseteq tapped'
  BY TappedGrows
<1>2. ASSUME NEW u \in Users, courtIAdded' = [courtIAdded EXCEPT ![u] = NoCourt]
      PROVE  CancelsOwnCourt'
  BY <1>1, <1>2 DEF CancelsOwnCourt, TypeOK
<1>3. ASSUME NEW f \in fetches, DidGet(f) PROVE CancelsOwnCourt'
  <2>1. /\ f.user \in Users /\ f.snap \in [Courts -> Seq(Users)]
        /\ Mine(f) \subseteq Courts /\ LastShown(Mine(f)) \subseteq Mine(f)
    BY <1>3, MineAreCourts DEF DidGet
  <2>2. PICK c \in IF Mine(f) = {} THEN {courtIAdded[f.user]}
                   ELSE LastShown(Mine(f)) :
          courtIAdded' = [courtIAdded EXCEPT ![f.user] = c]
    BY <1>3 DEF DidGet
  <2>3. ASSUME Mine(f) # {} PROVE <<f.user, c>> \in tapped
    <3>1. c \in Courts /\ Contains(f.snap[c], f.user)
      BY <2>1, <2>2, <2>3 DEF Mine
    <3>2. PICK i \in 1..Len(f.snap[c]) : f.snap[c][i] = f.user
      BY <3>1 DEF Contains
    <3>3. i \in DOMAIN f.snap[c]
      BY <2>1, <3>1, <3>2
    <3>4. TappedLine(f.snap[c], c)
      BY <1>3, <3>1 DEF DidGet, CallsSound
    <3>5. QED
      BY <3>2, <3>3, <3>4 DEF TappedLine
  <2>4. QED
    BY <1>1, <2>1, <2>2, <2>3 DEF CancelsOwnCourt, TypeOK
<1>4. CASE courtIAdded' = courtIAdded
  BY <1>1, <1>4 DEF CancelsOwnCourt
<1>5. UserStep => \/ courtIAdded' = courtIAdded
                  \/ \E u \in Users : courtIAdded' = [courtIAdded EXCEPT ![u] = NoCourt]
  BY DEF UserStep, Refresh, LineUp, LineUpTraps, CancelPlay, CancelPlayTraps,
         SavePlayOneImage, Reopened, screen, buttons
<1>6. ClientStep => courtIAdded' = courtIAdded \/ \E f \in fetches : DidGet(f)
  BY DEF ClientStep, Listen, ReadCourts, screen, buttons
<1>7. StoreStep => courtIAdded' = courtIAdded
  BY DEF StoreStep, CommitDoc, CommitPhoto, ReadCourt, WriteCourt, screen, buttons
<1>8. Failure => \/ courtIAdded' = courtIAdded
                 \/ \E u \in Users : courtIAdded' = [courtIAdded EXCEPT ![u] = NoCourt]
  BY DEF Failure, Lose, Kill, Reopened, screen, buttons
<1>9. QED
  BY <1>2, <1>3, <1>4, <1>5, <1>6, <1>7, <1>8, ScrollAlone
     DEF Next, vars, screen, buttons

\* An answer carries lines of the store, and a call is started by a tap.
LEMMA CallsSoundStep == IInv /\ [Next]_vars => CallsSound'
<1> SUFFICES ASSUME IInv, [Next]_vars PROVE CallsSound'
  OBVIOUS
<1> USE DEF IInv
<1>1. tapped \subseteq tapped'
  BY TappedGrows
<1> DEFINE Asked == {f \in fetches' : f.snap = Unread}
           Begun == {j \in courtJobs' : /\ j.snap = Unread
                                        /\ j.do = "add" => <<j.user, j.court>> \in tapped'}
<1>2. CASE fetches' \subseteq fetches \cup Asked /\ courtJobs' \subseteq courtJobs \cup Begun
  BY <1>1, <1>2 DEF CallsSound, TappedLine
<1>3. ASSUME NEW f \in fetches, ReadCourts(f) PROVE CallsSound'
  <2>1. f \in Fetch
    BY DEF TypeOK
  <2>2. \A g \in fetches' \ fetches : g.snap = finderIds
    BY <1>3, <2>1 DEF ReadCourts, Fetch
  <2>3. courtJobs' = courtJobs
    BY <1>3 DEF ReadCourts
  <2>4. QED
    BY <1>1, <2>2, <2>3 DEF CallsSound, OnlyTapped, TappedLine
<1>4. ASSUME NEW j \in courtJobs, ReadCourt(j) PROVE CallsSound'
  <2>1. j \in CourtJob
    BY DEF TypeOK
  <2>2. \A k \in courtJobs' \ courtJobs : k = [j EXCEPT !.snap = finderIds[j.court]]
    BY <1>4 DEF ReadCourt
  <2>3. \A k \in courtJobs' \ courtJobs :
          /\ k.do = j.do /\ k.user = j.user /\ k.court = j.court
          /\ k.court \in Courts /\ k.snap = finderIds[k.court]
    BY <2>1, <2>2 DEF CourtJob
  <2>4. fetches' = fetches
    BY <1>4 DEF ReadCourt
  <2>5. QED
    BY <1>1, <2>3, <2>4 DEF CallsSound, OnlyTapped, TappedLine
<1>5. ASSUME NEW u \in Users, GetPlayOneCourts(u), courtJobs' = courtJobs
      PROVE  CallsSound'
  BY <1>2, <1>5 DEF GetPlayOneCourts
<1>6. ASSUME NEW u \in Users, Reopened(u) PROVE CallsSound'
  BY <1>2, <1>6 DEF Reopened
<1>7. ASSUME NEW u \in Users, NEW c \in Courts, LineUp(u, c) PROVE CallsSound'
  <2>1. \A j \in courtJobs' \ courtJobs :
          j.snap = Unread /\ <<j.user, j.court>> \in tapped'
    BY <1>7 DEF LineUp, Add
  <2>2. fetches' = fetches
    BY <1>7 DEF LineUp
  <2>3. QED
    BY <1>2, <2>1, <2>2
<1>8. ASSUME NEW u \in Users, CancelPlay(u) PROVE CallsSound'
  <2>1. \A j \in courtJobs' \ courtJobs : j.snap = Unread /\ j.do = "delete"
    BY <1>8 DEF CancelPlay, Delete
  <2>2. fetches' = fetches
    BY <1>8 DEF CancelPlay
  <2>3. QED
    BY <1>2, <2>1, <2>2
<1>9. CASE fetches' \subseteq fetches /\ courtJobs' \subseteq courtJobs
  BY <1>2, <1>9
<1> HIDE DEF Asked, Begun
<1>10. UserStep => CallsSound'
  BY <1>5, <1>6, <1>7, <1>8, <1>9
     DEF UserStep, Refresh, LineUpTraps, CancelPlayTraps, SavePlayOneImage
<1>11. ClientStep => CallsSound'
  BY <1>3, <1>5, <1>9 DEF ClientStep, Listen, DidGet
<1>12. StoreStep => CallsSound'
  BY <1>4, <1>9 DEF StoreStep, CommitDoc, CommitPhoto, WriteCourt
<1>13. Failure => CallsSound'
  BY <1>6, <1>9 DEF Failure, Lose, Kill
<1>14. QED
  BY <1>9, <1>10, <1>11, <1>12, <1>13, ScrollAlone DEF Next, vars, jobs

\* Every line, in the store or on its way there, is a line of users who tapped
\* its "+", whatever overtakes whatever.
THEOREM InductiveInvariant == Spec => []IInv
<1>1. IInv /\ [Next]_vars => IInv'
  BY NextTypeOK, OnlyTappedStep, OwnCourtStep, CallsSoundStep DEF IInv
<1>2. QED
  BY <1>1, InitIInv, PTL DEF Spec

\* Nobody is put in a line they did not tap, though every client writes back
\* whole lines that it read at some other time.
THEOREM NobodyElseInLine == Spec => []OnlyTapped
<1>1. IInv => OnlyTapped
  BY DEF IInv
<1>2. QED
  BY <1>1, InductiveInvariant, PTL

\* courtIAdded, set by answers and reset by taps, is always a court that the
\* user tapped.
THEOREM OwnCourtCancelled == Spec => []CancelsOwnCourt
<1>1. IInv => CancelsOwnCourt
  BY DEF IInv
<1>2. QED
  BY <1>1, InductiveInvariant, PTL

-----------------------------------------------------------------------------
(* The photo.                                                              *)

\* The updateData of savePlayOneImage, alone, writes a photo, and not where
\* there is no document.
THEOREM PhotoStaysAway == Spec => NoPhotoComeback
<1> DEFINE Away == \A u \in Users : finderDoc[u] = "none" => finderDoc'[u] # "photo"
<1>1. ASSUME TypeOK, [Next]_vars PROVE Away
  <2>1. CASE finderDoc' = finderDoc
    BY <2>1
  <2>2. ASSUME NEW u \in Users, CommitDoc(u) PROVE Away
    BY <1>1, <2>2 DEF CommitDoc, TypeOK
  <2>3. ASSUME NEW j \in uploads, CommitPhoto(j) PROVE Away
    BY <1>1, <2>3 DEF CommitPhoto, TypeOK, Upload
  <2>4. UserStep => finderDoc' = finderDoc
    BY DEF UserStep, Refresh, LineUp, LineUpTraps, CancelPlay,
           CancelPlayTraps, SavePlayOneImage, Reopened, documents
  <2>5. ClientStep => finderDoc' = finderDoc
    BY DEF ClientStep, Listen, ReadCourts, DidGet, documents
  <2>6. StoreStep => \/ finderDoc' = finderDoc
                     \/ \E u \in Users : CommitDoc(u)
                     \/ \E j \in uploads : CommitPhoto(j)
    BY DEF StoreStep, ReadCourt, WriteCourt, documents
  <2>7. Failure => finderDoc' = finderDoc
    BY DEF Failure, Lose, Kill, Reopened, documents
  <2> HIDE DEF Away
  <2>8. QED
    BY <1>1, <2>1, <2>2, <2>3, <2>4, <2>5, <2>6, <2>7, ScrollAlone
       DEF Next, vars, documents
<1>2. QED
  BY <1>1, TypeCorrect, PTL DEF Spec, NoPhotoComeback

-----------------------------------------------------------------------------
(* One operation at a time.  The line, the user's document and the screen  *)
(* do not change together; what they will be is known all along.           *)

\* The call on c that is in flight for u, if any.
Adding(u, c)   == \E j \in courtJobs : j.do = "add" /\ j.user = u /\ j.court = c
Deleting(u, c) == \E j \in courtJobs : j.do = "delete" /\ j.user = u /\ j.court = c

\* The courts u waits for once the calls in flight are answered.
Bound(u) == {c \in Courts : Adding(u, c) \/ (InLine(u, c) /\ ~Deleting(u, c))}

\* An answer is on its way to the page of u.
Awaited(u) == news[u] \/ \E f \in fetches : f.user = u

\* One call edits a line, and nobody reads the lines before it has.
OneCall ==
    /\ \A j, k \in courtJobs : j = k
    /\ courtJobs # {} => \A u \in Users : ~Awaited(u)
    /\ \A j \in courtJobs :
         /\ j.snap # Unread => j.snap = finderIds[j.court]
         /\ IF j.do = "add" THEN \A c \in Courts : ~InLine(j.user, c)
            ELSE InLine(j.user, j.court)

\* Nobody is twice in a line, or in two.
OnePlace ==
    /\ \A c \in Courts : IsInjective(finderIds[c])
    /\ \A u \in Users, c, d \in Courts : InLine(u, c) /\ InLine(u, d) => c = d

\* What a fetch was given is what the lines are.
FetchesFresh == \A f \in fetches : f.snap # Unread => f.snap = finderIds

\* The page of u as it is, or as it will be with the next answer.
PageAgrees ==
    \A u \in Users :
        /\ Bound(u) = {} => /\ canAddPlay[u]
                            /\ courtIAdded[u] = NoCourt
                            /\ ~cancelItem[u]
        /\ courtIAdded[u] # NoCourt => Bound(u) = {courtIAdded[u]}
        /\ Bound(u) # {} => cancelItem[u]
        /\ Bound(u) # {} /\ courtJobs = {} /\ ~Awaited(u) => ~canAddPlay[u]
        /\ playOneData[u] = "empty" => Awaited(u)

\* The document of u once its last write is committed.
DocAgrees ==
    \A u \in Users :
        /\ docWrites[u] \in {<<>>, <<"create">>, <<"delete">>}
        /\ IF docWrites[u] = <<>> THEN finderDoc[u] # "none" <=> Bound(u) # {}
           ELSE docWrites[u] = <<"create">> <=> Bound(u) # {}

Story == OneCall /\ OnePlace /\ FetchesFresh /\ PageAgrees /\ DocAgrees

\* Every header has its "+" again once the answer after a cancel was shown.
HeadersAgree ==
    \A u \in Users :
        Bound(u) = {} /\ courtJobs = {} /\ ~Awaited(u) => lineUpButton[u] = Courts

SerialInv == TypeOK /\ ButtonsAgree /\ Story /\ HeadersAgree

-----------------------------------------------------------------------------
(* The steps of one operation.                                             *)

\* The first screen, before anybody is in line.
LEMMA InitSerial == Init => SerialInv
<1> SUFFICES ASSUME Init PROVE Story
  BY InitTypeOK, InitButtons DEF SerialInv, HeadersAgree, Awaited, Init
<1>1. \A u \in Users, c \in Courts : ~InLine(u, c) /\ ~Adding(u, c)
  BY DEF Init, InLine, Contains, Adding
<1>2. \A u \in Users : Bound(u) = {}
  BY <1>1 DEF Bound
<1>3. OneCall /\ FetchesFresh
  BY DEF Init, OneCall, FetchesFresh
<1>4. OnePlace
  <2>1. IsInjective(<<>>)
    BY DEF IsInjective
  <2>2. QED
    BY <1>1, <2>1 DEF Init, OnePlace
<1>5. PageAgrees /\ DocAgrees
  BY <1>2 DEF Init, PageAgrees, DocAgrees, Awaited
<1>6. QED
  BY <1>3, <1>4, <1>5 DEF Story

\* Where a user will wait is decided by the lines and the calls on them.
LEMMA BoundSame == UNCHANGED <<finderIds, courtJobs>> => \A u : Bound(u)' = Bound(u)
BY DEF Bound, Adding, Deleting, InLine

\* Photos do not matter.
LEMMA PhotosApart ==
    Story /\ UNCHANGED <<documents, screen, news, fetches, courtJobs, docWrites>>
    => Story'
<1> SUFFICES ASSUME Story, UNCHANGED <<documents, screen, news, fetches, courtJobs, docWrites>>
             PROVE  Story'
  OBVIOUS
<1> USE DEF documents, screen, buttons, Story
<1>1. \A u : Bound(u)' = Bound(u)
  BY BoundSame
<1>2. OneCall' /\ OnePlace' /\ FetchesFresh'
  BY DEF OneCall, OnePlace, FetchesFresh, Awaited, InLine
<1>3. PageAgrees' /\ DocAgrees'
  BY <1>1 DEF PageAgrees, DocAgrees, Awaited
<1>4. QED
  BY <1>2, <1>3

\* The query is sent when no line is about to change.
LEMMA FetchStory ==
    ASSUME TypeOK, Story, courtJobs = {}, NEW u \in Users, GetPlayOneCourts(u),
           \A v \in Users \ {u} : news'[v] = news[v],
           UNCHANGED <<documents, buttons, courtJobs, docWrites>>
    PROVE  Story'
<1> USE DEF documents, buttons, Story
<1>1. PICK f : f.user = u /\ f.snap = Unread /\ fetches' = fetches \cup {f}
  BY DEF GetPlayOneCourts
<1>2. Awaited(u)' /\ \A v \in Users \ {u} : Awaited(v)' <=> Awaited(v)
  BY <1>1 DEF Awaited
<1>3. \A v \in Users \ {u} : playOneData'[v] = playOneData[v]
  BY DEF GetPlayOneCourts, TypeOK
<1>4. \A v : Bound(v)' = Bound(v)
  BY BoundSame
<1>5. OneCall' /\ OnePlace' /\ FetchesFresh'
  BY <1>1 DEF OneCall, OnePlace, FetchesFresh, InLine
<1>6. PageAgrees' /\ DocAgrees'
  BY <1>2, <1>3, <1>4 DEF PageAgrees, DocAgrees
<1>7. QED
  BY <1>5, <1>6

\* Nothing is in flight.
LEMMA IdleStory ==
    ASSUME TypeOK, Story, Idle
    PROVE  /\ courtJobs = {} /\ fetches = {}
           /\ \A u \in Users : /\ ~Awaited(u) /\ docWrites[u] = <<>>
                               /\ Bound(u) = {c \in Courts : InLine(u, c)}
BY DEF Idle, Awaited, Bound, Adding, Deleting

\* Lining up is for a user in no line.
LEMMA LineUpStory ==
    ASSUME TypeOK, Story, Idle, NEW u \in Users, NEW c \in Courts, LineUp(u, c)
    PROVE  Story'
<1> USE DEF LineUp, documents
<1>1. /\ courtJobs = {} /\ fetches = {}
      /\ \A v \in Users : /\ ~Awaited(v) /\ docWrites[v] = <<>>
                          /\ Bound(v) = {d \in Courts : InLine(v, d)}
  BY IdleStory
<1>2. Bound(u) = {}
  BY <1>1 DEF Story, PageAgrees
<1>3. PICK j : /\ j.do = "add" /\ j.user = u /\ j.court = c /\ j.snap = Unread
               /\ courtJobs' = {j}
  BY <1>1 DEF Add
<1>4. \A v \in Users : Bound(v)' = IF v = u THEN {c} ELSE Bound(v)
  <2>1. \A v, d : /\ Adding(v, d)' <=> v = u /\ d = c
                  /\ ~Deleting(v, d)' /\ ~Deleting(v, d) /\ ~Adding(v, d)
    BY <1>1, <1>3 DEF Adding, Deleting
  <2>2. \A v, d : InLine(v, d)' <=> InLine(v, d)
    BY DEF InLine
  <2>3. \A d \in Courts : ~InLine(u, d)
    BY <1>1, <1>2
  <2>4. QED
    BY <2>1, <2>2, <2>3 DEF Bound
<1>5. \A v \in Users : Awaited(v)' <=> Awaited(v)
  BY DEF Awaited
<1>6. OneCall'
  BY <1>1, <1>2, <1>3, <1>5 DEF OneCall, InLine
<1>7. OnePlace' /\ FetchesFresh'
  BY DEF Story, OnePlace, FetchesFresh, InLine
<1>8. PageAgrees'
  <2>1. /\ cancelItem'[u] /\ courtIAdded'[u] = NoCourt
    BY <1>2 DEF Story, PageAgrees, TypeOK
  <2>2. \A v \in Users \ {u} : cancelItem'[v] = cancelItem[v]
    BY DEF TypeOK
  <2>3. courtJobs' # {}
    BY <1>3
  <2>4. QED
    BY <1>1, <1>4, <1>5, <2>1, <2>2, <2>3 DEF Story, PageAgrees
<1>9. DocAgrees'
  <2>1. docWrites'[u] = <<"create">> /\ <<"create">> # <<>>
    <3>1. Append(<<>>, "create") = <<"create">> /\ <<"create">> # <<>>
      OBVIOUS
    <3>2. docWrites'[u] = Append(<<>>, "create")
      BY <1>1 DEF TypeOK
    <3>3. QED
      BY <3>1, <3>2
  <2>2. \A v \in Users \ {u} : docWrites'[v] = docWrites[v]
    BY DEF TypeOK
  <2>3. finderDoc' = finderDoc
    OBVIOUS
  <2>4. DocAgrees
    BY DEF Story
  <2>5. QED
    BY ONLY <1>4, <2>1, <2>2, <2>3, <2>4 DEF DocAgrees
<1>10. QED
  BY <1>6, <1>7, <1>8, <1>9 DEF Story

\* Cancelling is for the line the user is in.
LEMMA CancelPlayStory ==
    ASSUME TypeOK, Story, Idle, NEW u \in Users, CancelPlay(u)
    PROVE  Story'
<1> USE DEF CancelPlay, documents
<1>1. /\ courtJobs = {} /\ fetches = {}
      /\ \A v \in Users : /\ ~Awaited(v) /\ docWrites[v] = <<>>
                          /\ Bound(v) = {d \in Courts : InLine(v, d)}
  BY IdleStory
<1>2. PICK c : c = courtIAdded[u]
  OBVIOUS
<1>3. Bound(u) = {c}
  BY <1>2 DEF Story, PageAgrees
<1>4. PICK j : /\ j.do = "delete" /\ j.user = u /\ j.court = c /\ j.snap = Unread
               /\ courtJobs' = {j}
  BY <1>1, <1>2 DEF Delete
<1>5. \A v \in Users : Bound(v)' = IF v = u THEN {} ELSE Bound(v)
  <2>1. \A v, d : /\ Deleting(v, d)' <=> v = u /\ d = c
                  /\ ~Adding(v, d)' /\ ~Deleting(v, d) /\ ~Adding(v, d)
    BY <1>1, <1>4 DEF Adding, Deleting
  <2>2. \A v, d : InLine(v, d)' <=> InLine(v, d)
    BY DEF InLine
  <2>3. \A d \in Courts : InLine(u, d) => d = c
    BY <1>1, <1>3
  <2>4. QED
    BY <2>1, <2>2, <2>3 DEF Bound
<1>6. \A v \in Users : Awaited(v)' <=> Awaited(v)
  BY DEF Awaited
<1>7. OneCall'
  <2>1. InLine(u, c)
    BY <1>1, <1>3
  <2>2. QED
    BY <1>1, <1>4, <1>6, <2>1 DEF OneCall, InLine
<1>8. OnePlace' /\ FetchesFresh'
  BY DEF Story, OnePlace, FetchesFresh, InLine
<1>9. PageAgrees'
  <2>1. canAddPlay'[u] /\ ~cancelItem'[u] /\ courtIAdded'[u] = NoCourt
    BY DEF TypeOK
  <2>2. \A v \in Users \ {u} : /\ cancelItem'[v] = cancelItem[v]
                               /\ canAddPlay'[v] = canAddPlay[v]
                               /\ courtIAdded'[v] = courtIAdded[v]
    BY DEF TypeOK
  <2>3. courtJobs' # {}
    BY <1>4
  <2>4. QED
    BY <1>1, <1>5, <1>6, <2>1, <2>2, <2>3 DEF Story, PageAgrees
<1>10. DocAgrees'
  <2>1. docWrites'[u] = <<"delete">> /\ <<"delete">> # <<"create">> /\ <<"delete">> # <<>>
    <3>1. /\ Append(<<>>, "delete") = <<"delete">>
          /\ <<"delete">> # <<"create">> /\ <<"delete">> # <<>>
      OBVIOUS
    <3>2. docWrites'[u] = Append(<<>>, "delete")
      BY <1>1 DEF TypeOK
    <3>3. QED
      BY <3>1, <3>2
  <2>2. \A v \in Users \ {u} : docWrites'[v] = docWrites[v]
    BY DEF TypeOK
  <2>3. QED
    BY <1>5, <2>1, <2>2 DEF Story, DocAgrees
<1>11. QED
  BY <1>7, <1>8, <1>9, <1>10 DEF Story

\* When nothing is in flight the rows are there, and cancel has a court.
LEMMA NoTrap ==
    ASSUME TypeOK, ButtonsAgree, Story, Idle, NEW u \in Users
    PROVE  ~LineUpTraps(u) /\ ~CancelPlayTraps(u)
<1>1. ~Awaited(u) /\ courtJobs = {}
  BY IdleStory
<1>2. playOneData[u] # "empty"
  BY <1>1 DEF Story, PageAgrees
<1>3. cancelItem[u] => courtIAdded[u] # NoCourt
  BY <1>1 DEF Story, PageAgrees, ButtonsAgree
<1>4. QED
  BY <1>2, <1>3 DEF LineUpTraps, CancelPlayTraps

\* The courts are read when no line is about to change.
LEMMA ReadCourtsStory ==
    ASSUME TypeOK, Story, NEW f \in fetches, ReadCourts(f)
    PROVE  Story'
<1> USE DEF ReadCourts, documents, screen, buttons
<1>1. f \in Fetch
  BY DEF TypeOK
<1>2. PICK g : g = [f EXCEPT !.snap = finderIds]
  OBVIOUS
<1>3. g.user = f.user /\ g.snap = finderIds /\ fetches' = (fetches \ {f}) \cup {g}
  BY <1>1, <1>2 DEF Fetch
<1>4. \A v : Awaited(v)' <=> Awaited(v)
  BY <1>3 DEF Awaited
<1>5. \A v : Bound(v)' = Bound(v)
  BY BoundSame
<1>6. OneCall'
  BY <1>4 DEF Story, OneCall, InLine
<1>7. OnePlace' /\ FetchesFresh'
  BY <1>3 DEF Story, OnePlace, FetchesFresh, InLine
<1>8. PageAgrees' /\ DocAgrees'
  BY <1>4, <1>5 DEF Story, PageAgrees, DocAgrees
<1>9. QED
  BY <1>6, <1>7, <1>8 DEF Story

\* The answer shows where the user is, and resets nothing but where the user is
\* found: cancelPlay has reset the rest.
LEMMA DidGetStory ==
    ASSUME TypeOK, Story, NEW f \in fetches, DidGet(f)
    PROVE  Story'
<1> USE DEF DidGet, documents
<1>1. PICK u : u = f.user
  OBVIOUS
<1>2. /\ u \in Users /\ Mine(f) \subseteq Courts
      /\ LastShown(Mine(f)) \subseteq Mine(f)
  BY <1>1, MineAreCourts
<1>3. Awaited(u) /\ courtJobs = {} /\ f.snap = finderIds
  BY <1>1, <1>2 DEF Story, FetchesFresh, OneCall, Awaited
<1>4. Bound(u) = Mine(f)
  BY <1>1, <1>3 DEF Bound, Adding, Deleting, InLine, Mine
<1>5. \A v : Bound(v)' = Bound(v)
  BY BoundSame
<1>6. (\A v : Awaited(v)' => Awaited(v)) /\ \A v \in Users \ {u} : Awaited(v)' <=> Awaited(v)
  BY <1>1 DEF Awaited
<1>7. OneCall' /\ OnePlace' /\ FetchesFresh'
  BY <1>3 DEF Story, OneCall, OnePlace, FetchesFresh, InLine
<1>8. /\ \A v \in Users \ {u} : /\ playOneData'[v] = playOneData[v]
                                /\ canAddPlay'[v] = canAddPlay[v]
                                /\ courtIAdded'[v] = courtIAdded[v]
                                /\ cancelItem'[v] = cancelItem[v]
      /\ playOneData'[u] # "empty"
      /\ canAddPlay'[u] = (canAddPlay[u] /\ Mine(f) = {})
      /\ cancelItem'[u] = (cancelItem[u] \/ Mine(f) # {})
  BY <1>1, <1>2 DEF TypeOK, CanAdd
<1>9. courtIAdded'[u] \in IF Mine(f) = {} THEN {courtIAdded[u]} ELSE LastShown(Mine(f))
  BY <1>1, <1>2 DEF TypeOK
<1>10. PageAgrees'
  <2>1. ASSUME NEW v \in Users \ {u}
        PROVE  /\ Bound(v) = {} => /\ canAddPlay'[v]
                                   /\ courtIAdded'[v] = NoCourt
                                   /\ ~cancelItem'[v]
               /\ courtIAdded'[v] # NoCourt => Bound(v) = {courtIAdded'[v]}
               /\ Bound(v) # {} => cancelItem'[v]
               /\ Bound(v) # {} /\ courtJobs = {} /\ ~Awaited(v) => ~canAddPlay'[v]
               /\ playOneData'[v] = "empty" => Awaited(v)
    BY <1>8 DEF Story, PageAgrees
  <2>2. CASE Mine(f) = {}
    <3>1. canAddPlay[u] /\ courtIAdded[u] = NoCourt /\ ~cancelItem[u]
      BY <1>2, <1>4, <2>2 DEF Story, PageAgrees
    <3>2. canAddPlay'[u] /\ courtIAdded'[u] = NoCourt /\ ~cancelItem'[u]
      BY <1>8, <1>9, <2>2, <3>1
    <3>3. QED
      BY <1>4, <1>5, <1>6, <1>8, <2>1, <2>2, <3>2 DEF PageAgrees
  <2>3. CASE Mine(f) # {}
    <3>1. PICK c : c = courtIAdded'[u] /\ c \in Mine(f)
      BY <1>2, <1>9, <2>3
    <3>2. \A d \in Mine(f) : d = c
      BY <1>2, <1>3, <1>1, <3>1 DEF Story, OnePlace, Mine, InLine
    <3>3. Bound(u) = {c} /\ c # NoCourt
      BY <1>2, <1>4, <3>1, <3>2, CourtQueueAssumption
    <3>4. cancelItem'[u] /\ ~canAddPlay'[u]
      BY <1>8, <2>3
    <3>5. QED
      BY <1>5, <1>6, <1>8, <2>1, <3>1, <3>3, <3>4 DEF PageAgrees
  <2>4. QED
    BY <2>2, <2>3
<1>11. DocAgrees'
  BY <1>5 DEF Story, DocAgrees
<1>12. QED
  BY <1>7, <1>10, <1>11 DEF Story

\* The document is created for whoever joins and deleted for whoever leaves.
LEMMA CommitDocStory ==
    ASSUME TypeOK, Story, NEW u \in Users, CommitDoc(u)
    PROVE  Story'
<1> USE DEF CommitDoc, screen, buttons
<1>1. \A v : Bound(v)' = Bound(v)
  BY BoundSame
<1>2. OneCall' /\ OnePlace' /\ FetchesFresh' /\ PageAgrees'
  BY <1>1 DEF Story, OneCall, OnePlace, FetchesFresh, PageAgrees, Awaited, InLine
<1>3. DocAgrees'
  <2>1. \A v \in Users \ {u} : docWrites'[v] = docWrites[v] /\ finderDoc'[v] = finderDoc[v]
    BY DEF TypeOK
  <2>2. PICK w \in {"create", "delete"} : docWrites[u] = <<w>>
    BY DEF Story, DocAgrees
  <2>3. docWrites'[u] = <<>> /\ finderDoc'[u] = IF w = "create" THEN "blank" ELSE "none"
    <3>1. Tail(<<w>>) = <<>> /\ Head(<<w>>) = w
      OBVIOUS
    <3>2. docWrites'[u] = Tail(docWrites[u])
      BY DEF TypeOK
    <3>3. finderDoc'[u] = IF Head(docWrites[u]) = "create" THEN "blank" ELSE "none"
      BY DEF TypeOK
    <3>4. QED
      BY <2>2, <3>1, <3>2, <3>3
  <2>4. docWrites[u] = <<"create">> <=> w = "create"
    BY <2>2
  <2>5. docWrites[u] # <<>>
    OBVIOUS
  <2>6. w = "create" <=> Bound(u) # {}
    BY <2>4, <2>5 DEF Story, DocAgrees
  <2>7. QED
    BY <1>1, <2>1, <2>3, <2>6 DEF Story, DocAgrees
<1>4. QED
  BY <1>2, <1>3 DEF Story

\* A photo does not make or unmake a document.
LEMMA CommitPhotoStory ==
    ASSUME TypeOK, Story, NEW j \in uploads, CommitPhoto(j)
    PROVE  Story'
<1> USE DEF CommitPhoto, screen, buttons
<1>1. \A v : Bound(v)' = Bound(v)
  BY BoundSame
<1>2. OneCall' /\ OnePlace' /\ FetchesFresh' /\ PageAgrees'
  BY <1>1 DEF Story, OneCall, OnePlace, FetchesFresh, PageAgrees, Awaited, InLine
<1>3. \A v \in Users : finderDoc'[v] # "none" <=> finderDoc[v] # "none"
  BY DEF TypeOK, Upload
<1>4. DocAgrees'
  BY <1>1, <1>3 DEF Story, DocAgrees
<1>5. QED
  BY <1>2, <1>4 DEF Story

\* The line is read by the only call.
LEMMA ReadCourtStory ==
    ASSUME TypeOK, Story, NEW j \in courtJobs, ReadCourt(j)
    PROVE  Story'
<1> USE DEF ReadCourt, documents, screen, buttons
<1>1. j \in CourtJob /\ courtJobs = {j}
  BY DEF TypeOK, Story, OneCall
<1>2. PICK k : k = [j EXCEPT !.snap = finderIds[j.court]]
  OBVIOUS
<1>3. /\ k.do = j.do /\ k.user = j.user /\ k.court = j.court
      /\ k.snap = finderIds[k.court] /\ courtJobs' = {k}
  BY <1>1, <1>2 DEF CourtJob
<1>4. \A v : Awaited(v)' <=> Awaited(v)
  BY DEF Awaited
<1>5. \A v : Bound(v)' = Bound(v)
  <2>1. \A v, c : /\ Adding(v, c)' <=> Adding(v, c)
                  /\ Deleting(v, c)' <=> Deleting(v, c)
                  /\ InLine(v, c)' <=> InLine(v, c)
    BY <1>1, <1>3 DEF Adding, Deleting, InLine
  <2>2. QED
    BY <2>1 DEF Bound
<1>6. OneCall'
  BY <1>1, <1>3, <1>4 DEF Story, OneCall, InLine
<1>7. OnePlace' /\ FetchesFresh'
  BY DEF Story, OnePlace, FetchesFresh, InLine
<1>8. PageAgrees'
  <2>1. courtJobs # {} /\ courtJobs' # {}
    BY <1>1, <1>3
  <2>2. QED
    BY <1>4, <1>5, <2>1 DEF Story, PageAgrees
<1>9. DocAgrees'
  BY <1>5 DEF Story, DocAgrees
<1>10. QED
  BY <1>6, <1>7, <1>8, <1>9 DEF Story

\* What the only call stores: its user joins at the end of a line, or leaves.
LEMMA LineWritten ==
    ASSUME TypeOK, Story, NEW j \in courtJobs, WriteCourt(j)
    PROVE  LET s == finderIds[j.court] IN
           /\ courtJobs = {j} /\ j.user \in Users /\ j.court \in Courts
           /\ s \in Seq(Users) /\ IsInjective(s)
           /\ finderIds' = [finderIds EXCEPT ![j.court] =
                IF j.do = "add" THEN Append(s, j.user) ELSE RemovingFirst(s, j.user)]
           /\ NewLine(j) = finderIds'[j.court] /\ NewLine(j) # s
           /\ IF j.do = "add" THEN \A c \in Courts : ~InLine(j.user, c)
              ELSE InLine(j.user, j.court)
<1> DEFINE s == finderIds[j.court]
<1>1. j \in CourtJob /\ courtJobs = {j} /\ j.snap = s
  BY DEF TypeOK, Story, OneCall, WriteCourt
<1>2. j.user \in Users /\ j.court \in Courts /\ s \in Seq(Users) /\ IsInjective(s)
  BY <1>1 DEF TypeOK, CourtJob, Story, OnePlace
<1>3. IF j.do = "add" THEN \A c \in Courts : ~InLine(j.user, c)
      ELSE InLine(j.user, j.court)
  BY DEF Story, OneCall
<1>4. NewLine(j) = IF j.do = "add" THEN Append(s, j.user) ELSE RemovingFirst(s, j.user)
  BY <1>1 DEF NewLine
<1>5. finderIds' = [finderIds EXCEPT ![j.court] = NewLine(j)]
  BY DEF WriteCourt
<1>6. Contains(s, j.user) <=> j.do # "add"
  BY <1>2, <1>3 DEF InLine
<1> HIDE DEF s
<1>7. Contains(NewLine(j), j.user) <=> j.do = "add"
  BY <1>2, <1>4, HoldsAfter
<1>8. NewLine(j) # s
  BY <1>6, <1>7
<1>9. finderIds'[j.court] = NewLine(j)
  BY <1>2, <1>5 DEF TypeOK
<1>10. QED
  BY <1>1, <1>2, <1>3, <1>4, <1>5, <1>8, <1>9 DEF s

\* Every page hears of it and will show what was known since the tap.
LEMMA WriteCourtStory ==
    ASSUME TypeOK, Story, NEW j \in courtJobs, WriteCourt(j)
    PROVE  Story'
<1> USE DEF WriteCourt, screen, buttons
<1> DEFINE u == j.user
           c == j.court
           s == finderIds[c]
<1>1. /\ courtJobs = {j} /\ u \in Users /\ c \in Courts
      /\ s \in Seq(Users) /\ IsInjective(s)
      /\ finderIds' = [finderIds EXCEPT ![c] =
           IF j.do = "add" THEN Append(s, u) ELSE RemovingFirst(s, u)]
      /\ NewLine(j) # s
      /\ IF j.do = "add" THEN \A d \in Courts : ~InLine(u, d) ELSE InLine(u, c)
  BY LineWritten
<1>2. j.do \in {"add", "delete"} /\ courtJobs' = {}
  BY <1>1 DEF TypeOK, CourtJob
<1>3. \A v \in Users : news'[v]
  BY <1>1 DEF Heard
<1>4. (\A v \in Users : Awaited(v)') /\ fetches' = {}
  <2>1. fetches = {}
    <3>1. \A v \in Users : ~Awaited(v)
      BY <1>1 DEF Story, OneCall
    <3>2. \A f \in fetches : f.user \in Users
      BY DEF TypeOK, Fetch
    <3>3. QED
      BY <3>1, <3>2 DEF Awaited
  <2>2. QED
    BY <1>3, <2>1 DEF Awaited
<1>5. ASSUME NEW v \in Users, NEW d \in Courts
      PROVE  InLine(v, d)' <=> IF v = u /\ d = c THEN j.do = "add" ELSE InLine(v, d)
  <2>1. CASE d # c
    <3>1. finderIds'[d] = finderIds[d]
      BY <1>1, <2>1 DEF TypeOK
    <3>2. QED
      BY <2>1, <3>1 DEF InLine
  <2>2. CASE d = c
    <3>1. finderIds'[c] = IF j.do = "add" THEN Append(s, u) ELSE RemovingFirst(s, u)
      BY <1>1 DEF TypeOK
    <3>2. InLine(v, c) <=> Contains(s, v)
      BY DEF InLine
    <3> HIDE DEF s, u, c
    <3>3. Contains(finderIds'[c], v) <=> IF v = u THEN j.do = "add" ELSE Contains(s, v)
      BY <1>1, <1>2, <3>1, HoldsAfter
    <3>4. InLine(v, d)' <=> Contains(finderIds'[c], v)
      BY <2>2 DEF InLine
    <3>5. QED
      BY <2>2, <3>2, <3>3, <3>4
  <2>3. QED
    BY <2>1, <2>2
<1>6. OnePlace'
  <2>1. ASSUME NEW d \in Courts PROVE IsInjective(finderIds'[d])
    <3>1. CASE d # c
      BY <1>1, <3>1 DEF TypeOK, Story, OnePlace
    <3>2. CASE d = c
      <4>1. finderIds'[d] = IF j.do = "add" THEN Append(s, u) ELSE RemovingFirst(s, u)
        BY <1>1, <3>2 DEF TypeOK
      <4>2. j.do = "add" => ~Contains(s, u)
        BY <1>1 DEF InLine
      <4> HIDE DEF s, u
      <4>3. QED
        BY <1>1, <4>1, <4>2, AppendingInjective, RemovingInjective
    <3>3. QED
      BY <3>1, <3>2
  <2>2. ASSUME NEW v \in Users, NEW d \in Courts, NEW e \in Courts,
               InLine(v, d)', InLine(v, e)'
        PROVE  d = e
    <3> HIDE DEF u, c
    <3>1. InLine(v, d) /\ InLine(v, e) => d = e
      BY DEF Story, OnePlace
    <3>2. QED
      BY <1>1, <1>5, <2>2, <3>1
  <2>3. QED
    BY <2>1, <2>2 DEF OnePlace
<1>7. ASSUME NEW v \in Users PROVE Bound(v)' = Bound(v)
  <2>1. \A d : /\ Adding(v, d) <=> j.do = "add" /\ v = u /\ d = c
               /\ Deleting(v, d) <=> j.do = "delete" /\ v = u /\ d = c
               /\ ~Adding(v, d)' /\ ~Deleting(v, d)'
    BY <1>1, <1>2 DEF Adding, Deleting
  <2> HIDE DEF u, c
  <2>2. QED
    BY <1>1, <1>2, <1>5, <2>1 DEF Bound
<1> HIDE DEF s, u, c
<1>8. OneCall' /\ FetchesFresh'
  BY <1>2, <1>4 DEF OneCall, FetchesFresh
<1>9. PageAgrees'
  BY <1>4, <1>7 DEF Story, PageAgrees
<1>10. DocAgrees'
  BY <1>7 DEF Story, DocAgrees
<1>11. QED
  BY <1>6, <1>8, <1>9, <1>10 DEF Story

\* Headers are no part of the story.
LEMMA ScrollStory == Story /\ Scroll => Story'
<1> SUFFICES ASSUME Story, Scroll PROVE Story'
  OBVIOUS
<1>1. UNCHANGED <<documents, playOneData, canAddPlay, courtIAdded, cancelItem, jobs>>
  BY ScrollAlone
<1>2. \A v : Bound(v)' = Bound(v)
  BY <1>1, BoundSame DEF documents, jobs
<1>3. OneCall' /\ OnePlace' /\ FetchesFresh'
  BY <1>1 DEF Story, OneCall, OnePlace, FetchesFresh, Awaited, InLine, documents, jobs
<1>4. PageAgrees' /\ DocAgrees'
  BY <1>1, <1>2 DEF Story, PageAgrees, DocAgrees, Awaited, documents, jobs
<1>5. QED
  BY <1>3, <1>4 DEF Story

\* Every step of one operation at a time is known in advance.
LEMMA StoryStep == SerialInv /\ [SerialNext]_vars => Story'
<1> SUFFICES ASSUME TypeOK, ButtonsAgree, Story, [SerialNext]_vars PROVE Story'
  BY DEF SerialInv
<1>1. CASE Idle /\ UserStep
  <2>1. ASSUME NEW u \in Users, Refresh(u) PROVE Story'
    BY <1>1, <2>1, IdleStory, FetchStory DEF Refresh
  <2>2. ASSUME NEW u \in Users, NEW c \in Courts, LineUp(u, c) PROVE Story'
    BY <1>1, <2>2, LineUpStory
  <2>3. ASSUME NEW u \in Users, CancelPlay(u) PROVE Story'
    BY <1>1, <2>3, CancelPlayStory
  <2>4. ASSUME NEW u \in Users, SavePlayOneImage(u) PROVE Story'
    BY <2>4, PhotosApart DEF SavePlayOneImage
  <2>5. QED
    BY <1>1, <2>1, <2>2, <2>3, <2>4, NoTrap DEF UserStep
<1>2. CASE ClientStep
  <2>1. ASSUME NEW u \in Users, Listen(u) PROVE Story'
    <3>1. courtJobs = {}
      BY <2>1 DEF Listen, Story, OneCall, Awaited
    <3>2. \A v \in Users \ {u} : news'[v] = news[v]
      BY <2>1 DEF Listen, TypeOK
    <3>3. QED
      BY <2>1, <3>1, <3>2, FetchStory DEF Listen
  <2>2. QED
    BY <1>2, <2>1, ReadCourtsStory, DidGetStory DEF ClientStep
<1>3. CASE StoreStep
  BY <1>3, CommitDocStory, CommitPhotoStory, ReadCourtStory, WriteCourtStory
     DEF StoreStep
<1>4. CASE UNCHANGED vars
  BY <1>4, PhotosApart DEF vars, jobs
<1>5. QED
  BY <1>1, <1>2, <1>3, <1>4, ScrollStory DEF SerialNext

\* Headers disagree only while a call or an answer is under way.
LEMMA HeadersStep == SerialInv /\ [SerialNext]_vars => HeadersAgree'
<1> SUFFICES ASSUME TypeOK, Story, ButtonsAgree, HeadersAgree, [SerialNext]_vars
             PROVE  HeadersAgree'
  BY DEF SerialInv
<1>1. ASSUME NEW u \in Users, Awaited(u)', UNCHANGED <<finderIds, courtJobs, lineUpButton>>,
             \A v \in Users \ {u} : Awaited(v)' <=> Awaited(v)
      PROVE  HeadersAgree'
  BY <1>1, BoundSame DEF HeadersAgree
<1>2. ASSUME UNCHANGED <<finderIds, courtJobs, lineUpButton>>,
             \A v \in Users : Awaited(v)' <=> Awaited(v)
      PROVE  HeadersAgree'
  BY <1>2, BoundSame DEF HeadersAgree
<1>3. ASSUME courtJobs' # {} \/ \A v \in Users : Awaited(v)' PROVE HeadersAgree'
  BY <1>3 DEF HeadersAgree
<1>4. ASSUME NEW u \in Users, GetPlayOneCourts(u), UNCHANGED <<finderIds, courtJobs, lineUpButton>>,
             \A v \in Users \ {u} : news'[v] = news[v]
      PROVE  HeadersAgree'
  <2>1. PICK f : f.user = u /\ fetches' = fetches \cup {f}
    BY <1>4 DEF GetPlayOneCourts
  <2>2. Awaited(u)' /\ \A v \in Users \ {u} : Awaited(v)' <=> Awaited(v)
    BY <1>4, <2>1 DEF Awaited
  <2>3. QED
    BY <1>1, <1>4, <2>2
<1>5. CASE Idle /\ UserStep
  <2>1. ASSUME NEW u \in Users, Refresh(u) PROVE HeadersAgree'
    BY <1>4, <2>1 DEF Refresh, documents, buttons
  <2>2. ASSUME NEW u \in Users, NEW c \in Courts, LineUp(u, c) PROVE HeadersAgree'
    BY <1>3, <2>2 DEF LineUp
  <2>3. ASSUME NEW u \in Users, CancelPlay(u) PROVE HeadersAgree'
    BY <1>3, <2>3 DEF CancelPlay
  <2>4. ASSUME NEW u \in Users, SavePlayOneImage(u) PROVE HeadersAgree'
    BY <1>2, <2>4 DEF SavePlayOneImage, documents, screen, buttons, Awaited
  <2>5. QED
    BY <1>5, <2>1, <2>2, <2>3, <2>4, NoTrap DEF UserStep
<1>6. ASSUME NEW u \in Users, NEW c \in Courts, RedrawHeader(u, c) PROVE HeadersAgree'
  <2>1. UNCHANGED <<finderIds, courtJobs, canAddPlay>> /\ \A v : Awaited(v)' <=> Awaited(v)
    BY <1>6 DEF RedrawHeader, documents, jobs, Awaited
  <2>2. \A v \in Users : Bound(v) = {} => canAddPlay[v]
    BY DEF Story, PageAgrees
  <2>3. \A v \in Users : canAddPlay[v] /\ lineUpButton[v] = Courts => lineUpButton'[v] = Courts
    BY <1>6 DEF RedrawHeader, TypeOK
  <2>4. QED
    BY <2>1, <2>2, <2>3, BoundSame DEF HeadersAgree
<1>7. CASE ClientStep
  <2>1. ASSUME NEW u \in Users, Listen(u) PROVE HeadersAgree'
    <3>1. \A v \in Users \ {u} : news'[v] = news[v]
      BY <2>1 DEF Listen, TypeOK
    <3>2. QED
      BY <1>4, <2>1, <3>1 DEF Listen, documents, buttons
  <2>2. ASSUME NEW f \in fetches, ReadCourts(f) PROVE HeadersAgree'
    <3>1. PICK g : g = [f EXCEPT !.snap = finderIds]
      OBVIOUS
    <3>2. g.user = f.user /\ fetches' = (fetches \ {f}) \cup {g}
      BY <2>2, <3>1 DEF ReadCourts, TypeOK, Fetch
    <3>3. \A v : Awaited(v)' <=> Awaited(v)
      BY <2>2, <3>2 DEF ReadCourts, Awaited
    <3>4. QED
      BY <1>2, <2>2, <3>3 DEF ReadCourts, documents, screen, buttons
  <2>3. ASSUME NEW f \in fetches, DidGet(f) PROVE HeadersAgree'
    <3>1. PICK u : u = f.user
      OBVIOUS
    <3>2. u \in Users /\ f.snap # Unread
      BY <2>3, <3>1, MineAreCourts DEF DidGet
    <3>3. Awaited(u) /\ courtJobs = {} /\ f.snap = finderIds
      BY <3>1, <3>2 DEF Story, FetchesFresh, OneCall, Awaited
    <3>4. Bound(u) = Mine(f)
      BY <3>1, <3>3 DEF Bound, Adding, Deleting, InLine, Mine
    <3>5. \A v : Bound(v)' = Bound(v)
      BY <2>3, BoundSame DEF DidGet, documents
    <3>6. \A v \in Users \ {u} : Awaited(v)' <=> Awaited(v)
      BY <2>3, <3>1 DEF DidGet, Awaited
    <3>7. Bound(u) = {} => CanAdd(f)
      BY <3>1, <3>2, <3>4 DEF CanAdd, Story, PageAgrees
    <3>8. /\ lineUpButton'[u] = IF CanAdd(f) THEN Courts ELSE {}
          /\ \A v \in Users \ {u} : lineUpButton'[v] = lineUpButton[v]
      BY <2>3, <3>1, <3>2 DEF DidGet, TypeOK
    <3>9. QED
      BY <3>3, <3>5, <3>6, <3>7, <3>8 DEF HeadersAgree
  <2>4. QED
    BY <1>7, <2>1, <2>2, <2>3 DEF ClientStep
<1>8. CASE StoreStep
  <2>1. ASSUME NEW u \in Users, CommitDoc(u) PROVE HeadersAgree'
    BY <1>2, <2>1 DEF CommitDoc, screen, buttons, Awaited
  <2>2. ASSUME NEW j \in uploads, CommitPhoto(j) PROVE HeadersAgree'
    BY <1>2, <2>2 DEF CommitPhoto, screen, buttons, Awaited
  <2>3. ASSUME NEW j \in courtJobs, ReadCourt(j) PROVE HeadersAgree'
    BY <1>3, <2>3 DEF ReadCourt
  <2>4. ASSUME NEW j \in courtJobs, WriteCourt(j) PROVE HeadersAgree'
    <3>1. NewLine(j) # finderIds[j.court]
      BY <2>4, LineWritten
    <3>2. \A v \in Users : news'[v]
      BY <2>4, <3>1 DEF WriteCourt, Heard
    <3>3. QED
      BY <1>3, <3>2 DEF Awaited
  <2>5. QED
    BY <1>8, <2>1, <2>2, <2>3, <2>4 DEF StoreStep
<1>9. CASE UNCHANGED vars
  BY <1>2, <1>9 DEF vars, documents, screen, buttons, jobs, Awaited
<1>10. QED
  BY <1>5, <1>6, <1>7, <1>8, <1>9 DEF SerialNext, Scroll

\* While an operation is under way, what the line, the document and the page will
\* be is known, and every answer on its way leads there.
THEOREM SerialInvariant == SerialSpec => []SerialInv
<1>1. [SerialNext]_vars => [Next]_vars
  BY DEF SerialNext, Next
<1>2. SerialInv /\ [SerialNext]_vars => SerialInv'
  BY <1>1, NextTypeOK, ButtonsStep, StoryStep, HeadersStep DEF SerialInv
<1>3. QED
  BY <1>2, InitSerial, PTL DEF SerialSpec

\* When one operation ends before the next begins and nothing fails, the line,
\* the user's document and all buttons of the page tell the same story in
\* every rest, though lineUp and cancelPlay change them by five separate calls.
THEOREM OneStory == SerialSpec => []StoryAgrees
<1>1. SerialInv => StoryAgrees
  <2> SUFFICES ASSUME SerialInv, Idle, NEW u \in Users
               PROVE  LET waiting == {c \in Courts : InLine(u, c)} IN
                      /\ courtIAdded[u] # NoCourt => waiting = {courtIAdded[u]}
                      /\ canAddPlay[u] <=> waiting = {}
                      /\ lineUpButton[u] = IF waiting = {} THEN Courts ELSE {}
                      /\ cancelItem[u] <=> waiting # {}
                      /\ finderDoc[u] # "none" <=> waiting # {}
    BY DEF StoryAgrees
  <2>1. /\ courtJobs = {} /\ ~Awaited(u) /\ docWrites[u] = <<>>
        /\ Bound(u) = {c \in Courts : InLine(u, c)}
    BY IdleStory DEF SerialInv
  <2>2. canAddPlay[u] \in BOOLEAN /\ cancelItem[u] \in BOOLEAN
    BY DEF SerialInv, TypeOK
  <2>3. /\ courtIAdded[u] # NoCourt => Bound(u) = {courtIAdded[u]}
        /\ canAddPlay[u] <=> Bound(u) = {}
        /\ cancelItem[u] <=> Bound(u) # {}
    BY <2>1, <2>2 DEF SerialInv, Story, PageAgrees
  <2>4. finderDoc[u] # "none" <=> Bound(u) # {}
    BY <2>1 DEF SerialInv, Story, DocAgrees
  <2>5. lineUpButton[u] = IF Bound(u) = {} THEN Courts ELSE {}
    BY <2>1, <2>3 DEF SerialInv, ButtonsAgree, HeadersAgree
  <2>6. QED
    BY <2>1, <2>3, <2>4, <2>5
<1>2. QED
  BY <1>1, SerialInvariant, PTL

\* Somebody in line has a page that knows it, or what will tell the page is under way.
LineIsUnderWay ==
    \A u \in Users, c \in Courts :
        InLine(u, c) => courtIAdded[u] = c \/ courtJobs # {} \/ Awaited(u)

\* lineUp puts the user in a line and says so to the page only by a later fetch:
\* as long as the page does not hold the court, a call or an answer of Firestore
\* is still to come, so that nobody waits in a line the page cannot cancel.
THEOREM LineAlwaysUnderWay == SerialSpec => []LineIsUnderWay
<1>1. SerialInv => LineIsUnderWay
  <2> SUFFICES ASSUME SerialInv, NEW u \in Users, NEW c \in Courts, InLine(u, c),
                      courtJobs = {}, ~Awaited(u)
               PROVE  courtIAdded[u] = c
    BY DEF LineIsUnderWay
  <2>1. c \in Bound(u)
    BY DEF Bound, Deleting
  <2>2. ~canAddPlay[u]
    BY <2>1 DEF SerialInv, Story, PageAgrees
  <2>3. courtIAdded[u] # NoCourt
    BY <2>2 DEF SerialInv, ButtonsAgree
  <2>4. Bound(u) = {courtIAdded[u]}
    BY <2>3 DEF SerialInv, Story, PageAgrees
  <2>5. QED
    BY <2>1, <2>4
<1>2. QED
  BY <1>1, SerialInvariant, PTL

-----------------------------------------------------------------------------
(* Refinement.                                                             *)

\* Only the answer to a call on a court changes a line.
LEMMA WhoWritesLines ==
    [SerialNext]_vars => finderIds' = finderIds \/ \E j \in courtJobs : WriteCourt(j)
<1>1. UserStep => finderIds' = finderIds
  BY DEF UserStep, Refresh, LineUp, LineUpTraps, CancelPlay, CancelPlayTraps,
         SavePlayOneImage, Reopened, documents
<1>2. ClientStep => finderIds' = finderIds
  BY DEF ClientStep, Listen, ReadCourts, DidGet, documents
<1>3. StoreStep => finderIds' = finderIds \/ \E j \in courtJobs : WriteCourt(j)
  BY DEF StoreStep, CommitDoc, CommitPhoto, ReadCourt, documents
<1>4. QED
  BY <1>1, <1>2, <1>3, ScrollAlone DEF SerialNext, vars, documents

\* Writing a line back is joining it at its end or leaving it.
LEMMA StepLines == SerialInv /\ [SerialNext]_vars => [Lines!Next]_finderIds
<1> SUFFICES ASSUME SerialInv, NEW j \in courtJobs, WriteCourt(j) PROVE Lines!Next
  BY WhoWritesLines
<1> DEFINE u == j.user
           c == j.court
           s == finderIds[c]
<1>1. /\ u \in Users /\ c \in Courts /\ s \in Seq(Users) /\ IsInjective(s)
      /\ finderIds' = [finderIds EXCEPT ![c] =
           IF j.do = "add" THEN Append(s, u) ELSE RemovingFirst(s, u)]
      /\ IF j.do = "add" THEN \A d \in Courts : ~InLine(u, d) ELSE InLine(u, c)
  BY LineWritten DEF SerialInv
<1>2. CASE j.do = "add"
  <2>1. ~Lines!Waits(u)
    BY <1>1, <1>2 DEF Lines!Waits, InLine, Lines!Contains, Contains
  <2>2. Lines!Join(u, c)
    BY <1>1, <1>2, <2>1 DEF Lines!Join
  <2>3. QED
    BY <1>1, <2>2 DEF Lines!Next
<1>3. CASE j.do # "add"
  <2>1. PICK m \in DOMAIN s : s[m] = u
    BY <1>1, <1>3 DEF InLine, Contains
  <2>2. finderIds' = [finderIds EXCEPT ![c] = RemoveAt(s, m)]
    <3> HIDE DEF s, u
    <3>1. RemovingFirst(s, u) = RemoveAt(s, m)
      BY <1>1, <2>1, RemovingPlace
    <3>2. QED
      BY <1>1, <1>3, <3>1
  <2>3. Lines!Leave(u, c)
    BY <2>1, <2>2 DEF Lines!Leave, Lines!RemoveAt, RemoveAt
  <2>4. QED
    BY <1>1, <2>3 DEF Lines!Next
<1>4. QED
  BY <1>2, <1>3

\* When operations do not overlap and nothing fails, the lists of finder_ids are
\* first-come, first-served lines in which everybody waits at most once.
THEOREM QueueImplementsWaitingLines == SerialSpec => ImplementsWaitingLines
<1>1. Init => Lines!Init
  BY DEF Init, Lines!Init
<1>2. QED
  BY <1>1, StepLines, SerialInvariant, PTL
     DEF SerialSpec, ImplementsWaitingLines, Lines!Spec
=============================================================================
