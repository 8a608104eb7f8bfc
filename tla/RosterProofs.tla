---------------------------- MODULE RosterProofs ----------------------------
(***************************************************************************)
(* Theorems about module Roster, for any users, plays and requests, any    *)
(* number of operations in flight, any interleaving and any lost call.     *)
(* The second half is about operations of which one has ended before the   *)
(* next begins, and that lose no call.                                     *)
(***************************************************************************)
EXTENDS Roster, ListLemmas, TLAPS, FiniteSetTheorems, FunctionTheorems

-----------------------------------------------------------------------------
(* Type correctness.                                                       *)

\* The query of saveRequest is answered, whoever is signed in by then.
Checked(j) == \E me : CheckRequest(j, me)

\* It changes nothing but the calls about requests.
LEMMA AnotherAnswered ==
    AnswerToAnother =>
        /\ \E j \in requestJobs : Checked(j)
        /\ UNCHANGED <<documents, screens, history, ops,
                       playJobs, statusJobs, listJobs, infoJobs>>
BY DEF AnswerToAnother, Checked, CheckRequest

\* Before any play is posted, no call is under way and every document is absent.
LEMMA InitTyped == Init => StateTyped
BY RosterAssumption DEF Init, StateTyped, PlayState, RequestState, Stored

\* A tap is counted.
LEMMA BeginTyped == StateTyped /\ Begin => ops \in Nat /\ ops' \in 0..MaxOps
BY RosterAssumption DEF StateTyped, Begin

\* A tap starts calls about known plays and requests.
LEMMA UserStepTyped == StateTyped /\ UserStep => StateTyped'
<1> SUFFICES ASSUME StateTyped, UserStep PROVE StateTyped'
  OBVIOUS
<1> USE BeginTyped DEF StateTyped, documents, screens, history
<1>1. ASSUME NEW p \in Plays, SavePlay(p) PROVE StateTyped'
  <2>1. ops \in Nat /\ ops' \in 0..MaxOps
    BY <1>1 DEF SavePlay
  <2>2. [id |-> ops, do |-> "save", play |-> p] \in PlayJob
    BY <2>1 DEF PlayJob
  <2>3. playJobs' \subseteq PlayJob
    BY <1>1, <2>2 DEF SavePlay
  <2>4. playDoc' \in [Plays -> PlayState]
    BY <1>1 DEF SavePlay, PlayState
  <2>5. QED
    BY <1>1, <2>1, <2>3, <2>4 DEF SavePlay
<1>2. ASSUME NEW p \in Plays, DeletePlay(p) PROVE StateTyped'
  <2>1. ops \in Nat /\ ops' \in 0..MaxOps /\ page[p] \in Seq(Users)
    BY <1>2 DEF DeletePlay
  <2>2. \A d \in {"delete", "sweep"} : [id |-> ops, do |-> d, play |-> p] \in PlayJob
    BY <2>1 DEF PlayJob
  <2>3. \A i \in DOMAIN page[p] : page[p][i] \in Users /\ i \in Nat
    BY <2>1
  <2>4. \A i \in DOMAIN page[p] :
          [id |-> ops, leg |-> i, do |-> "purge", user |-> page[p][i],
           play |-> p, snap |-> Unread] \in ListJob
    BY <2>1, <2>3 DEF ListJob
  <2>5. playJobs' \subseteq PlayJob
    BY <1>2, <2>2 DEF DeletePlay
  <2>6. listJobs' \subseteq ListJob
    BY <1>2, <2>4 DEF DeletePlay
  <2>7. QED
    BY <1>2, <2>1, <2>5, <2>6 DEF DeletePlay
<1>3. ASSUME NEW r \in Requests, SaveRequest(r) PROVE StateTyped'
  <2>1. ops \in Nat /\ ops' \in 0..MaxOps
    BY <1>3 DEF SaveRequest
  <2>2. [id |-> ops, do |-> "check", req |-> r] \in RequestJob
    BY <2>1 DEF RequestJob
  <2>3. requestJobs' \subseteq RequestJob
    BY <1>3, <2>2 DEF SaveRequest
  <2>4. status' \in [Requests -> RequestState]
    BY <1>3 DEF SaveRequest, RequestState
  <2>5. QED
    BY <1>3, <2>1, <2>3, <2>4 DEF SaveRequest
<1>4. ASSUME NEW r \in Requests, NEW to \in {"accepted", "denied"},
             UpdateRequest(r, to)
      PROVE  StateTyped'
  <2>1. ops \in Nat /\ ops' \in 0..MaxOps /\ received[r] = "pending"
    BY <1>4 DEF UpdateRequest
  <2>2. [id |-> ops, req |-> r, to |-> to, was |-> received[r]] \in StatusJob
    BY <2>1 DEF StatusJob, Stored
  <2>3. statusJobs' \subseteq StatusJob
    BY <1>4, <2>2 DEF UpdateRequest
  <2>4. QED
    BY <1>4, <2>1, <2>3 DEF UpdateRequest
<1>5. ASSUME NEW r \in Requests, CancelRequest(r) PROVE StateTyped'
  <2>1. ops \in Nat /\ ops' \in 0..MaxOps /\ sent[r] \in Stored
    BY <1>5 DEF CancelRequest
  <2>2. [id |-> ops, req |-> r, to |-> "cancelled", was |-> sent[r]] \in StatusJob
    BY <2>1 DEF StatusJob, Stored
  <2>3. statusJobs' \subseteq StatusJob
    BY <1>5, <2>2 DEF CancelRequest
  <2>4. QED
    BY <1>5, <2>1, <2>3 DEF CancelRequest
<1>6. ASSUME NEW u \in Users, SaveProfileInfo(u) PROVE StateTyped'
  <2>1. ops \in Nat /\ ops' \in 0..MaxOps
    BY <1>6 DEF SaveProfileInfo
  <2>2. <<>> \in Seq(Plays)
    OBVIOUS
  <2>3. myPlayList' \in [Users -> Seq(Plays)] /\ wiped' \subseteq Users
    BY <1>6, <2>2 DEF SaveProfileInfo
  <2>4. QED
    BY <1>6, <2>1, <2>3 DEF SaveProfileInfo, jobs
<1>7. QED
  BY <1>1, <1>2, <1>3, <1>4, <1>5, <1>6 DEF UserStep

\* An answer to a page puts requests and players of stored documents on it.
LEMMA ScreenStepTyped == StateTyped /\ ScreenStep => StateTyped'
<1> SUFFICES ASSUME StateTyped, ScreenStep PROVE StateTyped'
  OBVIOUS
<1> USE RosterAssumption DEF StateTyped, documents, screens, jobs, history
<1>1. ASSUME NEW u \in Users, GetPlayRequests(u) PROVE StateTyped'
  BY <1>1 DEF GetPlayRequests, Fetched
<1>2. ASSUME NEW u \in Users, GetThisUserPlays(u) PROVE StateTyped'
  BY <1>2 DEF GetThisUserPlays
<1>3. ASSUME NEW r \in Requests, UpdateRequestsSentTableView(r) PROVE StateTyped'
  BY <1>3 DEF UpdateRequestsSentTableView
<1>4. QED
  BY <1>1, <1>2, <1>3 DEF ScreenStep

\* A query leaves a put or nothing.
LEMMA CheckedTyped ==
    ASSUME StateTyped, NEW j \in requestJobs, Checked(j)
    PROVE  StateTyped'
BY DEF StateTyped, documents, screens, history, Checked, CheckRequest, RequestJob

\* What is written is an edit of what was read, or the next edit of a decision.
LEMMA StoreStepTyped == StateTyped /\ StoreStep => StateTyped'
<1> SUFFICES ASSUME StateTyped, StoreStep PROVE StateTyped'
  OBVIOUS
<1> USE RosterAssumption DEF StateTyped, documents, screens, history
<1>1. ASSUME NEW j \in playJobs, CommitSave(j) PROVE StateTyped'
  <2>1. j.play \in Plays /\ finderId[j.play] \in Users /\ j.id \in Nat
    BY DEF PlayJob
  <2>2. Edit(j.id, 0, "append", finderId[j.play], j.play) \in ListJob
    BY <2>1 DEF Edit, ListJob
  <2>3. <<finderId[j.play]>> \in Seq(Users)
    BY <2>1
  <2>4. QED
    BY <1>1, <2>1, <2>2, <2>3 DEF CommitSave, PlayState
<1>2. ASSUME NEW j \in playJobs, CommitDelete(j) PROVE StateTyped'
  <2>1. playDoc' \in [Plays -> PlayState]
    BY <1>2 DEF CommitDelete, PlayState
  <2>2. <<>> \in Seq(Users)
    OBVIOUS
  <2>3. playerInfo' \in [Plays -> Seq(Users)]
    BY <1>2, <2>2 DEF CommitDelete
  <2>4. QED
    BY <1>2, <2>1, <2>3 DEF CommitDelete
<1>3. ASSUME NEW j \in playJobs, SweepRequests(j) PROVE StateTyped'
  <2>1. j.id \in Nat
    BY DEF PlayJob
  <2>2. \A r \in Requests : [id |-> j.id, do |-> "delete", req |-> r] \in RequestJob
    BY <2>1 DEF RequestJob
  <2>3. requestJobs' \subseteq RequestJob
    BY <1>3, <2>2 DEF SweepRequests
  <2>4. QED
    BY <1>3, <2>3 DEF SweepRequests
<1>4. ASSUME NEW j \in requestJobs, CheckRequest(j, senderId[j.req]) PROVE StateTyped'
  BY <1>4, CheckedTyped DEF Checked
<1>5. ASSUME NEW j \in requestJobs, PutRequest(j) PROVE StateTyped'
  BY <1>5 DEF PutRequest, RequestState, Stored
<1>6. ASSUME NEW j \in requestJobs, DeleteRequest(j) PROVE StateTyped'
  BY <1>6 DEF DeleteRequest, RequestState
<1>7. ASSUME NEW j \in statusJobs, CommitStatus(j) PROVE StateTyped'
  <2> DEFINE u == senderId[j.req]
             p == playId[j.req]
  <2>1. /\ j.id \in Nat /\ j.req \in Requests /\ j.to \in Stored
        /\ u \in Users /\ p \in Plays
    BY DEF StatusJob
  <2>2. Effect(j) \subseteq {"append", "remove"}
    BY DEF Effect
  <2>3. \A d \in Effect(j) : /\ Edit(j.id, 0, d, u, p) \in ListJob
                             /\ EditInfo(j.id, d, u, p) \in InfoJob
    BY <2>1, <2>2 DEF Edit, EditInfo, ListJob, InfoJob
  <2>4. Seats(j, ledger[u][p]) \in Nat
    <3>1. ledger[u][p] \in Nat
      BY <2>1
    <3>2. QED
      BY ONLY <3>1 DEF Seats
  <2>5. ledger' \in [Users -> [Plays -> Nat]]
    <3>1. ledger' = [ledger EXCEPT ![u][p] = Seats(j, ledger[u][p])]
      BY <1>7 DEF CommitStatus
    <3>2. ledger \in [Users -> [Plays -> Nat]]
      OBVIOUS
    <3>3. QED
      BY ONLY <2>1, <2>4, <3>1, <3>2
  <2>6. status' \in [Requests -> RequestState]
    BY <1>7, <2>1 DEF CommitStatus, RequestState
  <2>7. granted' \subseteq Users \X Plays
    <3>1. granted' \subseteq granted \cup {<<u, p>>}
      BY <1>7 DEF CommitStatus
    <3>2. <<u, p>> \in Users \X Plays
      BY <2>1
    <3>3. QED
      BY <3>1, <3>2
  <2>8. listJobs' \subseteq ListJob /\ infoJobs' \subseteq InfoJob
    BY <1>7, <2>3 DEF CommitStatus
  <2>9. QED
    BY <1>7, <2>5, <2>6, <2>7, <2>8 DEF CommitStatus
<1>8. ASSUME NEW j \in statusJobs, FailStatus(j) PROVE StateTyped'
  BY <1>8 DEF FailStatus
<1>9. ASSUME NEW j \in listJobs, ReadList(j) PROVE StateTyped'
  <2>1. j \in ListJob /\ j.user \in Users
    BY DEF ListJob
  <2>2. [j EXCEPT !.snap = myPlayList[j.user]] \in ListJob
    BY <2>1 DEF ListJob
  <2>3. listJobs' \subseteq ListJob
    BY <1>9, <2>2 DEF ReadList
  <2>4. QED
    BY <1>9, <2>3 DEF ReadList
<1>10. ASSUME NEW j \in listJobs, WriteList(j) PROVE StateTyped'
  <2>1. j.user \in Users /\ j.play \in Plays /\ j.snap \in Seq(Plays)
    BY <1>10 DEF WriteList, ListJob
  <2>2. NewList(j) \in Seq(Plays)
    BY <2>1, AppendProperties, RemovingFirstProperties DEF NewList
  <2>3. QED
    BY <1>10, <2>1, <2>2 DEF WriteList
<1>11. ASSUME NEW j \in infoJobs, ReadInfo(j) PROVE StateTyped'
  <2>1. j \in InfoJob /\ j.play \in Plays
    BY DEF InfoJob
  <2>2. [j EXCEPT !.snap = playerInfo[j.play]] \in InfoJob
    BY <2>1 DEF InfoJob
  <2>3. infoJobs' \subseteq InfoJob
    BY <1>11, <2>2 DEF ReadInfo
  <2>4. QED
    BY <1>11, <2>3 DEF ReadInfo
<1>12. ASSUME NEW j \in infoJobs, WriteInfo(j) PROVE StateTyped'
  <2>1. j.user \in Users /\ j.play \in Plays /\ j.snap \in Seq(Users)
    BY <1>12 DEF WriteInfo, InfoJob
  <2>2. NewInfo(j) \in Seq(Users)
    BY <2>1, AppendProperties, RemovingFirstProperties DEF NewInfo
  <2>3. QED
    BY <1>12, <2>1, <2>2 DEF WriteInfo
<1>13. QED
  BY <1>1, <1>2, <1>3, <1>4, <1>5, <1>6, <1>7, <1>8, <1>9, <1>10, <1>11, <1>12
     DEF StoreStep

\* Every step, losing a call included, and every stutter keep the types.
LEMMA NextTyped == StateTyped /\ [Next]_vars => StateTyped'
<1>1. StateTyped /\ Lose => StateTyped'
  BY DEF Lose, StateTyped, documents, screens, history
<1>2. StateTyped /\ UNCHANGED vars => StateTyped'
  BY DEF StateTyped, vars, documents, screens, jobs, history
<1>3. StateTyped /\ AnswerToAnother => StateTyped'
  BY AnotherAnswered, CheckedTyped
<1>4. QED
  BY <1>1, <1>2, <1>3, UserStepTyped, ScreenStepTyped, StoreStepTyped
     DEF Next, ReliableNext, Answer

\* Every variable keeps its type: jobs are edits of lists of known documents,
\* whatever is lost or overwritten.
THEOREM TypeCorrect == Spec => []TypeOK
<1>1. Init => TypeOK
  <2>1. Init => tangled \in BOOLEAN
    BY DEF Init
  <2>2. QED
    BY <2>1, InitTyped DEF TypeOK
<1>2. TypeOK /\ [Next]_vars => TypeOK'
  <2>1. tangled \in BOOLEAN /\ [Next]_vars => tangled' \in BOOLEAN
    BY DEF Next, ReliableNext, Answer, vars
  <2>2. QED
    BY <2>1, NextTyped DEF TypeOK
<1>3. QED
  BY <1>1, <1>2, PTL DEF Spec

-----------------------------------------------------------------------------
(* The inductive invariant.                                                *)

\* There are no lists yet, and no call that holds one.
LEMMA InitIInv == Init => IInv
BY InitTyped DEF Init, IInv, StoredSound, SoundList, InfoJobsSound,
                  ListJobsSound, PlaysOnce, RequestsOnce

\* Acceptances are never taken back from the history.
LEMMA GrantedGrows == [Next]_vars => granted \subseteq granted'
<1>1. UserStep => granted' = granted
  BY DEF UserStep, SavePlay, DeletePlay, SaveRequest, UpdateRequest,
         CancelRequest, SaveProfileInfo, history
<1>2. ScreenStep => granted' = granted
  BY DEF ScreenStep, GetPlayRequests, GetThisUserPlays,
         UpdateRequestsSentTableView, history
<1>3. StoreStep => granted \subseteq granted'
  BY DEF StoreStep, CommitSave, CommitDelete, SweepRequests, CheckRequest,
         PutRequest, DeleteRequest, CommitStatus, FailStatus, ReadList,
         WriteList, ReadInfo, WriteInfo, history
<1>4. QED
  BY <1>1, <1>2, <1>3, AnotherAnswered DEF Next, ReliableNext, Answer, Lose, vars, history

\* Only four answers change a stored roster or list.
LEMMA WhoWritesLists ==
    [Next]_vars =>
        \/ \E j \in playJobs : CommitSave(j) \/ CommitDelete(j)
        \/ \E j \in listJobs : WriteList(j)
        \/ \E j \in infoJobs : WriteInfo(j)
        \/ \E u \in Users : SaveProfileInfo(u)
        \/ /\ UNCHANGED <<playerInfo, myPlayList>>
           /\ \/ playDoc' = playDoc
              \/ \E p \in Plays : SavePlay(p)
<1>1. UserStep => \/ \E u \in Users : SaveProfileInfo(u)
                  \/ /\ UNCHANGED <<playerInfo, myPlayList>>
                     /\ playDoc' = playDoc \/ \E p \in Plays : SavePlay(p)
  BY DEF UserStep, SavePlay, DeletePlay, SaveRequest, UpdateRequest,
         CancelRequest, documents
<1>2. ScreenStep => UNCHANGED <<playDoc, playerInfo, myPlayList>>
  BY DEF ScreenStep, GetPlayRequests, GetThisUserPlays,
         UpdateRequestsSentTableView, documents
<1>3. StoreStep =>
        \/ \E j \in playJobs : CommitSave(j) \/ CommitDelete(j)
        \/ \E j \in listJobs : WriteList(j)
        \/ \E j \in infoJobs : WriteInfo(j)
        \/ UNCHANGED <<playDoc, playerInfo, myPlayList>>
  BY DEF StoreStep, SweepRequests, CheckRequest, PutRequest, DeleteRequest,
         CommitStatus, FailStatus, ReadList, ReadInfo, documents
<1>4. QED
  BY <1>1, <1>2, <1>3, AnotherAnswered DEF Next, ReliableNext, Answer, Lose, vars, documents

\* What WriteInfo is about to store may be the roster of the play.
LEMMA NewInfoSound ==
    ASSUME StateTyped, InfoJobsSound, NEW j \in infoJobs, j.snap # Unread
    PROVE  SoundInfo(j.play, NewInfo(j))
<1> DEFINE s == j.snap
           n == NewInfo(j)
<1>1. j.user \in Users /\ s \in Seq(Users) /\ j.do \in {"append", "remove"}
  BY DEF StateTyped, InfoJob
<1>2. SoundInfo(j.play, s) /\ j.user # finderId[j.play]
  BY DEF InfoJobsSound
<1>3. j.do = "append" => <<j.user, j.play>> \in granted
  BY DEF InfoJobsSound
<1>4. /\ n # <<>> /\ n[1] = s[1]
      /\ \A i \in DOMAIN n : \/ j.do = "append" /\ n[i] = j.user
                             \/ \E k \in DOMAIN s : n[i] = s[k]
  <2>1. s # <<>> /\ s[1] # j.user
    BY <1>2 DEF SoundInfo
  <2>2. CASE j.do = "append"
    BY <1>1, <2>1, <2>2, AppendProperties DEF NewInfo
  <2>3. CASE j.do = "remove"
    <3>1. n = RemovingFirst(s, j.user)
      BY <2>3 DEF NewInfo
    <3> HIDE DEF s, n
    <3>2. QED
      BY <1>1, <2>1, <3>1, RemovingFirstProperties
  <2>4. QED
    BY <1>1, <2>2, <2>3
<1> HIDE DEF s, n
<1>5. SoundInfo(j.play, n)
  BY <1>2, <1>3, <1>4 DEF SoundInfo
<1>6. QED
  BY <1>5 DEF n

\* What WriteList is about to store may be the list of the user.
LEMMA NewListSound ==
    ASSUME StateTyped, ListJobsSound, NEW j \in listJobs, j.snap # Unread
    PROVE  SoundList(j.user, NewList(j))
<1> DEFINE s == j.snap
           n == NewList(j)
<1>1. j.play \in Plays /\ s \in Seq(Plays)
  BY DEF StateTyped, ListJob
<1>2. SoundList(j.user, s)
  BY DEF ListJobsSound
<1>3. j.do = "append" =>
        j.user = finderId[j.play] \/ <<j.user, j.play>> \in granted
  BY DEF ListJobsSound
<1>4. \A i \in DOMAIN n : \/ j.do = "append" /\ n[i] = j.play
                         \/ \E k \in DOMAIN s : n[i] = s[k]
  <2>1. CASE j.do = "append"
    BY <1>1, <2>1, AppendProperties DEF NewList
  <2>2. CASE j.do # "append"
    <3>1. n = RemovingFirst(s, j.play)
      BY <2>2 DEF NewList
    <3> HIDE DEF s, n
    <3>2. QED
      BY <1>1, <3>1, RemovingFirstProperties
  <2>3. QED
    BY <2>1, <2>2
<1> HIDE DEF s, n
<1>5. SoundList(j.user, n)
  BY <1>2, <1>3, <1>4 DEF SoundList
<1>6. QED
  BY <1>5 DEF n

\* A write leaves in Firestore only lists of finders and accepted users.
LEMMA StoredSoundStep == IInv /\ [Next]_vars => StoredSound'
<1> SUFFICES ASSUME IInv, [Next]_vars PROVE StoredSound'
  OBVIOUS
<1> USE DEF IInv
<1>1. granted \subseteq granted'
  BY GrantedGrows
<1>2. ASSUME NEW j \in playJobs, CommitSave(j) PROVE StoredSound'
  <2>1. j.play \in Plays
    BY DEF StateTyped, PlayJob
  <2>2. playerInfo'[j.play] = <<finderId[j.play]>> /\ playDoc'[j.play] = "live"
    BY <1>2, <2>1 DEF CommitSave, StateTyped
  <2>3. \A p \in Plays \ {j.play} :
          playerInfo'[p] = playerInfo[p] /\ playDoc'[p] = playDoc[p]
    BY <1>2 DEF CommitSave, StateTyped
  <2>4. myPlayList' = myPlayList
    BY <1>2 DEF CommitSave
  <2>5. QED
    BY <1>1, <2>2, <2>3, <2>4 DEF StoredSound, SoundInfo, SoundList
<1>3. ASSUME NEW j \in playJobs, CommitDelete(j) PROVE StoredSound'
  BY <1>1, <1>3 DEF CommitDelete, StoredSound, SoundInfo, SoundList, StateTyped,
                    PlayJob
<1>4. ASSUME NEW j \in listJobs, WriteList(j) PROVE StoredSound'
  <2>1. j.user \in Users /\ SoundList(j.user, NewList(j))
    BY <1>4, NewListSound DEF WriteList, StateTyped, ListJob
  <2>2. \A u \in Users : \/ myPlayList'[u] = myPlayList[u]
                         \/ u = j.user /\ myPlayList'[u] = NewList(j)
    BY <1>4, <2>1 DEF WriteList, StateTyped
  <2>3. playDoc' = playDoc /\ playerInfo' = playerInfo
    BY <1>4 DEF WriteList
  <2>4. QED
    BY <1>1, <2>1, <2>2, <2>3 DEF StoredSound, SoundInfo, SoundList
<1>5. ASSUME NEW j \in infoJobs, WriteInfo(j) PROVE StoredSound'
  <2>1. j.play \in Plays /\ SoundInfo(j.play, NewInfo(j))
    BY <1>5, NewInfoSound DEF WriteInfo, StateTyped, InfoJob
  <2>2. \A p \in Plays :
          \/ playerInfo'[p] = playerInfo[p]
          \/ p = j.play /\ playDoc[p] = "live" /\ playerInfo'[p] = NewInfo(j)
    BY <1>5, <2>1 DEF WriteInfo, StateTyped
  <2>3. playDoc' = playDoc /\ myPlayList' = myPlayList
    BY <1>5 DEF WriteInfo
  <2>4. QED
    BY <1>1, <2>1, <2>2, <2>3 DEF StoredSound, SoundInfo, SoundList
<1>6. CASE UNCHANGED <<playerInfo, myPlayList, playDoc>>
  BY <1>1, <1>6 DEF StoredSound, SoundInfo, SoundList
<1>7. ASSUME NEW p \in Plays, SavePlay(p) PROVE StoredSound'
  BY <1>1, <1>7 DEF SavePlay, StoredSound, SoundInfo, SoundList, StateTyped
<1>8. ASSUME NEW u \in Users, SaveProfileInfo(u) PROVE StoredSound'
  <2>1. \A v \in Users : myPlayList'[v] = myPlayList[v] \/ myPlayList'[v] = <<>>
    BY <1>8 DEF SaveProfileInfo, StateTyped
  <2>2. playDoc' = playDoc /\ playerInfo' = playerInfo
    BY <1>8 DEF SaveProfileInfo
  <2>3. \A v : SoundList(v, <<>>)'
    BY DEF SoundList
  <2>4. QED
    BY <1>1, <2>1, <2>2, <2>3 DEF StoredSound, SoundInfo, SoundList
<1>9. QED
  BY <1>2, <1>3, <1>4, <1>5, <1>6, <1>7, <1>8, WhoWritesLists

\* Jobs on rosters come from a decision, take a read, or end.
LEMMA WhoChangesInfoJobs ==
    [Next]_vars => \/ \E j \in statusJobs : CommitStatus(j)
                   \/ \E j \in infoJobs : ReadInfo(j)
                   \/ infoJobs' \subseteq infoJobs
<1>1. UserStep => infoJobs' = infoJobs
  BY DEF UserStep, SavePlay, DeletePlay, SaveRequest, UpdateRequest,
         CancelRequest, SaveProfileInfo, jobs
<1>2. ScreenStep => infoJobs' = infoJobs
  BY DEF ScreenStep, GetPlayRequests, GetThisUserPlays,
         UpdateRequestsSentTableView, jobs
<1>3. StoreStep => \/ \E j \in statusJobs : CommitStatus(j)
                   \/ \E j \in infoJobs : ReadInfo(j)
                   \/ infoJobs' \subseteq infoJobs
  BY DEF StoreStep, CommitSave, CommitDelete, SweepRequests, CheckRequest,
         PutRequest, DeleteRequest, FailStatus, ReadList, WriteList, WriteInfo
<1>4. Lose => infoJobs' \subseteq infoJobs
  BY DEF Lose
<1>5. QED
  BY <1>1, <1>2, <1>3, <1>4, AnotherAnswered DEF Next, ReliableNext, Answer, vars, jobs

\* Jobs on lists come from a deletion, a save, a decision, take a read, or end.
LEMMA WhoChangesListJobs ==
    [Next]_vars => \/ \E p \in Plays : DeletePlay(p)
                   \/ \E j \in playJobs : CommitSave(j)
                   \/ \E j \in statusJobs : CommitStatus(j)
                   \/ \E j \in listJobs : ReadList(j)
                   \/ listJobs' \subseteq listJobs
<1>1. UserStep => (\E p \in Plays : DeletePlay(p)) \/ listJobs' = listJobs
  BY DEF UserStep, SavePlay, SaveRequest, UpdateRequest, CancelRequest,
         SaveProfileInfo, jobs
<1>2. ScreenStep => listJobs' = listJobs
  BY DEF ScreenStep, GetPlayRequests, GetThisUserPlays,
         UpdateRequestsSentTableView, jobs
<1>3. StoreStep => \/ \E j \in playJobs : CommitSave(j)
                   \/ \E j \in statusJobs : CommitStatus(j)
                   \/ \E j \in listJobs : ReadList(j)
                   \/ listJobs' \subseteq listJobs
  BY DEF StoreStep, CommitDelete, SweepRequests, CheckRequest, PutRequest,
         DeleteRequest, FailStatus, WriteList, ReadInfo, WriteInfo
<1>4. Lose => listJobs' \subseteq listJobs
  BY DEF Lose
<1>5. QED
  BY <1>1, <1>2, <1>3, <1>4, AnotherAnswered DEF Next, ReliableNext, Answer, vars, jobs

\* A roster held in a callback stays one that the play may have.
LEMMA InfoJobsSoundStep == IInv /\ [Next]_vars => InfoJobsSound'
<1> SUFFICES ASSUME IInv, [Next]_vars PROVE InfoJobsSound'
  OBVIOUS
<1> USE DEF IInv
<1>1. granted \subseteq granted'
  BY GrantedGrows
<1>2. CASE infoJobs' \subseteq infoJobs
  BY <1>1, <1>2 DEF InfoJobsSound, SoundInfo
<1>3. ASSUME NEW j \in statusJobs, CommitStatus(j) PROVE InfoJobsSound'
  <2> DEFINE u == senderId[j.req]
             p == playId[j.req]
  <2>1. j.req \in Requests /\ u # finderId[p]
    BY RosterAssumption DEF StateTyped, StatusJob
  <2>2. j.to = "accepted" => <<u, p>> \in granted'
    BY <1>3 DEF CommitStatus
  <2>3. "append" \in Effect(j) => j.to = "accepted"
    BY DEF Effect
  <2>4. \A k \in infoJobs' \ infoJobs :
          k.user = u /\ k.play = p /\ k.do \in Effect(j) /\ k.snap = Unread
    BY <1>3 DEF CommitStatus, EditInfo
  <2> HIDE DEF u, p
  <2>5. QED
    BY <1>1, <2>1, <2>2, <2>3, <2>4 DEF InfoJobsSound, SoundInfo
<1>4. ASSUME NEW j \in infoJobs, ReadInfo(j) PROVE InfoJobsSound'
  <2>1. j.play \in Plays
    BY DEF StateTyped, InfoJob
  <2>2. \A k \in infoJobs' \ infoJobs :
          /\ k = [j EXCEPT !.snap = playerInfo[j.play]]
          /\ playDoc[j.play] = "live"
    BY <1>4 DEF ReadInfo
  <2>3. \A k \in infoJobs' \ infoJobs :
          /\ k.user = j.user /\ k.play = j.play /\ k.do = j.do
          /\ k.snap = playerInfo[j.play] /\ playDoc[j.play] = "live"
    BY <2>2 DEF StateTyped, InfoJob
  <2>4. playDoc[j.play] = "live" => SoundInfo(j.play, playerInfo[j.play])
    BY <2>1 DEF StoredSound
  <2>5. \A q, s : SoundInfo(q, s) => SoundInfo(q, s)'
    BY <1>1 DEF SoundInfo
  <2>6. /\ j.user # finderId[j.play]
        /\ j.do = "append" => <<j.user, j.play>> \in granted'
    BY <1>1 DEF InfoJobsSound
  <2>7. \A k \in infoJobs' \ infoJobs :
          /\ k.user # finderId[k.play]
          /\ k.do = "append" => <<k.user, k.play>> \in granted'
          /\ SoundInfo(k.play, k.snap)'
    BY <2>3, <2>4, <2>5, <2>6
  <2>8. \A k \in infoJobs :
          /\ k.user # finderId[k.play]
          /\ k.do = "append" => <<k.user, k.play>> \in granted'
          /\ k.snap # Unread => SoundInfo(k.play, k.snap)'
    BY <1>1, <2>5 DEF InfoJobsSound
  <2>9. QED
    BY <2>7, <2>8 DEF InfoJobsSound
<1>5. QED
  BY <1>2, <1>3, <1>4, WhoChangesInfoJobs

\* A list held in a callback stays one that the user may have.
LEMMA ListJobsSoundStep == IInv /\ [Next]_vars => ListJobsSound'
<1> SUFFICES ASSUME IInv, [Next]_vars PROVE ListJobsSound'
  OBVIOUS
<1> USE DEF IInv
<1>1. granted \subseteq granted'
  BY GrantedGrows
<1>2. CASE listJobs' \subseteq listJobs
  BY <1>1, <1>2 DEF ListJobsSound, SoundList
<1>3. ASSUME NEW p \in Plays, DeletePlay(p) PROVE ListJobsSound'
  <2>1. \A k \in listJobs' \ listJobs : k.do = "purge" /\ k.snap = Unread
    BY <1>3 DEF DeletePlay
  <2>2. QED
    BY <1>1, <2>1 DEF ListJobsSound, SoundList
<1>4. ASSUME NEW j \in playJobs, CommitSave(j) PROVE ListJobsSound'
  <2>1. \A k \in listJobs' \ listJobs :
          k.user = finderId[j.play] /\ k.play = j.play /\ k.snap = Unread
    BY <1>4 DEF CommitSave, Edit
  <2>2. QED
    BY <1>1, <2>1 DEF ListJobsSound, SoundList
<1>5. ASSUME NEW j \in statusJobs, CommitStatus(j) PROVE ListJobsSound'
  <2> DEFINE u == senderId[j.req]
             p == playId[j.req]
  <2>1. j.to = "accepted" => <<u, p>> \in granted'
    BY <1>5 DEF CommitStatus
  <2>2. "append" \in Effect(j) => j.to = "accepted"
    BY DEF Effect
  <2>3. \A k \in listJobs' \ listJobs :
          k.user = u /\ k.play = p /\ k.do \in Effect(j) /\ k.snap = Unread
    BY <1>5 DEF CommitStatus, Edit
  <2> HIDE DEF u, p
  <2>4. \A k \in listJobs' \ listJobs :
          /\ k.do = "append" => <<k.user, k.play>> \in granted'
          /\ k.snap = Unread
    BY <2>1, <2>2, <2>3
  <2>5. QED
    BY <1>1, <2>4 DEF ListJobsSound, SoundList
<1>6. ASSUME NEW j \in listJobs, ReadList(j) PROVE ListJobsSound'
  <2>1. j.user \in Users
    BY DEF StateTyped, ListJob
  <2>2. \A k \in listJobs' \ listJobs :
          k = [j EXCEPT !.snap = myPlayList[j.user]]
    BY <1>6 DEF ReadList
  <2>3. \A k \in listJobs' \ listJobs :
          /\ k.user = j.user /\ k.play = j.play /\ k.do = j.do
          /\ k.snap = myPlayList[j.user]
    BY <2>2 DEF StateTyped, ListJob
  <2>4. QED
    BY <1>1, <2>1, <2>3 DEF ListJobsSound, StoredSound, SoundList
<1>7. QED
  BY <1>2, <1>3, <1>4, <1>5, <1>6, WhoChangesListJobs

\* Plays are created and deleted by their own calls and no others.
LEMMA WhoChangesPlays ==
    [Next]_vars => \/ \E p \in Plays : SavePlay(p) \/ DeletePlay(p)
                   \/ \E u \in Users : GetThisUserPlays(u)
                   \/ \E j \in playJobs : CommitSave(j) \/ CommitDelete(j)
                   \/ UNCHANGED <<playDoc, page>> /\ playJobs' \subseteq playJobs
<1>1. UserStep => \/ \E p \in Plays : SavePlay(p) \/ DeletePlay(p)
                  \/ UNCHANGED <<playDoc, page, playJobs>>
  BY DEF UserStep, SaveRequest, UpdateRequest, CancelRequest, SaveProfileInfo,
         documents, screens, jobs
<1>2. ScreenStep => \/ \E u \in Users : GetThisUserPlays(u)
                    \/ UNCHANGED <<playDoc, page, playJobs>>
  BY DEF ScreenStep, GetPlayRequests, UpdateRequestsSentTableView, jobs, documents
<1>3. StoreStep =>
        \/ \E j \in playJobs : CommitSave(j) \/ CommitDelete(j)
        \/ UNCHANGED <<playDoc, page>> /\ playJobs' \subseteq playJobs
  BY DEF StoreStep, SweepRequests, CheckRequest, PutRequest, DeleteRequest,
         CommitStatus, FailStatus, ReadList, WriteList, ReadInfo, WriteInfo,
         documents, screens
<1>4. Lose => UNCHANGED <<playDoc, page>> /\ playJobs' \subseteq playJobs
  BY DEF Lose, documents, screens
<1>5. QED
  BY <1>1, <1>2, <1>3, <1>4, AnotherAnswered DEF Next, ReliableNext, Answer, vars, jobs, documents, screens

\* Requests are created, deleted and decided by their own calls and no others.
LEMMA WhoChangesRequests ==
    [Next]_vars => \/ \E r \in Requests : SaveRequest(r)
                   \/ \E j \in playJobs : SweepRequests(j)
                   \/ \E j \in requestJobs :
                        Checked(j) \/ PutRequest(j) \/ DeleteRequest(j)
                   \/ \E j \in statusJobs : CommitStatus(j)
                   \/ status' = status /\ requestJobs' \subseteq requestJobs
<1>1. UserStep => \/ \E r \in Requests : SaveRequest(r)
                  \/ UNCHANGED <<status, requestJobs>>
  BY DEF UserStep, SavePlay, DeletePlay, UpdateRequest, CancelRequest,
         SaveProfileInfo, documents, jobs
<1>2. ScreenStep => UNCHANGED <<status, requestJobs>>
  BY DEF ScreenStep, GetPlayRequests, GetThisUserPlays,
         UpdateRequestsSentTableView, jobs, documents
<1>3. StoreStep => \/ \E j \in playJobs : SweepRequests(j)
                   \/ \E j \in requestJobs :
                        Checked(j) \/ PutRequest(j) \/ DeleteRequest(j)
                   \/ \E j \in statusJobs : CommitStatus(j)
                   \/ UNCHANGED <<status, requestJobs>>
  BY DEF StoreStep, Checked, CommitSave, CommitDelete, FailStatus, ReadList,
         WriteList, ReadInfo, WriteInfo, documents
<1>4. Lose => status' = status /\ requestJobs' \subseteq requestJobs
  BY DEF Lose, documents
<1>5. QED
  BY <1>1, <1>2, <1>3, <1>4, AnotherAnswered DEF Next, ReliableNext, Answer, vars, jobs, documents

\* A play is saved once, and deleted only from a page that showed it saved.
LEMMA PlaysOnceStep == IInv /\ [Next]_vars => PlaysOnce'
<1> SUFFICES ASSUME IInv, [Next]_vars PROVE PlaysOnce'
  OBVIOUS
<1> USE DEF IInv, PlaysOnce
<1>1. ASSUME NEW p \in Plays, SavePlay(p) PROVE PlaysOnce'
  <2>1. \A j \in playJobs : j.do = "save" => j.play # p
    BY <1>1 DEF SavePlay
  <2>2. \A j \in playJobs : j.do = "delete" => j.play # p
    BY <1>1 DEF SavePlay
  <2>3. page' = page /\ page[p] = Unread
    BY <1>1 DEF SavePlay, screens
  <2>4. \A j \in playJobs' \ playJobs : j.do = "save" /\ j.play = p
    BY <1>1 DEF SavePlay
  <2>5. \A j, k \in playJobs' \ playJobs : j = k
    BY <1>1 DEF SavePlay
  <2>6. /\ playDoc'[p] = "drafted"
        /\ \A q \in Plays \ {p} : playDoc'[q] = playDoc[q]
    BY <1>1 DEF SavePlay, StateTyped
  <2>7. \A j \in playJobs : j.play \in Plays
    BY DEF StateTyped, PlayJob
  <2>8. QED
    BY <2>1, <2>2, <2>3, <2>4, <2>5, <2>6, <2>7
<1>2. ASSUME NEW p \in Plays, DeletePlay(p) PROVE PlaysOnce'
  <2>1. \A j \in playJobs' \ playJobs : j.do \in {"delete", "sweep"} /\ j.play = p
    BY <1>2 DEF DeletePlay
  <2>2. playDoc' = playDoc /\ page' = page /\ page[p] # Unread
    BY <1>2 DEF DeletePlay, documents, screens
  <2>3. QED
    BY <2>1, <2>2
<1>3. ASSUME NEW u \in Users, GetThisUserPlays(u) PROVE PlaysOnce'
  <2>1. playDoc' = playDoc /\ playJobs' = playJobs
    BY <1>3 DEF GetThisUserPlays, documents, jobs
  <2>2. \A p \in Plays : \/ page'[p] = page[p]
                         \/ page'[p] = Unread
                         \/ playDoc[p] = "live"
    BY <1>3 DEF GetThisUserPlays
  <2>3. QED
    BY <2>1, <2>2
<1>4. ASSUME NEW j \in playJobs, CommitSave(j) PROVE PlaysOnce'
  <2>1. j.play \in Plays /\ \A k \in playJobs : k.play \in Plays
    BY DEF StateTyped, PlayJob
  <2>2. /\ playJobs' = playJobs \ {j} /\ page' = page /\ j.do = "save"
        /\ playDoc'[j.play] = "live"
        /\ \A q \in Plays \ {j.play} : playDoc'[q] = playDoc[q]
    BY <1>4, <2>1 DEF CommitSave, screens, StateTyped
  <2>3. QED
    BY <2>1, <2>2
<1>5. ASSUME NEW j \in playJobs, CommitDelete(j) PROVE PlaysOnce'
  <2>1. j.play \in Plays /\ \A k \in playJobs : k.play \in Plays
    BY DEF StateTyped, PlayJob
  <2>2. /\ playJobs' = playJobs \ {j} /\ page' = page /\ j.do = "delete"
        /\ playDoc'[j.play] = "gone"
        /\ \A q \in Plays \ {j.play} : playDoc'[q] = playDoc[q]
    BY <1>5, <2>1 DEF CommitDelete, screens, StateTyped
  <2>3. QED
    BY <2>1, <2>2
<1>6. CASE UNCHANGED <<playDoc, page>> /\ playJobs' \subseteq playJobs
  BY <1>6
<1>7. QED
  BY <1>1, <1>2, <1>3, <1>4, <1>5, <1>6, WhoChangesPlays

\* A request is put once, and deleted only if it was stored.
LEMMA RequestsOnceStep == IInv /\ [Next]_vars => RequestsOnce'
<1> SUFFICES ASSUME IInv, [Next]_vars PROVE RequestsOnce'
  OBVIOUS
<1> USE DEF IInv, RequestsOnce
<1>1. \A j \in requestJobs : j.req \in Requests /\ j.do \in {"check", "put", "delete"}
  BY DEF StateTyped, RequestJob
<1>2. ASSUME NEW r \in Requests, SaveRequest(r) PROVE RequestsOnce'
  <2>1. \A j \in requestJobs : j.req # r
    BY <1>2 DEF SaveRequest, Stored
  <2>2. \A j \in requestJobs' \ requestJobs : j.do = "check" /\ j.req = r
    BY <1>2 DEF SaveRequest
  <2>3. \A j, k \in requestJobs' \ requestJobs : j = k
    BY <1>2 DEF SaveRequest
  <2>4. /\ status'[r] = "drafted"
        /\ \A q \in Requests \ {r} : status'[q] = status[q]
    BY <1>2 DEF SaveRequest, StateTyped
  <2>5. QED
    BY <1>1, <2>1, <2>2, <2>3, <2>4
<1>3. ASSUME NEW j \in playJobs, SweepRequests(j) PROVE RequestsOnce'
  <2>1. \A k \in requestJobs' \ requestJobs :
          k.do = "delete" /\ status[k.req] \in Stored
    BY <1>3 DEF SweepRequests
  <2>2. status' = status
    BY <1>3 DEF SweepRequests, documents
  <2>3. QED
    BY <2>1, <2>2
<1>4. ASSUME NEW j \in requestJobs, Checked(j) PROVE RequestsOnce'
  <2>1. j.do = "check" /\ status' = status
    BY <1>4 DEF Checked, CheckRequest, documents
  <2>2. \A k \in requestJobs' : k \in requestJobs \ {j} \/ k = [j EXCEPT !.do = "put"]
    BY <1>4 DEF Checked, CheckRequest
  <2>3. \A k : k = [j EXCEPT !.do = "put"] => k.do = "put" /\ k.req = j.req
    BY DEF StateTyped, RequestJob
  <2>4. QED
    BY <2>1, <2>2, <2>3
<1>5. ASSUME NEW j \in requestJobs, PutRequest(j) PROVE RequestsOnce'
  <2>1. /\ j.do = "put" /\ requestJobs' = requestJobs \ {j}
        /\ status'[j.req] = "pending"
        /\ \A q \in Requests \ {j.req} : status'[q] = status[q]
    BY <1>1, <1>5 DEF PutRequest, StateTyped
  <2>2. QED
    BY <1>1, <2>1 DEF Stored
<1>6. ASSUME NEW j \in requestJobs, DeleteRequest(j) PROVE RequestsOnce'
  <2>1. /\ j.do = "delete" /\ requestJobs' = requestJobs \ {j}
        /\ status'[j.req] = "gone"
        /\ \A q \in Requests \ {j.req} : status'[q] = status[q]
    BY <1>1, <1>6 DEF DeleteRequest, StateTyped
  <2>2. QED
    BY <1>1, <2>1 DEF Stored
<1>7. ASSUME NEW j \in statusJobs, CommitStatus(j) PROVE RequestsOnce'
  <2>1. /\ requestJobs' = requestJobs
        /\ j.req \in Requests /\ j.to \in Stored /\ status[j.req] \in Stored
        /\ status'[j.req] = j.to
        /\ \A q \in Requests \ {j.req} : status'[q] = status[q]
    BY <1>7 DEF CommitStatus, UpdateSucceeds, StateTyped, StatusJob
  <2>2. QED
    BY <1>1, <2>1 DEF Stored
<1>8. CASE status' = status /\ requestJobs' \subseteq requestJobs
  BY <1>8
<1>9. QED
  BY <1>2, <1>3, <1>4, <1>5, <1>6, <1>7, <1>8, WhoChangesRequests

\* The lists in the store and the lists that callbacks hold are sound, and every
\* document is created once.
THEOREM InductiveInvariant == Spec => []IInv
<1>1. IInv /\ [Next]_vars => IInv'
  BY NextTyped, StoredSoundStep, InfoJobsSoundStep, ListJobsSoundStep,
     PlaysOnceStep, RequestsOnceStep DEF IInv
<1>2. QED
  BY <1>1, InitIInv, PTL DEF Spec

-----------------------------------------------------------------------------
(* What follows from it.                                                   *)

\* The finder is first on the roster of every stored play, for any
\* interleaving of the read-modify-write updates of player_info.
THEOREM FinderStaysOnRoster == Spec => []FinderOnRoster
<1>1. IInv => FinderOnRoster
  BY DEF IInv, StoredSound, SoundInfo, FinderOnRoster
<1>2. QED
  BY <1>1, InductiveInvariant, PTL

\* Only finders and accepted senders are on rosters, and only they see the
\* play among their own, whatever list was written back over whatever other.
THEOREM OnlyAcceptedPlay == Spec => []Consent
<1>1. ASSUME IInv PROVE Consent
  <2>1. ASSUME NEW p \in Plays, NEW i \in DOMAIN playerInfo[p]
        PROVE  \/ playerInfo[p][i] = finderId[p]
               \/ <<playerInfo[p][i], p>> \in granted
    <3>1. CASE playDoc[p] = "live"
      BY <1>1, <3>1 DEF IInv, StoredSound, SoundInfo
    <3>2. CASE playDoc[p] # "live"
      <4>1. playerInfo[p] = <<>>
        BY <1>1, <3>2 DEF IInv, StoredSound
      <4>2. QED
        BY <4>1
    <3>3. QED
      BY <3>1, <3>2
  <2>2. QED
    BY <1>1, <2>1 DEF Consent, IInv, StoredSound, SoundList
<1>2. QED
  BY <1>1, InductiveInvariant, PTL

\* updateData does not bring back a deleted play or request.
THEOREM DeletedStaysDeleted == Spec => NoResurrection
<1> DEFINE Stays == /\ \A p \in Plays : playDoc[p] = "gone" => playDoc'[p] = "gone"
                    /\ \A r \in Requests : status[r] = "gone" => status'[r] = "gone"
<1>1. ASSUME IInv, [Next]_vars PROVE Stays
  <2>1. ASSUME NEW p \in Plays, playDoc[p] = "gone" PROVE playDoc'[p] = "gone"
    <3>1. ASSUME NEW j \in playJobs, CommitSave(j) PROVE playDoc'[p] = "gone"
      <4>1. j.play # p
        BY <1>1, <2>1, <3>1 DEF CommitSave, IInv, PlaysOnce
      <4>2. QED
        BY <1>1, <2>1, <3>1, <4>1 DEF CommitSave, IInv, StateTyped
    <3>2. ASSUME NEW j \in playJobs, CommitDelete(j) PROVE playDoc'[p] = "gone"
      BY <1>1, <2>1, <3>2 DEF CommitDelete, IInv, StateTyped
    <3>3. ASSUME NEW q \in Plays, SavePlay(q) PROVE playDoc'[p] = "gone"
      BY <1>1, <2>1, <3>3 DEF SavePlay, IInv, StateTyped
    <3>4. ASSUME NEW q \in Plays, DeletePlay(q) PROVE playDoc'[p] = "gone"
      BY <2>1, <3>4 DEF DeletePlay, documents
    <3>5. ASSUME NEW u \in Users, GetThisUserPlays(u) PROVE playDoc'[p] = "gone"
      BY <2>1, <3>5 DEF GetThisUserPlays, documents
    <3>6. QED
      BY <1>1, <2>1, <3>1, <3>2, <3>3, <3>4, <3>5, WhoChangesPlays
  <2>2. ASSUME NEW r \in Requests, status[r] = "gone" PROVE status'[r] = "gone"
    <3>1. ASSUME NEW q \in Requests, SaveRequest(q) PROVE status'[r] = "gone"
      BY <1>1, <2>2, <3>1 DEF SaveRequest, IInv, StateTyped
    <3>2. ASSUME NEW j \in playJobs, SweepRequests(j) PROVE status'[r] = "gone"
      BY <2>2, <3>2 DEF SweepRequests, documents
    <3>3. ASSUME NEW j \in requestJobs,
                 Checked(j) \/ PutRequest(j) \/ DeleteRequest(j)
          PROVE  status'[r] = "gone"
      <4>1. Checked(j) => status'[r] = "gone"
        BY <2>2 DEF Checked, CheckRequest, documents
      <4>2. DeleteRequest(j) => status'[r] = "gone"
        BY <1>1, <2>2 DEF DeleteRequest, IInv, StateTyped
      <4>3. PutRequest(j) => j.req # r
        BY <1>1, <2>2 DEF PutRequest, IInv, RequestsOnce
      <4>4. PutRequest(j) => status'[r] = "gone"
        BY <1>1, <2>2, <4>3 DEF PutRequest, IInv, StateTyped
      <4>5. QED
        BY <3>3, <4>1, <4>2, <4>4
    <3>4. ASSUME NEW j \in statusJobs, CommitStatus(j) PROVE status'[r] = "gone"
      <4>1. j.req # r
        BY <2>2, <3>4 DEF CommitStatus, UpdateSucceeds, Stored
      <4>2. QED
        BY <1>1, <2>2, <3>4, <4>1 DEF CommitStatus, IInv, StateTyped
    <3>5. QED
      BY <1>1, <2>2, <3>1, <3>2, <3>3, <3>4, WhoChangesRequests
  <2>3. QED
    BY <2>1, <2>2
<1>2. QED
  BY <1>1, InductiveInvariant, PTL DEF Spec, NoResurrection

-----------------------------------------------------------------------------
(* Refinement.                                                             *)

\* Nothing is published and nobody plays, in both specifications.
LEMMA InitAbstract == Init => Abstract!Init
<1>1. ToSet(<<>>) = {}
  BY DEF ToSet
<1>2. QED
  BY <1>1 DEF Init, Abstract!Init, Life

\* Only the commit of a decision adds to the accepted pairs.
LEMMA WhoGrants ==
    [Next]_vars => (\E j \in statusJobs : CommitStatus(j)) \/ granted' = granted
<1>1. UserStep => granted' = granted
  BY DEF UserStep, SavePlay, DeletePlay, SaveRequest, UpdateRequest,
         CancelRequest, SaveProfileInfo, history
<1>2. ScreenStep => granted' = granted
  BY DEF ScreenStep, GetPlayRequests, GetThisUserPlays,
         UpdateRequestsSentTableView, history
<1>3. StoreStep => (\E j \in statusJobs : CommitStatus(j)) \/ granted' = granted
  BY DEF StoreStep, CommitSave, CommitDelete, SweepRequests, CheckRequest,
         PutRequest, DeleteRequest, FailStatus, ReadList, WriteList, ReadInfo,
         WriteInfo, history
<1>4. QED
  BY <1>1, <1>2, <1>3, AnotherAnswered DEF Next, ReliableNext, Answer, Lose, vars, history

\* Every step is a step of Membership on the sets of players, or none at all:
\* saving publishes, deleting deletes, accepting accepts, and writing a roster
\* back changes the players among the accepted ones and keeps the finder.
LEMMA StepAbstract == IInv /\ [Next]_vars => [Abstract!Next]_(Abstract!vars)
<1> SUFFICES ASSUME IInv, [Next]_vars
             PROVE  Abstract!Next \/ UNCHANGED Abstract!vars
  OBVIOUS
<1> USE DEF IInv
<1>1. ASSUME NEW j \in playJobs, CommitSave(j) PROVE Abstract!Publish(j.play)
  <2>1. j.play \in Plays /\ playDoc[j.play] = "drafted"
    BY <1>1 DEF CommitSave, PlaysOnce, StateTyped, PlayJob
  <2>2. granted' = granted
    BY <1>1 DEF CommitSave, history
  <2>3. ToSet(<<finderId[j.play]>>) = {finderId[j.play]}
    BY DEF ToSet
  <2>4. [p \in Plays |-> Life(p)]' = [[p \in Plays |-> Life(p)] EXCEPT ![j.play] = "live"]
    BY <1>1, <2>1 DEF CommitSave, StateTyped, Life
  <2>5. [p \in Plays |-> ToSet(playerInfo[p])]' =
          [[p \in Plays |-> ToSet(playerInfo[p])] EXCEPT ![j.play] = {finderId[j.play]}]
    BY <1>1, <2>1, <2>3 DEF CommitSave, StateTyped
  <2>6. QED
    BY <2>1, <2>2, <2>4, <2>5 DEF Abstract!Publish, Life
<1>2. ASSUME NEW j \in playJobs, CommitDelete(j) PROVE Abstract!Delete(j.play)
  <2>1. j.play \in Plays /\ playDoc[j.play] \in {"live", "gone"}
    BY <1>2 DEF CommitDelete, PlaysOnce, StateTyped, PlayJob
  <2>2. granted' = granted
    BY <1>2 DEF CommitDelete, history
  <2>3. ToSet(<<>>) = {}
    BY DEF ToSet
  <2>4. [p \in Plays |-> Life(p)]' = [[p \in Plays |-> Life(p)] EXCEPT ![j.play] = "gone"]
    BY <1>2, <2>1 DEF CommitDelete, StateTyped, Life
  <2>5. [p \in Plays |-> ToSet(playerInfo[p])]' =
          [[p \in Plays |-> ToSet(playerInfo[p])] EXCEPT ![j.play] = {}]
    BY <1>2, <2>1, <2>3 DEF CommitDelete, StateTyped
  <2>6. QED
    BY <2>1, <2>2, <2>4, <2>5 DEF Abstract!Delete, Life
<1>3. ASSUME NEW j \in infoJobs, WriteInfo(j), playDoc[j.play] = "live"
      PROVE  Abstract!Change(j.play)
  <2> DEFINE p == j.play
             n == NewInfo(j)
             players == ToSet(n) \ {finderId[p]}
  <2>1. p \in Plays /\ SoundInfo(p, n)
    BY <1>3, NewInfoSound DEF WriteInfo, StateTyped, InfoJob
  <2>2. n \in Seq(Users)
    <3>1. playerInfo'[p] = n
      BY <1>3, <2>1 DEF WriteInfo, StateTyped
    <3>2. playerInfo' \in [Plays -> Seq(Users)]
      BY NextTyped DEF StateTyped
    <3>3. QED
      BY <2>1, <3>1, <3>2
  <2>3. players \subseteq {u \in Users : <<u, p>> \in granted}
    <3> HIDE DEF n, p
    <3>1. QED
      BY <2>1, <2>2 DEF SoundInfo, ToSet
  <2>4. ToSet(n) = {finderId[p]} \cup players
    <3> HIDE DEF n, p
    <3>1. 1 \in DOMAIN n /\ n[1] = finderId[p]
      BY <2>1, <2>2 DEF SoundInfo
    <3>2. QED
      BY <3>1 DEF ToSet
  <2>5. granted' = granted /\ [q \in Plays |-> Life(q)]' = [q \in Plays |-> Life(q)]
    BY <1>3 DEF WriteInfo, history, Life
  <2>6. [q \in Plays |-> ToSet(playerInfo[q])]' =
          [[q \in Plays |-> ToSet(playerInfo[q])] EXCEPT ![p] = {finderId[p]} \cup players]
    <3>1. playerInfo' = [playerInfo EXCEPT ![p] = n]
      BY <1>3 DEF WriteInfo
    <3> HIDE DEF n, p, players
    <3>2. QED
      BY <2>1, <2>4, <3>1 DEF StateTyped
  <2>7. [q \in Plays |-> Life(q)][p] = "live"
    BY <1>3, <2>1 DEF Life
  <2> HIDE DEF n, players
  <2>8. QED
    BY <2>3, <2>5, <2>6, <2>7 DEF Abstract!Change
<1>4. ASSUME NEW j \in infoJobs, WriteInfo(j), playDoc[j.play] # "live"
      PROVE  UNCHANGED Abstract!vars
  BY <1>4 DEF WriteInfo, Abstract!vars, Life, history
<1>5. ASSUME NEW j \in listJobs, WriteList(j) PROVE UNCHANGED Abstract!vars
  BY <1>5 DEF WriteList, Abstract!vars, Life, history
<1>6. CASE /\ playerInfo' = playerInfo
           /\ playDoc' = playDoc \/ \E p \in Plays : SavePlay(p)
  <2>1. [p \in Plays |-> Life(p)]' = [p \in Plays |-> Life(p)]
    BY <1>6 DEF SavePlay, Life, StateTyped
  <2>2. [p \in Plays |-> ToSet(playerInfo[p])]' = [p \in Plays |-> ToSet(playerInfo[p])]
    BY <1>6
  <2>3. ASSUME NEW j \in statusJobs, CommitStatus(j), j.to = "accepted"
        PROVE  /\ playId[j.req] \in Plays /\ senderId[j.req] \in Users
               /\ Abstract!Accept(senderId[j.req], playId[j.req])
    <3>1. j.req \in Requests
      BY DEF StateTyped, StatusJob
    <3>2. granted' = granted \cup {<<senderId[j.req], playId[j.req]>>}
      BY <2>3 DEF CommitStatus
    <3>3. QED
      BY <2>1, <2>2, <3>1, <3>2, RosterAssumption DEF Abstract!Accept
  <2>4. ASSUME NEW j \in statusJobs, CommitStatus(j), j.to # "accepted"
        PROVE  granted' = granted
    BY <2>4 DEF CommitStatus
  <2>5. CASE granted' = granted
    BY <2>1, <2>2, <2>5 DEF Abstract!vars
  <2>6. QED
    BY <2>3, <2>4, <2>5, WhoGrants DEF Abstract!Next
<1>7. \A j \in playJobs : j.play \in Plays
  BY DEF StateTyped, PlayJob
<1>8. \A j \in infoJobs : j.play \in Plays
  BY DEF StateTyped, InfoJob
<1>9. ASSUME NEW u \in Users, SaveProfileInfo(u) PROVE UNCHANGED Abstract!vars
  BY <1>9 DEF SaveProfileInfo, Abstract!vars, Life
<1>10. QED
  BY <1>1, <1>2, <1>3, <1>4, <1>5, <1>6, <1>7, <1>8, <1>9, WhoWritesLists
     DEF Abstract!Next

\* Seen through its sets of players, the app is Membership.
THEOREM RosterImplementsMembership == Spec => ImplementsMembership
BY InitAbstract, StepAbstract, InductiveInvariant, PTL
   DEF Spec, ImplementsMembership, Abstract!Spec

-----------------------------------------------------------------------------
(* How often an element is in a list.                                      *)

\* Where x is in s.
Places(s, x) == {i \in DOMAIN s : s[i] = x}

\* Lists are finite.
LEMMA CountType ==
    ASSUME NEW S, NEW s \in Seq(S), NEW x
    PROVE  /\ IsFiniteSet(Places(s, x))
           /\ Count(s, x) = Cardinality(Places(s, x))
           /\ Count(s, x) \in Nat
           /\ Count(s, x) = 0 <=> \A i \in DOMAIN s : s[i] # x
<1>1. IsFiniteSet(1..Len(s))
  BY FS_Interval
<1>2. Places(s, x) \in SUBSET (1..Len(s))
  BY DEF Places
<1>3. IsFiniteSet(Places(s, x))
  BY <1>1, <1>2, FS_Subset
<1>4. Count(s, x) = Cardinality(Places(s, x))
  BY DEF Count, Places
<1>5. Cardinality(Places(s, x)) \in Nat
  BY <1>3, FS_CardinalityType
<1>6. Cardinality(Places(s, x)) = 0 <=> Places(s, x) = {}
  BY <1>3, FS_EmptySet
<1>7. Places(s, x) = {} <=> \A i \in DOMAIN s : s[i] # x
  BY DEF Places
<1>8. QED
  BY <1>3, <1>4, <1>5, <1>6, <1>7

\* Appending an element adds one place of it.
LEMMA CountAppend ==
    ASSUME NEW S, NEW s \in Seq(S), NEW e \in S, NEW x
    PROVE  Count(Append(s, e), x) = IF x = e THEN Count(s, x) + 1 ELSE Count(s, x)
<1>1. PICK t : t = Append(s, e)
  OBVIOUS
<1>2. /\ t \in Seq(S) /\ DOMAIN t = 1..(Len(s) + 1) /\ t[Len(s) + 1] = e
      /\ \A i \in 1..Len(s) : t[i] = s[i]
      /\ DOMAIN s = 1..Len(s) /\ Len(s) \in Nat
  BY <1>1
<1>3. Places(t, x) = IF x = e THEN Places(s, x) \cup {Len(s) + 1} ELSE Places(s, x)
  BY <1>2 DEF Places
<1>4. Len(s) + 1 \notin Places(s, x)
  BY <1>2 DEF Places
<1>5. Cardinality(Places(s, x) \cup {Len(s) + 1}) = Cardinality(Places(s, x)) + 1
  BY <1>4, CountType, FS_AddElement
<1>6. Count(t, x) = Cardinality(Places(t, x)) /\ Count(s, x) = Cardinality(Places(s, x))
  BY <1>2, CountType
<1>7. QED
  BY <1>1, <1>3, <1>5, <1>6

\* A list that holds e holds it first somewhere.
LEMMA FirstPlace ==
    ASSUME NEW S, NEW s \in Seq(S), NEW e, Contains(s, e)
    PROVE  \E m \in 1..Len(s) : s[m] = e /\ \A k \in 1..(m - 1) : s[k] # e
<1>1. Places(s, e) \subseteq Nat /\ Places(s, e) # {}
  BY DEF Places, Contains
<1>2. PICK m \in Places(s, e) : \A k \in Places(s, e) : <<k, m>> \notin OpToRel(<, Nat)
  BY <1>1, NatLessThanWellFounded, WFMin
<1>3. \A k \in Places(s, e) : ~(k < m)
  BY <1>1, <1>2 DEF OpToRel
<1>4. m \in 1..Len(s) /\ s[m] = e
  BY DEF Places
<1>5. \A k \in 1..(m - 1) : s[k] # e
  BY <1>3, <1>4 DEF Places
<1>6. QED
  BY <1>4, <1>5

\* Removing its first occurrence takes away one place of e and none of others.
LEMMA CountRemoving ==
    ASSUME NEW S, NEW s \in Seq(S), NEW e, NEW x
    PROVE  Count(RemovingFirst(s, e), x) =
             IF x = e /\ Count(s, x) > 0 THEN Count(s, x) - 1 ELSE Count(s, x)
<1>1. CASE ~Contains(s, e)
  <2>1. \A i \in DOMAIN s : s[i] # e
    BY <1>1 DEF Contains
  <2>2. Count(s, e) = 0
    BY <2>1, CountType
  <2>3. QED
    BY <1>1, <2>2 DEF RemovingFirst
<1>2. CASE Contains(s, e)
  <2>1. PICK m \in 1..Len(s) : s[m] = e /\ \A k \in 1..(m - 1) : s[k] # e
    BY <1>2, FirstPlace
  <2>2. PICK r : r = RemovingFirst(s, e)
    OBVIOUS
  <2>3. r = [i \in 1..(Len(s) - 1) |-> IF \E k \in 1..i : s[k] = e
                                       THEN s[i + 1] ELSE s[i]]
    BY <1>2, <2>2 DEF RemovingFirst
  <2>4. DOMAIN r = 1..(Len(s) - 1) /\ DOMAIN s = 1..Len(s) /\ Len(s) \in Nat
    BY <2>3
  <2>5. \A i \in 1..(Len(s) - 1) : (\E k \in 1..i : s[k] = e) <=> i >= m
    BY <2>1
  <2>6. \A i \in 1..(Len(s) - 1) : r[i] = IF i < m THEN s[i] ELSE s[i + 1]
    BY <2>1, <2>3, <2>5
  <2>7. r \in Seq(S)
    BY <2>2, RemovingFirstProperties
  <2> DEFINE A == Places(s, x) \ {m}
             B == Places(r, x)
             g == [i \in B |-> IF i < m THEN i ELSE i + 1]
  <2>8. \A i \in B : g[i] \in A
    BY <2>1, <2>4, <2>6 DEF Places
  <2>9. \A i, k \in B : g[i] = g[k] => i = k
    BY <2>4 DEF Places
  <2>10. ASSUME NEW k \in A PROVE \E i \in B : g[i] = k
    <3>1. k \in 1..Len(s) /\ s[k] = x /\ k # m
      BY <2>4 DEF Places
    <3>2. CASE k < m
      <4>1. k \in B
        BY <2>1, <2>4, <2>6, <3>1, <3>2 DEF Places
      <4>2. QED
        BY <3>2, <4>1
    <3>3. CASE k > m
      <4>1. k - 1 \in B /\ ~(k - 1 < m) /\ (k - 1) + 1 = k
        BY <2>1, <2>4, <2>6, <3>1, <3>3 DEF Places
      <4>2. QED
        BY <4>1
    <3>4. QED
      BY <2>1, <3>1, <3>2, <3>3
  <2>11. g \in [B -> A]
    BY <2>8
  <2> HIDE DEF A, B, g
  <2>12. ExistsBijection(B, A)
    <3>1. g \in Bijection(B, A)
      BY <2>9, <2>10, <2>11, Fun_IsBij
    <3>2. QED
      BY ONLY <3>1 DEF ExistsBijection
  <2>13. IsFiniteSet(B) /\ Count(r, x) = Cardinality(B)
    BY <2>7, CountType DEF B
  <2>14. Cardinality(A) = Cardinality(B)
    BY <2>12, <2>13, FS_Bijection
  <2>15. Cardinality(A) = IF m \in Places(s, x) THEN Count(s, x) - 1 ELSE Count(s, x)
    <3>1. /\ IsFiniteSet(Places(s, x))
          /\ Count(s, x) = Cardinality(Places(s, x))
      BY CountType
    <3>2. QED
      BY ONLY <3>1, FS_RemoveElement DEF A
  <2>16. m \in Places(s, x) <=> x = e
    BY <2>1 DEF Places
  <2>17. x = e => Count(s, x) # 0
    BY <2>1, <2>4, CountType
  <2>18. QED
    BY <2>2, <2>13, <2>14, <2>15, <2>16, <2>17, CountType
<1>3. QED
  BY <1>1, <1>2

\* A new roster has one place, the finder's.
LEMMA CountSingle ==
    ASSUME NEW S, NEW e \in S, NEW x
    PROVE  Count(<<e>>, x) = IF x = e THEN 1 ELSE 0
<1>1. PICK t : t = <<e>>
  OBVIOUS
<1>2. t \in Seq(S) /\ DOMAIN t = {1} /\ t[1] = e
  BY <1>1
<1>3. Places(t, x) = IF x = e THEN {1} ELSE {}
  BY <1>2 DEF Places
<1>4. Count(t, x) = Cardinality(Places(t, x))
  BY <1>2, CountType
<1>5. Cardinality({1}) = 1 /\ Cardinality({}) = 0
  BY FS_Singleton, FS_EmptySet
<1>6. QED
  BY <1>1, <1>3, <1>4, <1>5

-----------------------------------------------------------------------------
(* One operation at a time.  What is known of the calls in flight, and of  *)
(* both lists, between a decision and the last of its effects.             *)

\* Play p has been stored.
Posted(p) == playDoc[p] \in {"live", "gone"}

\* Nobody asks for a play before it is stored,
AskedPosted ==
    \A r \in Requests :
        \/ Posted(playId[r])
        \/ status[r] = "none" /\ received[r] = "none" /\ sent[r] = "none"

\* has a seat in it, or sees it among their own,
SeatsPosted ==
    /\ \A u \in Users, p \in Plays : Posted(p) \/ ledger[u][p] = 0
    /\ \A u \in Users : \A i \in DOMAIN myPlayList[u] : Posted(myPlayList[u][i])

\* and no call is about it.
CallsPosted ==
    /\ \A j \in statusJobs : Posted(playId[j.req])
    /\ \A j \in listJobs :
         /\ Posted(j.play)
         /\ j.snap # Unread => \A i \in DOMAIN j.snap : Posted(j.snap[i])

\* The only calls in flight, but for those that edit lists.
OnlyCalls(ps, rs, ss) == playJobs = ps /\ requestJobs = rs /\ statusJobs = ss

\* Calls in flight together are of one operation.
Apart ==
    /\ \A j \in playJobs : j.do = "save" =>
         OnlyCalls({j}, {}, {}) /\ listJobs = {} /\ infoJobs = {}
    /\ \A j \in requestJobs : j.do # "delete" =>
         OnlyCalls({}, {j}, {}) /\ listJobs = {} /\ infoJobs = {}
    /\ \A j \in statusJobs :
         OnlyCalls({}, {}, {j}) /\ listJobs = {} /\ infoJobs = {}
    /\ \A j \in listJobs : j.do # "purge" =>
         OnlyCalls({}, {}, {}) /\ listJobs = {j}
    /\ \A j \in infoJobs : OnlyCalls({}, {}, {}) /\ infoJobs = {j}
    /\ \A j, k \in listJobs : j.play = k.play

\* Play p is being deleted.
Deleting(p) == \E k \in playJobs : k.do = "delete" /\ k.play = p

\* A play is taken off lists because it is deleted.
PurgesDeleted ==
    \A j \in listJobs : j.do = "purge" => playDoc[j.play] = "gone" \/ Deleting(j.play)

\* A list about to be written back is the stored one, but for the play that is
\* being taken off it.
ReadsFresh ==
    /\ \A j \in infoJobs : j.snap # Unread =>
         \A u \in Users : Count(j.snap, u) = Count(playerInfo[j.play], u)
    /\ \A j \in listJobs : j.snap # Unread =>
         \A p \in Plays : j.do # "purge" \/ p # j.play =>
             Count(j.snap, p) = Count(myPlayList[j.user], p)

\* The seats of user u in play p by the decisions.
Seat(u, p) == IF u = finderId[p] THEN 1 ELSE ledger[u][p]

Editing(cs, do, u, p) == \E j \in cs : j.do = do /\ j.user = u /\ j.play = p

\* How often one of u and p is in a list of the other, where it is n times now,
\* once the edits of cs are written.
OnceWritten(cs, u, p, n) ==
    IF Editing(cs, "append", u, p) THEN n + 1
    ELSE IF Editing(cs, "remove", u, p) /\ n > 0 THEN n - 1
    ELSE n

\* Both lists will agree with the decisions, but for the list of who removed the
\* account and returned.
Balance ==
    \A p \in Plays, u \in Users : playDoc[p] = "live" /\ ~Deleting(p) =>
        /\ OnceWritten(infoJobs, u, p, Count(playerInfo[p], u)) = Seat(u, p)
        /\ u \in wiped \/ OnceWritten(listJobs, u, p, Count(myPlayList[u], p)) = Seat(u, p)

\* The request that is about to be stored is the first of its kind, and so were
\* the stored ones.
FirstOfKind ==
    /\ \A j \in requestJobs : j.do = "put" => ~AlreadySent(j.req, senderId[j.req])
    /\ \A r, q \in Requests :
         /\ senderId[r] = senderId[q] /\ playId[r] = playId[q]
         /\ status[r] \in Stored /\ status[q] \in Stored
         => r = q

Untangled == Apart /\ PurgesDeleted /\ ReadsFresh /\ Balance /\ FirstOfKind

PostedInv == IInv /\ AskedPosted /\ SeatsPosted /\ CallsPosted

UntangledInv == PostedInv /\ (~tangled => Untangled)

-----------------------------------------------------------------------------
(* Nothing comes before the play.                                          *)

\* A play that was stored once is stored or deleted.
LEMMA PostedGrows ==
    IInv /\ [Next]_vars => \A p \in Plays : Posted(p) => Posted(p)'
<1> SUFFICES ASSUME IInv, [Next]_vars, NEW p \in Plays, Posted(p) PROVE Posted(p)'
  OBVIOUS
<1> USE DEF IInv, StateTyped, Posted
<1>1. ASSUME NEW q \in Plays, SavePlay(q) PROVE Posted(p)'
  BY <1>1 DEF SavePlay
<1>2. ASSUME NEW j \in playJobs, CommitSave(j) \/ CommitDelete(j) PROVE Posted(p)'
  BY <1>2 DEF CommitSave, CommitDelete
<1>3. CASE playDoc' = playDoc
  BY <1>3
<1>4. ASSUME NEW u \in Users, GetThisUserPlays(u) PROVE playDoc' = playDoc
  BY <1>4 DEF GetThisUserPlays, documents
<1>5. ASSUME NEW q \in Plays, DeletePlay(q) PROVE playDoc' = playDoc
  BY <1>5 DEF DeletePlay, documents
<1>6. QED
  BY <1>1, <1>2, <1>3, <1>4, <1>5, WhoChangesPlays

\* A screen shows a request as it was shown, or as it is stored now.
LEMMA WhoShows ==
    [Next]_vars /\ StateTyped =>
        \A r \in Requests : /\ received'[r] \in {received[r], Fetched(r)}
                            /\ sent'[r] \in {sent[r], Fetched(r)}
<1> SUFFICES ASSUME [Next]_vars, StateTyped, NEW r \in Requests
             PROVE  /\ received'[r] \in {received[r], Fetched(r)}
                    /\ sent'[r] \in {sent[r], Fetched(r)}
  OBVIOUS
<1>1. CASE UserStep
  BY <1>1 DEF UserStep, SavePlay, DeletePlay, SaveRequest, UpdateRequest,
              CancelRequest, SaveProfileInfo, screens
<1>2. CASE ScreenStep
  BY <1>2 DEF ScreenStep, GetPlayRequests, GetThisUserPlays,
              UpdateRequestsSentTableView, Fetched, StateTyped
<1>3. CASE StoreStep
  BY <1>3 DEF StoreStep, CommitSave, CommitDelete, SweepRequests, CheckRequest,
              PutRequest, DeleteRequest, CommitStatus, FailStatus, ReadList,
              WriteList, ReadInfo, WriteInfo, screens
<1>4. QED
  BY <1>1, <1>2, <1>3, AnotherAnswered DEF Next, ReliableNext, Answer, Lose, vars, screens

\* Requests are made from pages of stored plays.
LEMMA AskedPostedStep == PostedInv /\ [Next]_vars => AskedPosted'
<1> SUFFICES ASSUME PostedInv, [Next]_vars, NEW r \in Requests, ~Posted(playId[r])'
             PROVE  status'[r] = "none" /\ received'[r] = "none" /\ sent'[r] = "none"
  BY DEF AskedPosted
<1>1. IInv /\ StateTyped /\ playId[r] \in Plays
  BY RosterAssumption DEF PostedInv, IInv
<1>2. ~Posted(playId[r])
  BY <1>1, PostedGrows
<1>3. status[r] = "none" /\ received[r] = "none" /\ sent[r] = "none"
  BY <1>2 DEF PostedInv, AskedPosted
<1>4. received'[r] = "none" /\ sent'[r] = "none"
  BY <1>1, <1>3, WhoShows DEF Fetched
<1>5. status'[r] = "none"
  <2>1. ASSUME NEW q \in Requests, SaveRequest(q) PROVE status'[r] = status[r]
    BY <1>1, <1>2, <2>1 DEF SaveRequest, Posted, StateTyped
  <2>2. ASSUME NEW j \in requestJobs, PutRequest(j) \/ DeleteRequest(j)
        PROVE  status'[r] = status[r]
    <3>1. j.req # r
      BY <1>1, <1>3, <2>2 DEF PutRequest, DeleteRequest, IInv, RequestsOnce, Stored
    <3>2. QED
      BY <1>1, <2>2, <3>1 DEF PutRequest, DeleteRequest, StateTyped
  <2>3. ASSUME NEW j \in statusJobs, CommitStatus(j) PROVE status'[r] = status[r]
    <3>1. j.req # r
      BY <1>3, <2>3 DEF CommitStatus, UpdateSucceeds, Stored
    <3>2. QED
      BY <1>1, <2>3, <3>1 DEF CommitStatus, StateTyped
  <2>4. ASSUME NEW j \in requestJobs, Checked(j) PROVE status' = status
    BY <2>4 DEF Checked, CheckRequest, documents
  <2>5. ASSUME NEW j \in playJobs, SweepRequests(j) PROVE status' = status
    BY <2>5 DEF SweepRequests, documents
  <2>6. QED
    BY <1>3, <2>1, <2>2, <2>3, <2>4, <2>5, WhoChangesRequests
<1>6. QED
  BY <1>4, <1>5

\* Only decisions change the seats, and only taps on a request start one.
LEMMA WhoDecides ==
    [Next]_vars =>
        /\ (\E j \in statusJobs : CommitStatus(j)) \/ ledger' = ledger
        /\ \/ \E r \in Requests : \/ \E to \in {"accepted", "denied"} : UpdateRequest(r, to)
                                  \/ CancelRequest(r)
           \/ statusJobs' \subseteq statusJobs
<1>1. UserStep => ledger' = ledger
  BY DEF UserStep, SavePlay, DeletePlay, SaveRequest, UpdateRequest,
         CancelRequest, SaveProfileInfo, history
<1>2. ASSUME UserStep
      PROVE  \/ \E r \in Requests : \/ \E to \in {"accepted", "denied"} : UpdateRequest(r, to)
                                    \/ CancelRequest(r)
             \/ statusJobs' \subseteq statusJobs
  <2>1. ASSUME NEW p \in Plays, SavePlay(p) \/ DeletePlay(p)
        PROVE  statusJobs' \subseteq statusJobs
    BY <2>1 DEF SavePlay, DeletePlay
  <2>2. ASSUME NEW r \in Requests, SaveRequest(r) PROVE statusJobs' \subseteq statusJobs
    BY <2>2 DEF SaveRequest
  <2>3. ASSUME NEW u \in Users, SaveProfileInfo(u) PROVE statusJobs' \subseteq statusJobs
    BY <2>3 DEF SaveProfileInfo, jobs
  <2>4. QED
    BY <1>2, <2>1, <2>2, <2>3 DEF UserStep
<1>3. ScreenStep => ledger' = ledger /\ statusJobs' = statusJobs
  BY DEF ScreenStep, GetPlayRequests, GetThisUserPlays,
         UpdateRequestsSentTableView, history, jobs
<1>4. ASSUME StoreStep
      PROVE  /\ (\E j \in statusJobs : CommitStatus(j)) \/ ledger' = ledger
             /\ statusJobs' \subseteq statusJobs
  <2>1. ASSUME NEW j \in statusJobs, CommitStatus(j) PROVE statusJobs' \subseteq statusJobs
    BY <2>1 DEF CommitStatus
  <2>2. ASSUME NEW j \in statusJobs, FailStatus(j)
        PROVE  ledger' = ledger /\ statusJobs' \subseteq statusJobs
    BY <2>2 DEF FailStatus, history
  <2>3. ASSUME NEW j \in playJobs, CommitSave(j) \/ CommitDelete(j) \/ SweepRequests(j)
        PROVE  ledger' = ledger /\ statusJobs' \subseteq statusJobs
    BY <2>3 DEF CommitSave, CommitDelete, SweepRequests, history
  <2>4. ASSUME NEW j \in requestJobs, Checked(j) \/ PutRequest(j) \/ DeleteRequest(j)
        PROVE  ledger' = ledger /\ statusJobs' \subseteq statusJobs
    BY <2>4 DEF Checked, CheckRequest, PutRequest, DeleteRequest, history
  <2>5. ASSUME NEW j \in listJobs, ReadList(j) \/ WriteList(j)
        PROVE  ledger' = ledger /\ statusJobs' \subseteq statusJobs
    BY <2>5 DEF ReadList, WriteList, history
  <2>6. ASSUME NEW j \in infoJobs, ReadInfo(j) \/ WriteInfo(j)
        PROVE  ledger' = ledger /\ statusJobs' \subseteq statusJobs
    BY <2>6 DEF ReadInfo, WriteInfo, history
  <2>7. QED
    BY <1>4, <2>1, <2>2, <2>3, <2>4, <2>5, <2>6 DEF StoreStep, Checked
<1>5. Lose => ledger' = ledger /\ statusJobs' \subseteq statusJobs
  BY DEF Lose, history
<1>6. CASE UNCHANGED vars
  BY <1>6 DEF vars, history, jobs
<1>7. QED
  BY <1>1, <1>2, <1>3, <1>4, <1>5, <1>6, AnotherAnswered
     DEF Next, ReliableNext, Answer, history

\* A list that is written holds stored plays.
LEMMA SeatsPostedStep == PostedInv /\ [Next]_vars => SeatsPosted'
<1> SUFFICES ASSUME PostedInv, [Next]_vars PROVE SeatsPosted'
  OBVIOUS
<1>1. IInv /\ StateTyped
  BY DEF PostedInv, IInv
<1>2. \A p \in Plays : Posted(p) => Posted(p)'
  BY <1>1, PostedGrows
<1>3. ASSUME NEW u \in Users, NEW p \in Plays PROVE Posted(p)' \/ ledger'[u][p] = 0
  <2>1. Posted(p) \/ ledger[u][p] = 0
    BY DEF PostedInv, SeatsPosted
  <2>2. ASSUME NEW j \in statusJobs, CommitStatus(j)
        PROVE  Posted(p) \/ ledger'[u][p] = 0
    <3>1. Posted(playId[j.req])
      BY DEF PostedInv, CallsPosted
    <3>2. CASE p = playId[j.req]
      BY <3>1, <3>2
    <3>3. CASE p # playId[j.req]
      BY <1>1, <2>1, <2>2, <3>3 DEF CommitStatus, StateTyped
    <3>4. QED
      BY <3>2, <3>3
  <2>3. QED
    BY <1>2, <2>1, <2>2, WhoDecides
<1>4. ASSUME NEW u \in Users, NEW i \in DOMAIN myPlayList'[u],
             NEW q, q = myPlayList'[u][i]
      PROVE  Posted(q)'
  <2>1. ASSUME NEW k \in DOMAIN myPlayList[u], myPlayList[u][k] = q
        PROVE  Posted(q)'
    BY <1>1, <1>2, <2>1 DEF PostedInv, SeatsPosted, StateTyped
  <2>2. CASE myPlayList'[u] = myPlayList[u]
    BY <1>4, <2>1, <2>2
  <2>3. ASSUME NEW j \in listJobs, WriteList(j), myPlayList'[u] # myPlayList[u]
        PROVE  Posted(q)'
    <3>1. j.snap # Unread /\ j.snap \in Seq(Plays) /\ j.play \in Plays
      BY <1>1, <2>3 DEF WriteList, StateTyped, ListJob
    <3>2. PICK s : s = j.snap /\ s \in Seq(Plays)
      BY <3>1
    <3>3. PICK n : n = myPlayList'[u]
      OBVIOUS
    <3>4. n = IF j.do = "append" THEN Append(s, j.play) ELSE RemovingFirst(s, j.play)
      BY <1>1, <2>3, <3>2, <3>3 DEF WriteList, NewList, StateTyped
    <3>5. n[i] = j.play \/ \E k \in DOMAIN s : n[i] = s[k]
      BY <3>1, <3>2, <3>3, <3>4, AppendProperties, RemovingFirstProperties
    <3>6. Posted(j.play) /\ \A k \in DOMAIN s : s[k] \in Plays /\ Posted(s[k])
      BY <3>1, <3>2 DEF PostedInv, CallsPosted
    <3>7. QED
      BY <1>2, <1>4, <3>1, <3>3, <3>5, <3>6
  <2>4. ASSUME NEW j \in playJobs, CommitSave(j) \/ CommitDelete(j)
        PROVE  myPlayList' = myPlayList
    BY <2>4 DEF CommitSave, CommitDelete
  <2>5. ASSUME NEW j \in infoJobs, WriteInfo(j) PROVE myPlayList' = myPlayList
    BY <2>5 DEF WriteInfo
  <2>6. ASSUME NEW v \in Users, SaveProfileInfo(v), myPlayList'[u] # myPlayList[u]
        PROVE  FALSE
    <3>1. myPlayList'[u] = <<>>
      BY <1>1, <2>6 DEF SaveProfileInfo, StateTyped
    <3>2. QED
      BY <1>4, <3>1
  <2>7. QED
    BY <2>2, <2>3, <2>4, <2>5, <2>6, WhoWritesLists
<1>5. QED
  BY <1>3, <1>4 DEF SeatsPosted

\* Calls are started by decisions, saves and pages of stored plays.
LEMMA CallsPostedStep == PostedInv /\ [Next]_vars => CallsPosted'
<1> SUFFICES ASSUME PostedInv, [Next]_vars PROVE CallsPosted'
  OBVIOUS
<1>1. IInv /\ StateTyped
  BY DEF PostedInv, IInv
<1>2. \A p \in Plays : Posted(p) => Posted(p)'
  BY <1>1, PostedGrows
<1>3. ASSUME NEW j \in statusJobs' PROVE Posted(playId[j.req])'
  <2>1. CASE j \in statusJobs
    <3>1. playId[j.req] \in Plays
      BY <1>1, <2>1, RosterAssumption DEF StateTyped, StatusJob
    <3>2. QED
      BY <1>2, <2>1, <3>1 DEF PostedInv, CallsPosted
  <2>2. ASSUME NEW r \in Requests, CancelRequest(r), j \notin statusJobs
        PROVE  Posted(playId[j.req])'
    <3>1. j.req = r /\ sent[r] # "none" /\ playId[r] \in Plays
      BY <2>2, RosterAssumption DEF CancelRequest
    <3>2. QED
      BY <1>2, <3>1 DEF PostedInv, AskedPosted
  <2>3. ASSUME NEW r \in Requests, NEW to \in {"accepted", "denied"},
               UpdateRequest(r, to), j \notin statusJobs
        PROVE  Posted(playId[j.req])'
    <3>1. j.req = r /\ received[r] # "none" /\ playId[r] \in Plays
      BY <2>3, RosterAssumption DEF UpdateRequest
    <3>2. QED
      BY <1>2, <3>1 DEF PostedInv, AskedPosted
  <2>4. QED
    BY <2>1, <2>2, <2>3, WhoDecides
<1>4. ASSUME NEW j \in listJobs'
      PROVE  /\ Posted(j.play)'
             /\ j.snap # Unread => \A i \in DOMAIN j.snap : Posted(j.snap[i])'
  <2>1. CASE j \in listJobs
    <3>1. j.play \in Plays /\ (j.snap # Unread => j.snap \in Seq(Plays))
      BY <1>1, <2>1 DEF StateTyped, ListJob
    <3>2. QED
      BY <1>2, <2>1, <3>1 DEF PostedInv, CallsPosted
  <2>2. ASSUME NEW p \in Plays, DeletePlay(p), j \notin listJobs
        PROVE  j.snap = Unread /\ j.play \in Plays /\ Posted(j.play)
    <3>1. j.play = p /\ page[p] # Unread /\ j.snap = Unread
      BY <2>2 DEF DeletePlay
    <3>2. QED
      BY <1>1, <3>1 DEF IInv, PlaysOnce, Posted
  <2>3. ASSUME NEW k \in playJobs, CommitSave(k), j \notin listJobs
        PROVE  j.snap = Unread /\ Posted(j.play)'
    <3>1. j.play = k.play /\ j.snap = Unread
      BY <2>3 DEF CommitSave, Edit
    <3>2. k.play \in Plays /\ playDoc'[k.play] = "live"
      BY <1>1, <2>3 DEF CommitSave, StateTyped, PlayJob
    <3>3. QED
      BY <3>1, <3>2 DEF Posted
  <2>4. ASSUME NEW k \in statusJobs, CommitStatus(k), j \notin listJobs
        PROVE  j.snap = Unread /\ j.play \in Plays /\ Posted(j.play)
    <3>1. j.play = playId[k.req] /\ j.snap = Unread
      BY <2>4 DEF CommitStatus, Edit
    <3>2. k.req \in Requests /\ playId[k.req] \in Plays
      BY <1>1, RosterAssumption DEF StateTyped, StatusJob
    <3>3. QED
      BY <3>1, <3>2 DEF PostedInv, CallsPosted
  <2>5. ASSUME NEW k \in listJobs, ReadList(k), j \notin listJobs
        PROVE  /\ j.play \in Plays /\ Posted(j.play)
               /\ j.snap \in Seq(Plays) /\ \A i \in DOMAIN j.snap : Posted(j.snap[i])
    <3>1. j = [k EXCEPT !.snap = myPlayList[k.user]] /\ k \in ListJob
      BY <1>1, <2>5 DEF ReadList, StateTyped
    <3>2. j.play = k.play /\ j.snap = myPlayList[k.user] /\ k.user \in Users
          /\ k.play \in Plays
      BY <3>1 DEF ListJob
    <3>3. QED
      BY <1>1, <3>2 DEF PostedInv, CallsPosted, SeatsPosted, StateTyped
  <2>6. QED
    BY <1>2, <2>1, <2>2, <2>3, <2>4, <2>5, WhoChangesListJobs
<1>5. QED
  BY <1>3, <1>4 DEF CallsPosted

-----------------------------------------------------------------------------
(* What every step keeps while operations do not overlap.                  *)

\* No call is in flight.
LEMMA IdleCalls ==
    Idle <=> OnlyCalls({}, {}, {}) /\ listJobs = {} /\ infoJobs = {}
BY DEF Idle, OnlyCalls

\* Before the first operation nothing is known of any call.
LEMMA InitUntangled == Init => UntangledInv
<1> SUFFICES ASSUME Init PROVE UntangledInv
  OBVIOUS
<1>1. AskedPosted /\ CallsPosted
  BY RosterAssumption DEF Init, AskedPosted, CallsPosted
<1>2. SeatsPosted
  BY DEF Init, SeatsPosted
<1>3. Apart /\ PurgesDeleted /\ ReadsFresh /\ Balance
  BY DEF Init, Apart, PurgesDeleted, ReadsFresh, Balance
<1>4. FirstOfKind
  BY DEF Init, FirstOfKind, Stored
<1>5. QED
  BY <1>1, <1>2, <1>3, <1>4, InitIInv DEF UntangledInv, PostedInv, Untangled

\* Calls that end leave the others of their operation.
LEMMA ApartShrinks ==
    /\ Apart
    /\ playJobs' \subseteq playJobs /\ requestJobs' \subseteq requestJobs
    /\ statusJobs' \subseteq statusJobs /\ listJobs' \subseteq listJobs
    /\ infoJobs' \subseteq infoJobs
    => Apart'
BY DEF Apart, OnlyCalls

\* The pages are not part of it.
LEMMA ScreensApart ==
    Untangled /\ UNCHANGED <<documents, jobs, history>> => Untangled'
<1> SUFFICES ASSUME Untangled, UNCHANGED <<documents, jobs, history>> PROVE Untangled'
  OBVIOUS
<1> USE DEF documents, jobs, history
<1>1. Apart'
  BY ApartShrinks DEF Untangled
<1>2. PurgesDeleted'
  BY DEF Untangled, PurgesDeleted, Deleting
<1>3. ReadsFresh'
  BY DEF Untangled, ReadsFresh
<1>4. Balance'
  BY DEF Untangled, Balance, Deleting, Seat
<1>5. FirstOfKind'
  BY DEF Untangled, FirstOfKind, AlreadySent
<1>6. QED
  BY <1>1, <1>2, <1>3, <1>4, <1>5 DEF Untangled

-----------------------------------------------------------------------------
(* An operation that begins when nothing is in flight.                     *)

\* Posting a play starts one call, the save.
LEMMA SavePlayUntangled ==
    ASSUME StateTyped, Untangled, Idle, NEW p \in Plays, SavePlay(p)
    PROVE  Untangled'
<1> USE DEF SavePlay, history
<1>1. OnlyCalls({}, {}, {}) /\ listJobs = {} /\ infoJobs = {}
  BY IdleCalls
<1>2. PICK j : j = [id |-> ops, do |-> "save", play |-> p]
  OBVIOUS
<1>3. /\ playJobs' = {j} /\ j.do = "save" /\ requestJobs' = {} /\ statusJobs' = {}
      /\ listJobs' = {} /\ infoJobs' = {}
  BY <1>1, <1>2 DEF OnlyCalls
<1>4. Apart' /\ PurgesDeleted' /\ ReadsFresh'
  BY <1>3 DEF Apart, OnlyCalls, PurgesDeleted, ReadsFresh
<1>5. Balance'
  <2>1. ASSUME NEW q \in Plays, playDoc'[q] = "live" PROVE playDoc[q] = "live"
    BY <2>1 DEF StateTyped
  <2>2. \A q : ~Deleting(q)
    BY <1>1 DEF OnlyCalls, Deleting
  <2>3. QED
    BY <1>1, <1>3, <2>1, <2>2 DEF Untangled, Balance, Seat
<1>6. FirstOfKind'
  BY <1>3 DEF Untangled, FirstOfKind
<1>7. QED
  BY <1>4, <1>5, <1>6 DEF Untangled

\* Deleting one starts calls about that play only.
LEMMA DeletePlayUntangled ==
    ASSUME StateTyped, Untangled, Idle, NEW p \in Plays, DeletePlay(p)
    PROVE  Untangled'
<1> USE DEF DeletePlay, history, documents
<1>1. OnlyCalls({}, {}, {}) /\ listJobs = {} /\ infoJobs = {}
  BY IdleCalls
<1>2. /\ \A j \in playJobs' : j.do \in {"delete", "sweep"} /\ j.play = p
      /\ [id |-> ops, do |-> "delete", play |-> p] \in playJobs'
      /\ requestJobs' = {} /\ statusJobs' = {} /\ infoJobs' = {}
  BY <1>1 DEF OnlyCalls
<1>3. \A j \in listJobs' : j.do = "purge" /\ j.play = p /\ j.snap = Unread
  BY <1>1
<1>4. Deleting(p)'
  BY <1>2 DEF Deleting
<1>5. Apart'
  BY <1>2, <1>3 DEF Apart
<1>6. PurgesDeleted' /\ ReadsFresh'
  BY <1>2, <1>3, <1>4 DEF PurgesDeleted, ReadsFresh
<1>7. Balance'
  <2>1. \A q : ~Deleting(q)
    BY <1>1 DEF OnlyCalls, Deleting
  <2>2. ASSUME NEW u, NEW n, NEW q PROVE OnceWritten(listJobs', u, q, n) = OnceWritten({}, u, q, n)
    BY <1>3 DEF OnceWritten, Editing
  <2>3. QED
    BY <1>1, <1>2, <2>1, <2>2 DEF Untangled, Balance, Seat
<1>8. FirstOfKind'
  BY <1>2 DEF Untangled, FirstOfKind
<1>9. QED
  BY <1>5, <1>6, <1>7, <1>8 DEF Untangled

\* Asking to join starts one call, the query for an earlier request.
LEMMA SaveRequestUntangled ==
    ASSUME StateTyped, Untangled, Idle, NEW r \in Requests, SaveRequest(r)
    PROVE  Untangled'
<1> USE DEF SaveRequest, history
<1>1. OnlyCalls({}, {}, {}) /\ listJobs = {} /\ infoJobs = {}
  BY IdleCalls
<1>2. PICK j : j = [id |-> ops, do |-> "check", req |-> r]
  OBVIOUS
<1>3. /\ requestJobs' = {j} /\ j.do = "check" /\ playJobs' = {} /\ statusJobs' = {}
      /\ listJobs' = {} /\ infoJobs' = {}
  BY <1>1, <1>2 DEF OnlyCalls
<1>4. Apart' /\ PurgesDeleted' /\ ReadsFresh'
  BY <1>3 DEF Apart, OnlyCalls, PurgesDeleted, ReadsFresh
<1>5. Balance'
  <2>1. \A q : ~Deleting(q)
    BY <1>1 DEF OnlyCalls, Deleting
  <2>2. QED
    BY <1>1, <1>3, <2>1 DEF Untangled, Balance, Seat
<1>6. FirstOfKind'
  <2>1. \A q \in Requests : status'[q] \in Stored => status[q] \in Stored
    BY DEF StateTyped, Stored
  <2>2. QED
    BY <1>3, <2>1 DEF Untangled, FirstOfKind
<1>7. QED
  BY <1>4, <1>5, <1>6 DEF Untangled

\* Accepting, denying and cancelling start one update of the request.
LEMMA TapUntangled ==
    ASSUME StateTyped, Untangled, Idle, NEW r \in Requests,
           (\E to \in {"accepted", "denied"} : UpdateRequest(r, to)) \/ CancelRequest(r)
    PROVE  Untangled'
<1>1. OnlyCalls({}, {}, {}) /\ listJobs = {} /\ infoJobs = {}
  BY IdleCalls
<1>2. /\ \E j : statusJobs' = statusJobs \cup {j}
      /\ UNCHANGED <<documents, history, playJobs, requestJobs, listJobs, infoJobs>>
  BY DEF UpdateRequest, CancelRequest
<1>3. PICK j : statusJobs' = {j}
  BY <1>1, <1>2 DEF OnlyCalls
<1>4. playJobs' = {} /\ requestJobs' = {} /\ listJobs' = {} /\ infoJobs' = {}
  BY <1>1, <1>2 DEF OnlyCalls
<1>5. Apart' /\ PurgesDeleted' /\ ReadsFresh'
  BY <1>3, <1>4 DEF Apart, OnlyCalls, PurgesDeleted, ReadsFresh
<1>6. Balance'
  <2>1. \A q : ~Deleting(q)
    BY <1>1 DEF OnlyCalls, Deleting
  <2>2. QED
    BY <1>1, <1>2, <1>4, <2>1 DEF Untangled, Balance, Seat, documents, history
<1>7. FirstOfKind'
  BY <1>2, <1>4 DEF Untangled, FirstOfKind, documents
<1>8. QED
  BY <1>5, <1>6, <1>7 DEF Untangled

\* Returning to a removed account empties one list, which is then not accounted
\* for, and starts no call.
LEMMA ReturnUntangled ==
    ASSUME StateTyped, Untangled, Idle, NEW v \in Users, SaveProfileInfo(v)
    PROVE  Untangled'
<1> USE DEF SaveProfileInfo, jobs
<1>1. OnlyCalls({}, {}, {}) /\ listJobs = {} /\ infoJobs = {}
  BY IdleCalls
<1>2. Apart'
  BY ApartShrinks DEF Untangled
<1>3. PurgesDeleted' /\ ReadsFresh'
  BY <1>1 DEF PurgesDeleted, ReadsFresh
<1>4. ASSUME NEW p \in Plays, NEW u \in Users, playDoc'[p] = "live", ~Deleting(p)'
      PROVE  /\ OnceWritten(infoJobs', u, p, Count(playerInfo'[p], u)) = Seat(u, p)'
             /\ u \in wiped' \/ OnceWritten(listJobs', u, p, Count(myPlayList'[u], p)) = Seat(u, p)'
  <2>1. playDoc[p] = "live" /\ ~Deleting(p) /\ Seat(u, p)' = Seat(u, p)
    BY <1>4 DEF Deleting, Seat
  <2>2. /\ OnceWritten(infoJobs, u, p, Count(playerInfo[p], u)) = Seat(u, p)
        /\ u \in wiped \/ OnceWritten(listJobs, u, p, Count(myPlayList[u], p)) = Seat(u, p)
    BY <2>1 DEF Untangled, Balance
  <2>3. u \in wiped' \/ (u \notin wiped /\ myPlayList'[u] = myPlayList[u])
    BY DEF StateTyped
  <2>4. QED
    BY <2>1, <2>2, <2>3
<1>5. Balance'
  BY <1>4 DEF Balance
<1>6. FirstOfKind'
  BY DEF Untangled, FirstOfKind, AlreadySent
<1>7. QED
  BY <1>2, <1>3, <1>5, <1>6 DEF Untangled

\* So every operation that begins alone starts calls that are apart.
LEMMA UserStepUntangled == StateTyped /\ Untangled /\ Idle /\ UserStep => Untangled'
BY SavePlayUntangled, DeletePlayUntangled, SaveRequestUntangled, TapUntangled,
   ReturnUntangled
   DEF UserStep

-----------------------------------------------------------------------------
(* The answers to the calls of one operation.                              *)

\* A new play has its finder on the roster and nobody else.
LEMMA CommitSaveUntangled ==
    ASSUME PostedInv, Untangled, NEW j \in playJobs, CommitSave(j)
    PROVE  Untangled'
<1> USE DEF CommitSave
<1>1. StateTyped /\ j.do = "save" /\ j.play \in Plays
  BY DEF PostedInv, IInv, StateTyped, PlayJob
<1>2. OnlyCalls({j}, {}, {}) /\ listJobs = {} /\ infoJobs = {}
  BY <1>1 DEF Untangled, Apart
<1>3. PICK e : e = Edit(j.id, 0, "append", finderId[j.play], j.play)
  OBVIOUS
<1>4. e.do = "append" /\ e.user = finderId[j.play] /\ e.play = j.play /\ e.snap = Unread
  BY <1>3 DEF Edit
<1>5. /\ listJobs' = {e} /\ playJobs' = {} /\ requestJobs' = {} /\ statusJobs' = {}
      /\ infoJobs' = {}
  BY <1>2, <1>3 DEF OnlyCalls
<1>6. Apart' /\ PurgesDeleted' /\ ReadsFresh'
  BY <1>4, <1>5 DEF Apart, OnlyCalls, PurgesDeleted, ReadsFresh
<1>7. ASSUME NEW p \in Plays, NEW u \in Users, playDoc'[p] = "live"
      PROVE  /\ OnceWritten(infoJobs', u, p, Count(playerInfo'[p], u)) = Seat(u, p)'
             /\ u \in wiped' \/ OnceWritten(listJobs', u, p, Count(myPlayList'[u], p)) = Seat(u, p)'
  <2>1. Seat(u, p)' = Seat(u, p) /\ myPlayList' = myPlayList /\ wiped' = wiped
    BY DEF Seat, history
  <2>2. CASE p = j.play
    <3>1. ~Posted(p)
      BY <1>1, <2>2 DEF PostedInv, IInv, PlaysOnce, Posted
    <3>2. ledger[u][p] = 0 /\ \A i \in DOMAIN myPlayList[u] : myPlayList[u][i] # p
      BY <3>1 DEF PostedInv, SeatsPosted
    <3>3. Count(myPlayList[u], p) = 0
      <4>1. myPlayList[u] \in Seq(Plays)
        BY <1>1 DEF StateTyped
      <4>2. QED
        BY <3>2, <4>1, CountType
    <3>4. Count(playerInfo'[p], u) = IF u = finderId[p] THEN 1 ELSE 0
      <4>1. playerInfo'[p] = <<finderId[p]>> /\ finderId[p] \in Users
        BY <1>1, <2>2, RosterAssumption DEF StateTyped
      <4>2. QED
        BY <4>1, CountSingle
    <3>5. Editing(listJobs', "append", u, p) <=> u = finderId[p]
      BY <1>4, <1>5, <2>2 DEF Editing
    <3>6. ~Editing(listJobs', "remove", u, p)
      BY <1>4, <1>5 DEF Editing
    <3>7. QED
      BY <1>5, <2>1, <3>2, <3>3, <3>4, <3>5, <3>6 DEF OnceWritten, Editing, Seat
  <2>3. CASE p # j.play
    <3>1. playDoc[p] = "live" /\ playerInfo'[p] = playerInfo[p] /\ ~Deleting(p)
      BY <1>1, <1>2, <1>7, <2>3 DEF StateTyped, Deleting, OnlyCalls
    <3>2. \A do : Editing(listJobs', do, u, p) = Editing(listJobs, do, u, p)
      BY <1>2, <1>4, <1>5, <2>3 DEF Editing
    <3>3. QED
      BY <1>2, <1>5, <2>1, <3>1, <3>2 DEF Untangled, Balance, OnceWritten
  <2>4. QED
    BY <2>2, <2>3
<1>8. Balance'
  BY <1>7 DEF Balance
<1>9. FirstOfKind'
  BY <1>5 DEF Untangled, FirstOfKind
<1>10. QED
  BY <1>6, <1>8, <1>9 DEF Untangled

\* The lists of a deleted play need not agree any more.
LEMMA CommitDeleteUntangled ==
    ASSUME PostedInv, Untangled, NEW j \in playJobs, CommitDelete(j)
    PROVE  Untangled'
<1> USE DEF CommitDelete, history
<1>1. StateTyped /\ j.do = "delete" /\ j.play \in Plays
  BY DEF PostedInv, IInv, StateTyped, PlayJob
<1>2. infoJobs = {} /\ infoJobs' = {}
  BY DEF Untangled, Apart, OnlyCalls
<1>3. Apart'
  BY ApartShrinks DEF Untangled
<1>4. playDoc'[j.play] = "gone" /\ \A p \in Plays \ {j.play} : playDoc'[p] = playDoc[p]
  BY <1>1 DEF StateTyped
<1>5. \A p : Deleting(p) => p = j.play \/ Deleting(p)'
  BY DEF Deleting
<1>6. PurgesDeleted'
  <2>1. \A k \in listJobs : k.play \in Plays
    BY <1>1 DEF StateTyped, ListJob
  <2>2. QED
    BY <1>4, <1>5, <2>1 DEF Untangled, PurgesDeleted
<1>7. ReadsFresh'
  BY <1>2 DEF Untangled, ReadsFresh
<1>8. Balance'
  <2>1. \A p \in Plays : playDoc'[p] = "live" => playDoc[p] = "live" /\ p # j.play
    BY <1>4
  <2>2. \A p \in Plays \ {j.play} : playerInfo'[p] = playerInfo[p]
    BY <1>1 DEF StateTyped
  <2>3. QED
    BY <1>2, <1>5, <2>1, <2>2 DEF Untangled, Balance, Seat
<1>9. FirstOfKind'
  BY DEF Untangled, FirstOfKind, AlreadySent
<1>10. QED
  BY <1>3, <1>6, <1>7, <1>8, <1>9 DEF Untangled

\* The requests of a deleted play are deleted, none is put.
LEMMA SweepUntangled ==
    ASSUME PostedInv, Untangled, NEW j \in playJobs, SweepRequests(j)
    PROVE  Untangled'
<1> USE DEF SweepRequests, history, documents
<1>1. \A k \in playJobs : k.do # "save"
  BY DEF Untangled, Apart, OnlyCalls
<1>2. /\ statusJobs = {} /\ infoJobs = {}
      /\ \A k \in listJobs : k.do = "purge"
      /\ \A k \in requestJobs : k.do = "delete"
  BY DEF Untangled, Apart, OnlyCalls
<1>3. \A k \in requestJobs' : k.do = "delete"
  BY <1>2
<1>4. Apart'
  BY <1>1, <1>2, <1>3 DEF Untangled, Apart
<1>5. \A p : Deleting(p)' <=> Deleting(p)
  BY DEF Deleting
<1>6. PurgesDeleted'
  BY <1>5 DEF Untangled, PurgesDeleted
<1>7. ReadsFresh'
  BY DEF Untangled, ReadsFresh
<1>8. Balance'
  BY <1>5 DEF Untangled, Balance, Seat
<1>9. FirstOfKind'
  BY <1>3 DEF Untangled, FirstOfKind
<1>10. QED
  BY <1>4, <1>6, <1>7, <1>8, <1>9 DEF Untangled

\* The query finds no earlier request, or the save ends.
LEMMA CheckUntangled ==
    ASSUME PostedInv, Untangled, NEW j \in requestJobs,
           CheckRequest(j, senderId[j.req])
    PROVE  Untangled'
<1> USE DEF CheckRequest, history, documents
<1>1. j.do = "check" /\ j \in RequestJob
  BY DEF PostedInv, IInv, StateTyped
<1>2. OnlyCalls({}, {j}, {}) /\ listJobs = {} /\ infoJobs = {}
  BY <1>1 DEF Untangled, Apart
<1>3. PICK k : k = [j EXCEPT !.do = "put"]
  OBVIOUS
<1>4. k.do = "put" /\ k.req = j.req
  BY <1>1, <1>3 DEF RequestJob
<1>5. /\ requestJobs' = {} \/ (requestJobs' = {k} /\ ~AlreadySent(k.req, senderId[k.req]))
      /\ playJobs' = {} /\ statusJobs' = {} /\ listJobs' = {} /\ infoJobs' = {}
  BY <1>2, <1>3, <1>4 DEF OnlyCalls
<1>6. Apart' /\ PurgesDeleted' /\ ReadsFresh'
  BY <1>4, <1>5 DEF Apart, OnlyCalls, PurgesDeleted, ReadsFresh
<1>7. Balance'
  <2>1. \A q : ~Deleting(q)
    BY <1>2 DEF OnlyCalls, Deleting
  <2>2. QED
    BY <1>2, <1>5, <2>1 DEF Untangled, Balance, Seat
<1>8. FirstOfKind'
  <2>1. \A r, me : AlreadySent(r, me)' <=> AlreadySent(r, me)
    BY DEF AlreadySent
  <2>2. QED
    BY <1>5, <2>1 DEF Untangled, FirstOfKind
<1>9. QED
  BY <1>6, <1>7, <1>8 DEF Untangled

\* Nobody else sent one since the query.
LEMMA PutUntangled ==
    ASSUME PostedInv, Untangled, NEW j \in requestJobs, PutRequest(j)
    PROVE  Untangled'
<1> USE DEF PutRequest, history
<1>1. StateTyped /\ j.do = "put" /\ j.req \in Requests
  BY DEF PostedInv, IInv, StateTyped, RequestJob
<1>2. OnlyCalls({}, {j}, {}) /\ listJobs = {} /\ infoJobs = {}
  BY <1>1 DEF Untangled, Apart
<1>3. /\ requestJobs' = {} /\ playJobs' = {} /\ statusJobs' = {} /\ listJobs' = {}
      /\ infoJobs' = {}
  BY <1>2 DEF OnlyCalls
<1>4. Apart' /\ PurgesDeleted' /\ ReadsFresh'
  BY <1>3 DEF Apart, PurgesDeleted, ReadsFresh
<1>5. Balance'
  <2>1. \A q : ~Deleting(q)
    BY <1>2 DEF OnlyCalls, Deleting
  <2>2. QED
    BY <1>2, <1>3, <2>1 DEF Untangled, Balance, Seat
<1>6. FirstOfKind'
  <2>1. ~AlreadySent(j.req, senderId[j.req])
    BY <1>1 DEF Untangled, FirstOfKind
  <2>2. \A q \in Requests : status'[q] \in Stored => q = j.req \/ status[q] \in Stored
    BY <1>1 DEF StateTyped
  <2>3. ASSUME NEW r \in Requests, NEW q \in Requests,
               senderId[r] = senderId[q], playId[r] = playId[q],
               status'[r] \in Stored, status'[q] \in Stored
        PROVE  r = q
    <3>1. CASE r = j.req
      BY <2>1, <2>2, <2>3, <3>1 DEF AlreadySent
    <3>2. CASE q = j.req
      BY <2>1, <2>2, <2>3, <3>2 DEF AlreadySent
    <3>3. CASE r # j.req /\ q # j.req
      BY <2>2, <2>3, <3>3 DEF Untangled, FirstOfKind
    <3>4. QED
      BY <3>1, <3>2, <3>3
  <2>4. QED
    BY <1>3, <2>3 DEF FirstOfKind
<1>7. QED
  BY <1>4, <1>5, <1>6 DEF Untangled

\* A deleted request is of no kind.
LEMMA DeleteRequestUntangled ==
    ASSUME PostedInv, Untangled, NEW j \in requestJobs, DeleteRequest(j)
    PROVE  Untangled'
<1> USE DEF DeleteRequest, history
<1>1. StateTyped /\ j.do = "delete"
  BY DEF PostedInv, IInv
<1>2. Apart'
  BY ApartShrinks DEF Untangled
<1>3. PurgesDeleted'
  BY DEF Untangled, PurgesDeleted, Deleting
<1>4. ReadsFresh'
  BY DEF Untangled, ReadsFresh
<1>5. Balance'
  BY DEF Untangled, Balance, Deleting, Seat
<1>6. FirstOfKind'
  <2>1. \A k \in requestJobs' : k.do # "put"
    BY <1>1 DEF Untangled, Apart, OnlyCalls
  <2>2. \A q \in Requests : status'[q] \in Stored => status[q] \in Stored
    BY <1>1 DEF StateTyped, Stored
  <2>3. QED
    BY <2>1, <2>2 DEF Untangled, FirstOfKind
<1>7. QED
  BY <1>2, <1>3, <1>4, <1>5, <1>6 DEF Untangled

\* A decision on a missing request starts nothing.
LEMMA FailStatusUntangled ==
    ASSUME PostedInv, Untangled, NEW j \in statusJobs, FailStatus(j)
    PROVE  Untangled'
<1> USE DEF FailStatus, history, documents
<1>1. Apart'
  BY ApartShrinks DEF Untangled
<1>2. PurgesDeleted'
  BY DEF Untangled, PurgesDeleted, Deleting
<1>3. ReadsFresh'
  BY DEF Untangled, ReadsFresh
<1>4. Balance'
  BY DEF Untangled, Balance, Deleting, Seat
<1>5. FirstOfKind'
  BY DEF Untangled, FirstOfKind, AlreadySent
<1>6. QED
  BY <1>1, <1>2, <1>3, <1>4, <1>5 DEF Untangled

-----------------------------------------------------------------------------
(* A decision, and the writes it starts.                                   *)

\* The edits a decision starts bring both lists to the seats it gives.
LEMMA CommitStatusUntangled ==
    ASSUME PostedInv, Untangled, NEW j \in statusJobs, CommitStatus(j)
    PROVE  Untangled'
<1> DEFINE s == senderId[j.req]
           a == playId[j.req]
<1>1. /\ StateTyped /\ j \in StatusJob /\ j.req \in Requests
      /\ s \in Users /\ a \in Plays /\ s # finderId[a]
  BY RosterAssumption DEF PostedInv, IInv, StateTyped, StatusJob
<1>2. OnlyCalls({}, {}, {j}) /\ listJobs = {} /\ infoJobs = {}
  BY DEF Untangled, Apart
<1>3. \/ Effect(j) = {}
      \/ Effect(j) = {"append"} /\ j.to = "accepted"
      \/ Effect(j) = {"remove"} /\ j.to = "cancelled" /\ j.was = "accepted"
  BY DEF Effect
<1>4. /\ playJobs' = {} /\ requestJobs' = {} /\ statusJobs' = {}
      /\ listJobs' = {Edit(j.id, 0, d, s, a) : d \in Effect(j)}
      /\ infoJobs' = {EditInfo(j.id, d, s, a) : d \in Effect(j)}
      /\ UNCHANGED <<playDoc, playerInfo, myPlayList, wiped>>
      /\ ledger' = [ledger EXCEPT ![s][a] = Seats(j, ledger[s][a])]
  BY <1>2 DEF CommitStatus, OnlyCalls
<1>5. \A k \in listJobs' : /\ k.do \in {"append", "remove"} /\ k.do \in Effect(j)
                           /\ k.user = s /\ k.play = a /\ k.snap = Unread
  BY <1>3, <1>4 DEF Edit
<1>6. \A k \in infoJobs' : k.snap = Unread
  BY <1>4 DEF EditInfo
<1>7. (\A k, l \in listJobs' : k = l) /\ (\A k, l \in infoJobs' : k = l)
  BY <1>3, <1>4
<1>8. Apart'
  BY <1>4, <1>5, <1>7 DEF Apart, OnlyCalls
<1>9. PurgesDeleted' /\ ReadsFresh'
  BY <1>5, <1>6 DEF PurgesDeleted, ReadsFresh
<1>10. ASSUME NEW d \in {"append", "remove"}, NEW u, NEW p
       PROVE  /\ Editing(listJobs', d, u, p) <=> d \in Effect(j) /\ u = s /\ p = a
              /\ Editing(infoJobs', d, u, p) <=> d \in Effect(j) /\ u = s /\ p = a
  <2>1. \A e \in Effect(j) : LET k == Edit(j.id, 0, e, s, a) IN
                               k.do = e /\ k.user = s /\ k.play = a
    BY DEF Edit
  <2>2. \A e \in Effect(j) : LET k == EditInfo(j.id, e, s, a) IN
                               k.do = e /\ k.user = s /\ k.play = a
    BY DEF EditInfo
  <2> HIDE DEF s, a
  <2>3. Editing(listJobs', d, u, p) <=> d \in Effect(j) /\ u = s /\ p = a
    BY <1>4, <2>1 DEF Editing
  <2>4. Editing(infoJobs', d, u, p) <=> d \in Effect(j) /\ u = s /\ p = a
    BY <1>4, <2>2 DEF Editing
  <2>5. QED
    BY <2>3, <2>4
<1> HIDE DEF s, a
<1>11. ASSUME NEW p \in Plays, NEW u \in Users, playDoc'[p] = "live"
       PROVE  /\ OnceWritten(infoJobs', u, p, Count(playerInfo'[p], u)) = Seat(u, p)'
              /\ u \in wiped' \/ OnceWritten(listJobs', u, p, Count(myPlayList'[u], p)) = Seat(u, p)'
  <2>1. playDoc[p] = "live" /\ ~Deleting(p)
    BY <1>2, <1>4, <1>11 DEF Deleting, OnlyCalls
  <2>2. /\ Count(playerInfo[p], u) = Seat(u, p)
        /\ u \in wiped \/ Count(myPlayList[u], p) = Seat(u, p)
    BY <1>2, <2>1 DEF Untangled, Balance, OnceWritten, Editing
  <2>3. CASE u = s /\ p = a
    <3>1. Seat(u, p) = ledger[s][a] /\ Seat(u, p)' = Seats(j, ledger[s][a])
      BY <1>1, <1>4, <2>3 DEF Seat, StateTyped
    <3>2. ledger[s][a] \in Nat
      BY <1>1 DEF StateTyped
    <3>3. OnceWritten(infoJobs', u, p, ledger[s][a]) = Seats(j, ledger[s][a])
      BY <1>3, <1>10, <2>3, <3>2 DEF OnceWritten, Seats, Effect
    <3>4. OnceWritten(listJobs', u, p, ledger[s][a]) = Seats(j, ledger[s][a])
      BY <1>3, <1>10, <2>3, <3>2 DEF OnceWritten, Seats, Effect
    <3>5. QED
      BY <1>4, <2>2, <3>1, <3>3, <3>4
  <2>4. CASE ~(u = s /\ p = a)
    <3>1. Seat(u, p)' = Seat(u, p)
      <4>1. ledger'[u][p] = ledger[u][p]
        BY <1>1, <1>4, <2>4 DEF StateTyped
      <4>2. QED
        BY <4>1 DEF Seat
    <3>2. \A n : OnceWritten(infoJobs', u, p, n) = n /\ OnceWritten(listJobs', u, p, n) = n
      BY <1>10, <2>4 DEF OnceWritten
    <3>3. QED
      BY <1>4, <2>2, <3>1, <3>2
  <2>5. QED
    BY <2>3, <2>4
<1>12. Balance'
  BY <1>11 DEF Balance
<1>13. FirstOfKind'
  <2>1. \A q \in Requests : status'[q] \in Stored => status[q] \in Stored
    BY <1>1 DEF CommitStatus, UpdateSucceeds, StateTyped
  <2>2. QED
    BY <1>4, <2>1 DEF Untangled, FirstOfKind
<1>14. QED
  BY <1>8, <1>9, <1>12, <1>13 DEF Untangled

\* A list that is read is the stored one.
LEMMA ReadListUntangled ==
    ASSUME PostedInv, Untangled, NEW j \in listJobs, ReadList(j)
    PROVE  Untangled'
<1> USE DEF ReadList, history, documents
<1>1. StateTyped /\ j \in ListJob
  BY DEF PostedInv, IInv, StateTyped
<1>2. PICK k : k = [j EXCEPT !.snap = myPlayList[j.user]]
  OBVIOUS
<1>3. /\ k.do = j.do /\ k.user = j.user /\ k.play = j.play
      /\ k.snap = myPlayList[j.user]
  BY <1>1, <1>2 DEF ListJob
<1>4. listJobs' = (listJobs \ {j}) \cup {k}
  BY <1>2
<1>5. Apart'
  <2>1. \A l \in listJobs : l.do # "purge" =>
          OnlyCalls({}, {}, {}) /\ listJobs = {l}
    BY DEF Untangled, Apart
  <2>2. \A l \in listJobs' : l.do # "purge" =>
          OnlyCalls({}, {}, {}) /\ listJobs' = {l}
    BY <1>3, <1>4, <2>1
  <2>3. \A l, m \in listJobs' : l.play = m.play
    BY <1>3, <1>4 DEF Untangled, Apart
  <2>4. \A l \in playJobs : l.do # "save"
    BY DEF Untangled, Apart
  <2>5. (\A l \in requestJobs : l.do = "delete") /\ statusJobs = {}
    BY DEF Untangled, Apart
  <2>6. \A l \in infoJobs : OnlyCalls({}, {}, {}) /\ infoJobs = {l}
    BY DEF Untangled, Apart
  <2>7. QED
    BY <2>2, <2>3, <2>4, <2>5, <2>6 DEF Apart, OnlyCalls
<1>6. PurgesDeleted'
  BY <1>3, <1>4 DEF Untangled, PurgesDeleted, Deleting
<1>7. ReadsFresh'
  BY <1>3, <1>4 DEF Untangled, ReadsFresh
<1>8. Balance'
  <2>1. \A do, u, p : Editing(listJobs', do, u, p) <=> Editing(listJobs, do, u, p)
    BY <1>3, <1>4 DEF Editing
  <2>2. \A u, p, n : OnceWritten(listJobs', u, p, n) = OnceWritten(listJobs, u, p, n)
    BY <2>1 DEF OnceWritten
  <2>3. ASSUME NEW p \in Plays, NEW u \in Users, playDoc'[p] = "live", ~Deleting(p)'
        PROVE  /\ OnceWritten(infoJobs', u, p, Count(playerInfo'[p], u)) = Seat(u, p)'
               /\ u \in wiped' \/ OnceWritten(listJobs', u, p, Count(myPlayList'[u], p)) = Seat(u, p)'
    <3>1. playDoc[p] = "live" /\ ~Deleting(p) /\ Seat(u, p)' = Seat(u, p)
      BY <2>3 DEF Deleting, Seat
    <3>2. /\ OnceWritten(infoJobs, u, p, Count(playerInfo[p], u)) = Seat(u, p)
          /\ u \in wiped \/ OnceWritten(listJobs, u, p, Count(myPlayList[u], p)) = Seat(u, p)
      BY <3>1 DEF Untangled, Balance
    <3>3. QED
      BY <2>2, <3>1, <3>2
  <2>4. QED
    BY <2>3 DEF Balance
<1>9. FirstOfKind'
  BY DEF Untangled, FirstOfKind, AlreadySent
<1>10. QED
  BY <1>5, <1>6, <1>7, <1>8, <1>9 DEF Untangled

\* A play that is being deleted is taken off a list, and no other.
LEMMA PurgeWritten ==
    ASSUME PostedInv, Untangled, NEW j \in listJobs, WriteList(j), j.do = "purge"
    PROVE  /\ \A k \in listJobs : k.do = "purge"
           /\ \A u \in Users, p \in Plays \ {j.play} :
                Count(myPlayList'[u], p) = Count(myPlayList[u], p)
<1> USE DEF WriteList
<1>1. StateTyped /\ j.user \in Users /\ j.play \in Plays /\ j.snap \in Seq(Plays)
  BY DEF PostedInv, IInv, StateTyped, ListJob
<1>2. \A k \in listJobs : k.do = "purge"
  BY DEF Untangled, Apart
<1>3. ASSUME NEW u \in Users, NEW p \in Plays \ {j.play}
      PROVE  Count(myPlayList'[u], p) = Count(myPlayList[u], p)
  <2>1. CASE myPlayList'[u] = myPlayList[u]
    BY <2>1
  <2>2. CASE u = j.user /\ myPlayList'[u] = RemovingFirst(j.snap, j.play)
    <3>1. Count(RemovingFirst(j.snap, j.play), p) = Count(j.snap, p)
      BY <1>1, CountRemoving
    <3>2. Count(j.snap, p) = Count(myPlayList[j.user], p)
      BY DEF Untangled, ReadsFresh
    <3>3. QED
      BY <2>2, <3>1, <3>2
  <2>3. QED
    BY <1>1, <2>1, <2>2 DEF NewList, StateTyped
<1>4. QED
  BY <1>2, <1>3

\* The list of an appended or removed play is the one that was read.
LEMMA EditWritten ==
    ASSUME PostedInv, Untangled, NEW j \in listJobs, WriteList(j), j.do # "purge",
           NEW u \in Users, NEW p \in Plays
    PROVE  Count(myPlayList'[u], p) = OnceWritten({j}, u, p, Count(myPlayList[u], p))
<1> USE DEF WriteList
<1>1. /\ StateTyped /\ j.user \in Users /\ j.play \in Plays /\ j.snap \in Seq(Plays)
      /\ j.do \in {"append", "remove"}
  BY DEF PostedInv, IInv, StateTyped, ListJob
<1>2. CASE u # j.user
  <2>1. myPlayList'[u] = myPlayList[u]
    BY <1>1, <1>2 DEF StateTyped
  <2>2. QED
    BY <1>2, <2>1 DEF OnceWritten, Editing
<1>3. CASE u = j.user
  <2>1. myPlayList'[u] = NewList(j)
    BY <1>1, <1>3 DEF StateTyped
  <2>2. Count(j.snap, p) = Count(myPlayList[u], p) /\ Count(j.snap, p) \in Nat
    BY <1>1, <1>3, CountType DEF Untangled, ReadsFresh
  <2>3. CASE j.do = "append"
    <3>1. Count(NewList(j), p) = IF p = j.play THEN Count(j.snap, p) + 1
                                 ELSE Count(j.snap, p)
      BY <1>1, <2>3, CountAppend DEF NewList
    <3>2. QED
      BY <1>3, <2>1, <2>2, <2>3, <3>1 DEF OnceWritten, Editing
  <2>4. CASE j.do = "remove"
    <3>1. Count(NewList(j), p) =
            IF p = j.play /\ Count(j.snap, p) > 0 THEN Count(j.snap, p) - 1
            ELSE Count(j.snap, p)
      BY <1>1, <2>4, CountRemoving DEF NewList
    <3>2. QED
      BY <1>3, <2>1, <2>2, <2>4, <3>1 DEF OnceWritten, Editing
  <2>5. QED
    BY <1>1, <2>3, <2>4
<1>4. QED
  BY <1>2, <1>3

\* A list that is written is as it was read but for the play of the call.
LEMMA WriteListUntangled ==
    ASSUME PostedInv, Untangled, NEW j \in listJobs, WriteList(j)
    PROVE  Untangled'
<1> USE DEF WriteList, history
<1>1. StateTyped /\ \A k \in listJobs : k.user \in Users /\ k.play \in Plays
  BY DEF PostedInv, IInv, StateTyped, ListJob
<1>2. Apart'
  BY ApartShrinks DEF Untangled
<1>3. PurgesDeleted'
  BY DEF Untangled, PurgesDeleted, Deleting
<1>4. ASSUME j.do = "purge" PROVE ReadsFresh' /\ Balance'
  <2>1. /\ \A k \in listJobs : k.do = "purge"
        /\ \A u \in Users, p \in Plays \ {j.play} :
             Count(myPlayList'[u], p) = Count(myPlayList[u], p)
    BY <1>4, PurgeWritten
  <2>2. \A k \in listJobs : k.play = j.play
    BY DEF Untangled, Apart
  <2>3. ReadsFresh'
    BY <1>1, <2>1, <2>2 DEF Untangled, ReadsFresh
  <2>4. \A p \in Plays : playDoc[p] = "live" /\ ~Deleting(p) => p # j.play
    BY <1>4 DEF Untangled, PurgesDeleted
  <2>5. \A u, p, n : OnceWritten(listJobs', u, p, n) = OnceWritten(listJobs, u, p, n)
    BY <2>1 DEF OnceWritten, Editing
  <2>6. ASSUME NEW p \in Plays, NEW u \in Users, playDoc'[p] = "live", ~Deleting(p)'
        PROVE  /\ OnceWritten(infoJobs', u, p, Count(playerInfo'[p], u)) = Seat(u, p)'
               /\ u \in wiped' \/ OnceWritten(listJobs', u, p, Count(myPlayList'[u], p)) = Seat(u, p)'
    <3>1. playDoc[p] = "live" /\ ~Deleting(p) /\ Seat(u, p)' = Seat(u, p)
      BY <2>6 DEF Deleting, Seat
    <3>2. /\ OnceWritten(infoJobs, u, p, Count(playerInfo[p], u)) = Seat(u, p)
          /\ u \in wiped \/ OnceWritten(listJobs, u, p, Count(myPlayList[u], p)) = Seat(u, p)
      BY <3>1 DEF Untangled, Balance
    <3>3. Count(myPlayList'[u], p) = Count(myPlayList[u], p)
      BY <2>1, <2>4, <3>1
    <3>4. QED
      BY <2>5, <3>1, <3>2, <3>3
  <2>7. QED
    BY <2>3, <2>6 DEF Balance
<1>5. ASSUME j.do # "purge" PROVE ReadsFresh' /\ Balance'
  <2>1. listJobs = {j} /\ listJobs' = {}
    BY <1>5 DEF Untangled, Apart
  <2>2. ReadsFresh'
    BY <2>1 DEF Untangled, ReadsFresh
  <2>3. \A u \in Users, p \in Plays :
          Count(myPlayList'[u], p) = OnceWritten(listJobs, u, p, Count(myPlayList[u], p))
    BY <1>5, <2>1, EditWritten
  <2>4. \A u, p, n : OnceWritten(listJobs', u, p, n) = n
    BY <2>1 DEF OnceWritten, Editing
  <2>5. ASSUME NEW p \in Plays, NEW u \in Users, playDoc'[p] = "live", ~Deleting(p)'
        PROVE  /\ OnceWritten(infoJobs', u, p, Count(playerInfo'[p], u)) = Seat(u, p)'
               /\ u \in wiped' \/ OnceWritten(listJobs', u, p, Count(myPlayList'[u], p)) = Seat(u, p)'
    <3>1. playDoc[p] = "live" /\ ~Deleting(p) /\ Seat(u, p)' = Seat(u, p)
      BY <2>5 DEF Deleting, Seat
    <3>2. /\ OnceWritten(infoJobs, u, p, Count(playerInfo[p], u)) = Seat(u, p)
          /\ u \in wiped \/ OnceWritten(listJobs, u, p, Count(myPlayList[u], p)) = Seat(u, p)
      BY <3>1 DEF Untangled, Balance
    <3>3. QED
      BY <2>3, <2>4, <3>1, <3>2
  <2>6. QED
    BY <2>2, <2>5 DEF Balance
<1>6. FirstOfKind'
  BY DEF Untangled, FirstOfKind, AlreadySent
<1>7. QED
  BY <1>2, <1>3, <1>4, <1>5, <1>6 DEF Untangled

-----------------------------------------------------------------------------

\* A roster that is read is the stored one; without a play the call ends.
LEMMA ReadInfoUntangled ==
    ASSUME PostedInv, Untangled, NEW j \in infoJobs, ReadInfo(j)
    PROVE  Untangled'
<1> USE DEF ReadInfo, history, documents
<1>1. StateTyped /\ j \in InfoJob
  BY DEF PostedInv, IInv, StateTyped
<1>2. PICK k : k = [j EXCEPT !.snap = playerInfo[j.play]]
  OBVIOUS
<1>3. /\ k.do = j.do /\ k.user = j.user /\ k.play = j.play
      /\ k.snap = playerInfo[j.play]
  BY <1>1, <1>2 DEF InfoJob
<1>4. OnlyCalls({}, {}, {}) /\ infoJobs = {j}
  BY DEF Untangled, Apart
<1>5. infoJobs' = IF playDoc[j.play] = "live" THEN {k} ELSE {}
  BY <1>2, <1>4
<1>6. Apart'
  BY <1>4, <1>5 DEF Untangled, Apart, OnlyCalls
<1>7. PurgesDeleted'
  BY DEF Untangled, PurgesDeleted, Deleting
<1>8. ReadsFresh'
  BY <1>3, <1>5 DEF Untangled, ReadsFresh
<1>9. ASSUME NEW p \in Plays, NEW u \in Users, playDoc'[p] = "live", ~Deleting(p)'
      PROVE  /\ OnceWritten(infoJobs', u, p, Count(playerInfo'[p], u)) = Seat(u, p)'
             /\ u \in wiped' \/ OnceWritten(listJobs', u, p, Count(myPlayList'[u], p)) = Seat(u, p)'
  <2>1. playDoc[p] = "live" /\ ~Deleting(p) /\ Seat(u, p)' = Seat(u, p)
    BY <1>9 DEF Deleting, Seat
  <2>2. /\ OnceWritten(infoJobs, u, p, Count(playerInfo[p], u)) = Seat(u, p)
        /\ u \in wiped \/ OnceWritten(listJobs, u, p, Count(myPlayList[u], p)) = Seat(u, p)
    BY <2>1 DEF Untangled, Balance
  <2>3. \A do : Editing(infoJobs', do, u, p) <=> Editing(infoJobs, do, u, p)
    BY <1>3, <1>4, <1>5, <2>1 DEF Editing
  <2>4. \A n : OnceWritten(infoJobs', u, p, n) = OnceWritten(infoJobs, u, p, n)
    BY <2>3 DEF OnceWritten
  <2>5. QED
    BY <2>1, <2>2, <2>4
<1>10. Balance'
  BY <1>9 DEF Balance
<1>11. FirstOfKind'
  BY DEF Untangled, FirstOfKind, AlreadySent
<1>12. QED
  BY <1>6, <1>7, <1>8, <1>10, <1>11 DEF Untangled

\* The roster of a stored play is the one that was read.
LEMMA InfoWritten ==
    ASSUME PostedInv, Untangled, NEW j \in infoJobs, WriteInfo(j),
           NEW u \in Users, NEW p \in Plays, playDoc[p] = "live"
    PROVE  Count(playerInfo'[p], u) = OnceWritten({j}, u, p, Count(playerInfo[p], u))
<1> USE DEF WriteInfo
<1>1. /\ StateTyped /\ j.user \in Users /\ j.play \in Plays /\ j.snap \in Seq(Users)
      /\ j.do \in {"append", "remove"}
  BY DEF PostedInv, IInv, StateTyped, InfoJob
<1>2. CASE p # j.play
  <2>1. playerInfo'[p] = playerInfo[p]
    BY <1>1, <1>2 DEF StateTyped
  <2>2. QED
    BY <1>2, <2>1 DEF OnceWritten, Editing
<1>3. CASE p = j.play
  <2>1. playerInfo'[p] = NewInfo(j)
    BY <1>1, <1>3 DEF StateTyped
  <2>2. Count(j.snap, u) = Count(playerInfo[p], u) /\ Count(j.snap, u) \in Nat
    BY <1>1, <1>3, CountType DEF Untangled, ReadsFresh
  <2>3. CASE j.do = "append"
    <3>1. Count(NewInfo(j), u) = IF u = j.user THEN Count(j.snap, u) + 1
                                 ELSE Count(j.snap, u)
      BY <1>1, <2>3, CountAppend DEF NewInfo
    <3>2. QED
      BY <1>3, <2>1, <2>2, <2>3, <3>1 DEF OnceWritten, Editing
  <2>4. CASE j.do = "remove"
    <3>1. Count(NewInfo(j), u) =
            IF u = j.user /\ Count(j.snap, u) > 0 THEN Count(j.snap, u) - 1
            ELSE Count(j.snap, u)
      BY <1>1, <2>4, CountRemoving DEF NewInfo
    <3>2. QED
      BY <1>3, <2>1, <2>2, <2>4, <3>1 DEF OnceWritten, Editing
  <2>5. QED
    BY <1>1, <2>3, <2>4
<1>4. QED
  BY <1>2, <1>3

\* A roster that is written is as it was read but for the user of the call.
LEMMA WriteInfoUntangled ==
    ASSUME PostedInv, Untangled, NEW j \in infoJobs, WriteInfo(j)
    PROVE  Untangled'
<1> USE DEF WriteInfo, history
<1>1. infoJobs = {j} /\ infoJobs' = {}
  BY DEF Untangled, Apart
<1>2. Apart'
  BY ApartShrinks DEF Untangled
<1>3. PurgesDeleted'
  BY DEF Untangled, PurgesDeleted, Deleting
<1>4. ReadsFresh'
  BY <1>1 DEF Untangled, ReadsFresh
<1>5. ASSUME NEW p \in Plays, NEW u \in Users, playDoc'[p] = "live", ~Deleting(p)'
      PROVE  /\ OnceWritten(infoJobs', u, p, Count(playerInfo'[p], u)) = Seat(u, p)'
             /\ u \in wiped' \/ OnceWritten(listJobs', u, p, Count(myPlayList'[u], p)) = Seat(u, p)'
  <2>1. playDoc[p] = "live" /\ ~Deleting(p) /\ Seat(u, p)' = Seat(u, p)
    BY <1>5 DEF Deleting, Seat
  <2>2. /\ OnceWritten(infoJobs, u, p, Count(playerInfo[p], u)) = Seat(u, p)
        /\ u \in wiped \/ OnceWritten(listJobs, u, p, Count(myPlayList[u], p)) = Seat(u, p)
    BY <2>1 DEF Untangled, Balance
  <2>3. Count(playerInfo'[p], u) = OnceWritten(infoJobs, u, p, Count(playerInfo[p], u))
    BY <1>1, <2>1, InfoWritten
  <2>4. \A n : OnceWritten(infoJobs', u, p, n) = n
    BY <1>1 DEF OnceWritten, Editing
  <2>5. QED
    BY <2>1, <2>2, <2>3, <2>4
<1>6. Balance'
  BY <1>5 DEF Balance
<1>7. FirstOfKind'
  BY DEF Untangled, FirstOfKind, AlreadySent
<1>8. QED
  BY <1>2, <1>3, <1>4, <1>6, <1>7 DEF Untangled

-----------------------------------------------------------------------------
(* The theorems.                                                           *)

\* Whatever Firestore answers.
LEMMA StoreStepUntangled == PostedInv /\ Untangled /\ StoreStep => Untangled'
BY CommitSaveUntangled, CommitDeleteUntangled, SweepUntangled, CheckUntangled,
   PutUntangled, DeleteRequestUntangled, CommitStatusUntangled,
   FailStatusUntangled, ReadListUntangled, WriteListUntangled,
   ReadInfoUntangled, WriteInfoUntangled
   DEF StoreStep

\* Until an operation overlaps another or a call is lost, all is accounted for.
LEMMA NextUntangled == UntangledInv /\ [Next]_vars => UntangledInv'
<1> SUFFICES ASSUME UntangledInv, [Next]_vars PROVE UntangledInv'
  OBVIOUS
<1>1. PostedInv /\ IInv /\ StateTyped
  BY DEF UntangledInv, PostedInv, IInv
<1>2. PostedInv'
  <2>1. IInv'
    BY <1>1, NextTyped, StoredSoundStep, InfoJobsSoundStep, ListJobsSoundStep,
       PlaysOnceStep, RequestsOnceStep DEF IInv
  <2>2. QED
    BY <1>1, <2>1, AskedPostedStep, SeatsPostedStep, CallsPostedStep DEF PostedInv
<1>3. ASSUME ~tangled' PROVE Untangled'
  <2>1. CASE UserStep /\ tangled' = (tangled \/ ~Idle)
    <3>1. ~tangled /\ Idle
      BY <1>3, <2>1
    <3>2. QED
      BY <1>1, <2>1, <3>1, UserStepUntangled DEF UntangledInv
  <2>2. CASE ScreenStep /\ UNCHANGED tangled
    <3>1. UNCHANGED <<documents, jobs, history>>
      BY <2>2 DEF ScreenStep, GetPlayRequests, GetThisUserPlays,
                  UpdateRequestsSentTableView
    <3>2. QED
      BY <1>3, <2>2, <3>1, ScreensApart DEF UntangledInv
  <2>3. CASE Answer
    BY <1>1, <1>3, <2>3, StoreStepUntangled DEF Answer, UntangledInv
  <2>4. CASE UNCHANGED vars
    BY <1>3, <2>4, ScreensApart DEF vars, UntangledInv
  <2>5. QED
    BY <1>3, <2>1, <2>2, <2>3, <2>4 DEF Next, ReliableNext
<1>4. QED
  BY <1>2, <1>3 DEF UntangledInv

\* Between a decision and the last of its effects every seat is accounted for, in
\* the store, in a list a callback holds or in an edit that has not begun.
THEOREM AccountedFor == Spec => []UntangledInv
BY InitUntangled, NextUntangled, PTL DEF Spec

\* While operations do not overlap and no call fails, savePlay, updateRequest,
\* cancelRequest and deletePlay leave player_info and my_play_list in agreement:
\* each holds exactly the seats of the committed decisions, duplicates included,
\* even when they were taken on stale screens.  saveProfileInfo empties the list
\* of who returns to a removed account, and only that list is excepted.
THEOREM ListsAgree == Spec => []Ledger
<1>1. UntangledInv => Ledger
  <2> SUFFICES ASSUME UntangledInv, ~tangled, Idle, NEW p \in Plays, NEW u \in Users,
                      playDoc[p] = "live"
               PROVE  /\ Count(playerInfo[p], u) = Seat(u, p)
                      /\ u \notin wiped => Count(myPlayList[u], p) = Seat(u, p)
    BY DEF Ledger, Seat
  <2>1. OnlyCalls({}, {}, {}) /\ listJobs = {} /\ infoJobs = {}
    BY IdleCalls
  <2>2. ~Deleting(p)
    BY <2>1 DEF OnlyCalls, Deleting
  <2>3. QED
    BY <2>1, <2>2 DEF UntangledInv, Untangled, Balance, OnceWritten, Editing
<1>2. QED
  BY <1>1, AccountedFor, PTL

\* While operations do not overlap and no call fails, the query of saveRequest
\* keeps a second request of a sender for the same play out of the store.
THEOREM AskedOnce == Spec => []OneRequest
<1>1. UntangledInv => OneRequest
  BY DEF UntangledInv, Untangled, FirstOfKind, OneRequest
<1>2. QED
  BY <1>1, AccountedFor, PTL

-----------------------------------------------------------------------------
(* What a list still lacks is under way.                                   *)

\* A stored play is in the list of its finder, or on its way there, unless the
\* finder removed the account and returned.
PublishedIsUnderWay ==
    ~tangled => \A p \in Plays : playDoc[p] = "live" /\ ~Deleting(p) =>
        \/ finderId[p] \in wiped
        \/ Contains(myPlayList[finderId[p]], p)
        \/ Editing(listJobs, "append", finderId[p], p)

\* A list that will agree with a seat holds it, or is about to.
LEMMA SeatShown ==
    ASSUME NEW S, NEW s \in Seq(S), NEW x, NEW cs, NEW u, NEW p,
           OnceWritten(cs, u, p, Count(s, x)) > 0
    PROVE  Contains(s, x) \/ Editing(cs, "append", u, p)
<1> SUFFICES ASSUME ~Editing(cs, "append", u, p) PROVE Contains(s, x)
  OBVIOUS
<1>1. Count(s, x) \in Nat
  BY CountType
<1>2. Count(s, x) # 0
  BY <1>1 DEF OnceWritten
<1>3. \E i \in DOMAIN s : s[i] = x
  BY <1>2, CountType
<1>4. QED
  BY <1>3 DEF Contains

\* savePlay stores the play and only then edits the list of its finder: the two
\* writes are not one, but a play is never stored without its list in sight,
\* short of the profile that empties it.
THEOREM PublishedAlwaysUnderWay == Spec => []PublishedIsUnderWay
<1>1. UntangledInv => PublishedIsUnderWay
  <2> SUFFICES ASSUME UntangledInv, ~tangled, NEW p \in Plays, playDoc[p] = "live",
                      ~Deleting(p), finderId[p] \notin wiped
               PROVE  \/ Contains(myPlayList[finderId[p]], p)
                      \/ Editing(listJobs, "append", finderId[p], p)
    BY DEF PublishedIsUnderWay
  <2>1. finderId[p] \in Users
    BY RosterAssumption
  <2>2. myPlayList[finderId[p]] \in Seq(Plays)
    BY <2>1 DEF UntangledInv, PostedInv, IInv, StateTyped
  <2>3. OnceWritten(listJobs, finderId[p], p, Count(myPlayList[finderId[p]], p)) = 1
    BY <2>1 DEF UntangledInv, Untangled, Balance, Seat
  <2>4. QED
    BY <2>2, <2>3, SeatShown
<1>2. QED
  BY <1>1, AccountedFor, PTL

\* The sender of an accepted request has a seat by the decisions,
SeatKept ==
    \A r \in Requests : status[r] = "accepted" => ledger[senderId[r]][playId[r]] > 0

SeatInv == UntangledInv /\ (~tangled => SeatKept)

\* and is in both lists of it, or on the way there; the sender's own list is
\* another matter once the account was removed and returned to.
AcceptedIsUnderWay ==
    ~tangled => \A r \in Requests :
        LET u == senderId[r]
            p == playId[r]
        IN status[r] = "accepted" /\ playDoc[p] = "live" /\ ~Deleting(p) =>
             /\ Contains(playerInfo[p], u) \/ Editing(infoJobs, "append", u, p)
             /\ u \in wiped \/ Contains(myPlayList[u], p) \/ Editing(listJobs, "append", u, p)

\* A decision gives the seat that goes with it, and no other request of the same
\* sender for the same play is stored that could take it away.
LEMMA CommitKeepsSeat ==
    ASSUME UntangledInv, Untangled, SeatKept, NEW j \in statusJobs, CommitStatus(j)
    PROVE  SeatKept'
<1>1. /\ StateTyped /\ j \in StatusJob /\ j.req \in Requests
      /\ senderId[j.req] \in Users /\ playId[j.req] \in Plays
  BY RosterAssumption DEF UntangledInv, PostedInv, IInv, StateTyped, StatusJob
<1> SUFFICES ASSUME NEW r \in Requests, status'[r] = "accepted"
             PROVE  ledger'[senderId[r]][playId[r]] > 0
  BY DEF SeatKept
<1>2. senderId[r] \in Users /\ playId[r] \in Plays
  BY RosterAssumption
<1>3. CASE r = j.req
  <2>1. j.to = "accepted"
    BY <1>1, <1>3 DEF CommitStatus, StateTyped
  <2>2. ledger'[senderId[r]][playId[r]] = ledger[senderId[r]][playId[r]] + 1
    BY <1>1, <1>3, <2>1 DEF CommitStatus, Seats, StateTyped
  <2>3. ledger[senderId[r]][playId[r]] \in Nat
    BY <1>1, <1>2 DEF StateTyped
  <2>4. QED
    BY <2>2, <2>3
<1>4. CASE r # j.req
  <2>1. status[r] = "accepted"
    BY <1>1, <1>4 DEF CommitStatus, StateTyped
  <2>2. status[r] \in Stored /\ status[j.req] \in Stored
    BY <2>1 DEF Stored, CommitStatus, UpdateSucceeds
  <2>3. ~(senderId[r] = senderId[j.req] /\ playId[r] = playId[j.req])
    BY <1>1, <1>4, <2>2 DEF Untangled, FirstOfKind
  <2>4. ledger'[senderId[r]][playId[r]] = ledger[senderId[r]][playId[r]]
    <3>1. ledger \in [Users -> [Plays -> Nat]]
      BY <1>1 DEF StateTyped
    <3>2. ledger' = [ledger EXCEPT ![senderId[j.req]][playId[j.req]] =
                       Seats(j, ledger[senderId[j.req]][playId[j.req]])]
      BY DEF CommitStatus
    <3>3. QED
      BY <1>1, <1>2, <2>3, <3>1, <3>2
  <2>5. QED
    BY <2>1, <2>4 DEF SeatKept
<1>5. QED
  BY <1>3, <1>4

\* No other step makes a request accepted.
LEMMA OnlyCommitAccepts ==
    ASSUME StateTyped, [Next]_vars
    PROVE  \/ \E j \in statusJobs : CommitStatus(j)
           \/ /\ ledger' = ledger
              /\ \A r \in Requests : status'[r] = "accepted" => status[r] = "accepted"
<1> SUFFICES ASSUME ~\E j \in statusJobs : CommitStatus(j), NEW r \in Requests,
                    status'[r] = "accepted"
             PROVE  status[r] = "accepted"
  BY WhoDecides
<1>1. ASSUME NEW q \in Requests, SaveRequest(q) PROVE status[r] = "accepted"
  BY <1>1 DEF SaveRequest, StateTyped
<1>2. ASSUME NEW j \in playJobs, SweepRequests(j) PROVE status' = status
  BY <1>2 DEF SweepRequests, documents
<1>3. ASSUME NEW j \in requestJobs, Checked(j) PROVE status' = status
  BY <1>3 DEF Checked, CheckRequest, documents
<1>4. ASSUME NEW j \in requestJobs, PutRequest(j) PROVE status[r] = "accepted"
  BY <1>4 DEF PutRequest, StateTyped
<1>5. ASSUME NEW j \in requestJobs, DeleteRequest(j) PROVE status[r] = "accepted"
  BY <1>5 DEF DeleteRequest, StateTyped
<1>6. QED
  BY <1>1, <1>2, <1>3, <1>4, <1>5, WhoChangesRequests

LEMMA NextSeat == SeatInv /\ [Next]_vars => SeatInv'
<1> SUFFICES ASSUME SeatInv, [Next]_vars PROVE SeatInv'
  OBVIOUS
<1>1. UntangledInv /\ StateTyped
  BY DEF SeatInv, UntangledInv, PostedInv, IInv
<1>2. UntangledInv'
  BY <1>1, NextUntangled
<1>3. ASSUME ~tangled' PROVE SeatKept'
  <2>1. ~tangled
    BY <1>3 DEF Next, ReliableNext, Answer, vars, history
  <2>2. SeatKept /\ Untangled
    BY <2>1 DEF SeatInv, UntangledInv
  <2>3. ASSUME NEW j \in statusJobs, CommitStatus(j) PROVE SeatKept'
    BY <1>1, <2>2, <2>3, CommitKeepsSeat
  <2>4. CASE /\ ledger' = ledger
             /\ \A r \in Requests : status'[r] = "accepted" => status[r] = "accepted"
    BY <2>2, <2>4 DEF SeatKept
  <2>5. QED
    BY <1>1, <2>3, <2>4, OnlyCommitAccepts
<1>4. QED
  BY <1>2, <1>3 DEF SeatInv

\* An accepted request is one document and the two lists are two more, written one
\* after the other: whatever the decisions that follow, a player who was accepted
\* is in both lists, or a write that puts them there is under way.
THEOREM AcceptedAlwaysUnderWay == Spec => []AcceptedIsUnderWay
<1>1. Init => SeatInv
  <2>1. Init => SeatKept
    BY DEF Init, SeatKept
  <2>2. QED
    BY <2>1, InitUntangled DEF SeatInv
<1>2. SeatInv => AcceptedIsUnderWay
  <2> SUFFICES ASSUME SeatInv, ~tangled, NEW r \in Requests, NEW u, NEW p,
                      u = senderId[r], p = playId[r],
                      status[r] = "accepted", playDoc[p] = "live", ~Deleting(p)
               PROVE  /\ Contains(playerInfo[p], u) \/ Editing(infoJobs, "append", u, p)
                      /\ \/ u \in wiped
                         \/ Contains(myPlayList[u], p)
                         \/ Editing(listJobs, "append", u, p)
    BY DEF AcceptedIsUnderWay
  <2>1. u \in Users /\ p \in Plays /\ u # finderId[p]
    BY RosterAssumption
  <2>2. playerInfo[p] \in Seq(Users) /\ myPlayList[u] \in Seq(Plays)
    BY <2>1 DEF SeatInv, UntangledInv, PostedInv, IInv, StateTyped
  <2>3. Seat(u, p) > 0
    BY <2>1 DEF SeatInv, SeatKept, Seat
  <2>4. /\ OnceWritten(infoJobs, u, p, Count(playerInfo[p], u)) = Seat(u, p)
        /\ u \in wiped \/ OnceWritten(listJobs, u, p, Count(myPlayList[u], p)) = Seat(u, p)
    BY <2>1 DEF SeatInv, UntangledInv, Untangled, Balance
  <2>5. Contains(playerInfo[p], u) \/ Editing(infoJobs, "append", u, p)
    BY <2>2, <2>3, <2>4, SeatShown
  <2>6. \/ u \in wiped
        \/ Contains(myPlayList[u], p) \/ Editing(listJobs, "append", u, p)
    BY <2>2, <2>3, <2>4, SeatShown
  <2>7. QED
    BY <2>5, <2>6
<1>3. QED
  BY <1>1, <1>2, NextSeat, PTL DEF Spec

=============================================================================
