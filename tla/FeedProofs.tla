----------------------------- MODULE FeedProofs -----------------------------
(***************************************************************************)
(* Theorems about module Feed, for any users, plays and bounds, any        *)
(* interleaving of calls, any failure and any restart.                     *)
(***************************************************************************)
EXTENDS Feed, ListLemmas, FiniteSetTheorems

-----------------------------------------------------------------------------
(* Type correctness.                                                       *)

\* A join that has read nothing is one.
LEMMA NoJoinTyped ==
    /\ NoJoin \in Join
    /\ \A st \in {"list", "failed"} : [NoJoin EXCEPT !.stage = st] \in Join
<1>1. <<>> \in Seq(Users) /\ {} \in SUBSET Users
  OBVIOUS
<1>2. NoJoin \in Join
  BY <1>1 DEF NoJoin, Join
<1>3. \A j \in Join, st \in {"list", "failed"} : [j EXCEPT !.stage = st] \in Join
  BY DEF Join
<1>4. QED
  BY <1>2, <1>3

\* The first fetch is one.
LEMMA NewFetchTyped == \A n \in 1..MaxFetches : NewFetch(n) \in FetchCall
BY DEF NewFetch, FetchCall

\* The feed of a new user is well typed.
LEMMA InitTypeOK == Init => TypeOK
<1>1. NewFetch(1) \in FetchCall
  BY FeedAssumption, NewFetchTyped
<1>2. QED
  <2> SUFFICES ASSUME Init PROVE TypeOK
    OBVIOUS
  <2>1. blockList \in Seq(Users) /\ join \in Join /\ fetches \subseteq FetchCall
    BY <1>1, NoJoinTyped DEF Init
  <2>2. /\ waiting \in BOOLEAN /\ hud = "none" /\ open \in BOOLEAN
        /\ current \in BOOLEAN /\ tangled \in BOOLEAN /\ left \in BOOLEAN
    BY DEF Init
  <2>3. /\ upcoming \subseteq Plays /\ publicPlays \subseteq Plays
        /\ blockUsers \subseteq Users /\ decided \subseteq Users
        /\ edits \subseteq EditCall /\ ops \in 0..MaxOps
    BY FeedAssumption DEF Init
  <2>4. QED
    BY <2>1, <2>2, <2>3 DEF TypeOK

\* A new call has a number within the bound.
LEMMA StartTyped ==
    ASSUME TypeOK
    PROVE  /\ Fetch => fetches' \subseteq FetchCall
           /\ \A u \in Users, do \in {"add", "remove"} :
                Edit(do, u) => edits' \subseteq EditCall
<1>1. ASSUME Fetch PROVE fetches' \subseteq FetchCall
  BY <1>1, NewFetchTyped DEF TypeOK, Fetch, NextOf
<1>2. ASSUME NEW u \in Users, NEW do \in {"add", "remove"}, NEW n \in 1..MaxEdits
      PROVE  [n |-> n, do |-> do, user |-> u, snap |-> Unread] \in EditCall
  BY DEF EditCall
<1>3. QED
  BY <1>1, <1>2 DEF TypeOK, Edit, NextOf

\* A tap is counted within the bound.
LEMMA BeginTyped == TypeOK /\ Begin => ops' \in 0..MaxOps
BY FeedAssumption DEF Begin, TypeOK

\* What passes the store's change by stays well typed.
LEMMA OutdatedTyped ==
    TypeOK /\ Outdated => fetches' \subseteq FetchCall /\ current' \in BOOLEAN
<1> SUFFICES ASSUME TypeOK, Outdated
             PROVE  fetches' \subseteq FetchCall /\ current' \in BOOLEAN
  OBVIOUS
<1>1. ASSUME NEW c \in fetches PROVE [c EXCEPT !.fresh = FALSE] \in FetchCall
  BY DEF TypeOK, FetchCall
<1>2. QED
  BY <1>1 DEF Outdated

\* What is shown of the HUD, or dismissed, is well typed.
LEMMA HudTyped ==
    ASSUME TypeOK
    PROVE  /\ ShowHud => hud' \in {"none", "coming", "up", "going"}
           /\ Dismissed \in {"none", "going"}
BY DEF TypeOK, ShowHud, Dismissed

\* A feed and pages that start anew are well typed.
LEMMA AnewTyped ==
    ASSUME StartsAnew
    PROVE  /\ publicPlays' = {} /\ waiting' \in BOOLEAN /\ current' \in BOOLEAN
           /\ fetches' \subseteq FetchCall /\ open' \in BOOLEAN
           /\ blockUsers' = {} /\ join' \in Join /\ left' \in BOOLEAN
<1>1. NewFetch(1) \in FetchCall
  BY FeedAssumption, NewFetchTyped
<1>2. QED
  BY <1>1, NoJoinTyped DEF StartsAnew

\* A tap keeps the types.
LEMMA TapTypeOK == TypeOK /\ Tap => TypeOK'
<1> SUFFICES ASSUME TypeOK, Tap PROVE TypeOK'
  OBVIOUS
<1> USE StartTyped, BeginTyped DEF TypeOK, store, feed, listing, history
<1>1. CASE GetPublishPlay
  BY <1>1 DEF GetPublishPlay
<1>2. ASSUME NEW u \in Users, BlockAction(u) PROVE TypeOK'
  BY <1>2 DEF BlockAction, Tangles
<1>3. CASE OpenBlockList
  BY <1>3, NoJoinTyped, HudTyped DEF OpenBlockList, Tangles
<1>4. CASE Close
  BY <1>4, NoJoinTyped DEF Close
<1>5. ASSUME NEW u \in Users, DeleteRow(u) PROVE TypeOK'
  BY <1>5 DEF DeleteRow, Tangles
<1>6. QED
  BY <1>1, <1>2, <1>3, <1>4, <1>5 DEF Tap

\* What an edit writes is a list of users.
LEMMA NewBlockListTyped ==
    ASSUME TypeOK, NEW e \in edits, e.snap # Unread
    PROVE  e.snap \in Seq(Users) /\ e.user \in Users
           /\ NewBlockList(e) \in Seq(Users)
<1>1. e.snap \in Seq(Users) /\ e.user \in Users
  BY DEF TypeOK, EditCall
<1>2. RemovingFirst(e.snap, e.user) \in Seq(Users)
  BY <1>1, RemovingFirstProperties
<1>3. Append(e.snap, e.user) \in Seq(Users)
  BY <1>1, AppendProperties
<1>4. QED
  BY <1>1, <1>2, <1>3 DEF NewBlockList

\* An answer keeps the types.
LEMMA AnswerTypeOK == TypeOK /\ Answer => TypeOK'
<1> SUFFICES ASSUME TypeOK, Answer PROVE TypeOK'
  OBVIOUS
<1> USE DEF store, feed, listing, history
<1>1. ASSUME NEW c \in fetches, AnswerUser(c) PROVE TypeOK'
  <2>1. c \in FetchCall /\ ToSet(blockList) \in SUBSET Users
    BY DEF TypeOK, ToSet
  <2>2. [c EXCEPT !.stage = "plays", !.blocked = ToSet(blockList)] \in FetchCall
    BY <2>1 DEF FetchCall
  <2>3. QED
    BY <1>1, <2>2 DEF AnswerUser, TypeOK
<1>2. ASSUME NEW c \in fetches, AnswerPlays(c) PROVE TypeOK'
  BY <1>2 DEF AnswerPlays, Found, TypeOK, FetchCall
<1>3. ASSUME NEW e \in edits, ReadEdit(e) PROVE TypeOK'
  <2>1. [e EXCEPT !.snap = blockList] \in EditCall
    BY DEF TypeOK, EditCall
  <2>2. QED
    BY <1>3, <2>1 DEF ReadEdit, TypeOK
<1>4. ASSUME NEW e \in edits, WriteEdit(e) PROVE TypeOK'
  <2>1. NewBlockList(e) \in Seq(Users)
    BY <1>4, NewBlockListTyped DEF WriteEdit
  <2>2. fetches' \subseteq FetchCall /\ current' \in BOOLEAN
        /\ blockList' \in Seq(Users)
    BY <1>4, <2>1, OutdatedTyped DEF WriteEdit, TypeOK
  <2>3. hud' \in {"none", "coming", "up", "going"}
    BY <1>4, HudTyped DEF WriteEdit, TypeOK
  <2>4. QED
    BY <1>4, <2>2, <2>3 DEF WriteEdit, TypeOK
<1>5. CASE AnswerList
  <2>1. [stage |-> "users", ids |-> blockList, got |-> {}] \in Join
    BY DEF TypeOK, Join
  <2>2. QED
    BY <1>5, <2>1, NoJoinTyped, HudTyped DEF AnswerList, DidGet, Dismiss, TypeOK
<1>6. ASSUME NEW u \in Users, AnswerBlocked(u) PROVE TypeOK'
  <2>1. join.got \cup {u} \subseteq Users
    BY <1>6 DEF TypeOK, Join
  <2>2. [join EXCEPT !.got = join.got \cup {u}] \in Join
    BY <2>1 DEF TypeOK, Join
  <2>3. /\ join' \in Join /\ blockUsers' \subseteq Users
        /\ hud' \in {"none", "coming", "up", "going"}
    BY <1>6, <2>1, <2>2, NoJoinTyped, HudTyped
       DEF AnswerBlocked, DidGet, Dismiss, TypeOK
  <2>4. QED
    BY <1>6, <2>3 DEF AnswerBlocked, TypeOK
<1>7. QED
  BY <1>1, <1>2, <1>3, <1>4, <1>5, <1>6 DEF Answer

\* So does every step.
LEMMA NextTypeOK == TypeOK /\ [Next]_vars => TypeOK'
<1> SUFFICES ASSUME TypeOK, [Next]_vars PROVE TypeOK'
  OBVIOUS
<1> USE DEF store, feed, listing, history
<1>1. ASSUME NEW p \in Plays, SavePlay(p) \/ Passes(p) PROVE TypeOK'
  BY <1>1, OutdatedTyped DEF SavePlay, Passes, TypeOK
<1>2. CASE Tap
  BY <1>2, TapTypeOK
<1>3. CASE Answer
  BY <1>3, AnswerTypeOK
<1>4. ASSUME NEW c \in fetches, LoseFetch(c) PROVE TypeOK'
  BY <1>4 DEF LoseFetch, TypeOK
<1>5. ASSUME NEW e \in edits, LoseEdit(e) PROVE TypeOK'
  BY <1>5, HudTyped DEF LoseEdit, TypeOK
<1>6. CASE LoseJoin
  BY <1>6, NoJoinTyped DEF LoseJoin, TypeOK
<1>7. CASE Reopen
  BY <1>7, AnewTyped DEF Reopen, TypeOK
<1>8. CASE SaveProfileInfo
  <2>1. <<>> \in Seq(Users)
    OBVIOUS
  <2>2. QED
    BY <1>8, <2>1, AnewTyped DEF SaveProfileInfo, TypeOK
<1>9. CASE AnimationDidFinish
  BY <1>9 DEF AnimationDidFinish, TypeOK
<1>10. CASE UNCHANGED vars
  BY <1>10 DEF vars, TypeOK
<1>11. QED
  BY <1>1, <1>2, <1>3, <1>4, <1>5, <1>6, <1>7, <1>8, <1>9, <1>10 DEF Next

\* Feed and block list keep their types.
THEOREM TypeCorrect == Spec => []TypeOK
<1>1. Init => TypeOK
  BY InitTypeOK
<1>2. TypeOK /\ [Next]_vars => TypeOK'
  BY NextTypeOK
<1>3. QED
  BY <1>1, <1>2, PTL DEF Spec

-----------------------------------------------------------------------------
(* The block list is a set.  The list an edit writes is made from one that *)
(* it has read, so the lists read must be sets too.                        *)

EditsSound == \A e \in edits : e.snap # Unread => IsInjective(e.snap)

SetInv == TypeOK /\ BlockListSet /\ EditsSound

\* An edit that writes keeps a list without duplicates.
LEMMA NewBlockListSet ==
    ASSUME TypeOK, NEW e \in edits, e.snap # Unread, IsInjective(e.snap),
           ~HasNothingToDo(e)
    PROVE  IsInjective(NewBlockList(e))
<1>1. e.snap \in Seq(Users) /\ e.user \in Users /\ e.do \in {"add", "remove"}
  BY NewBlockListTyped DEF TypeOK, EditCall
<1>2. CASE e.do = "add"
  <2>1. ~Contains(e.snap, e.user)
    BY <1>2 DEF HasNothingToDo
  <2>2. QED
    BY <1>1, <1>2, <2>1, AppendingInjective DEF NewBlockList
<1>3. CASE e.do = "remove"
  BY <1>1, <1>3, RemovingInjective DEF NewBlockList
<1>4. QED
  BY <1>1, <1>2, <1>3

\* Only WriteEdit and SaveProfileInfo touch the block list, and only ReadEdit
\* gives an edit a list that it has read.
LEMMA WhoEdits ==
    ASSUME TypeOK, [Next]_vars
    PROVE  \/ \E e \in edits : ReadEdit(e) \/ WriteEdit(e)
           \/ /\ blockList' = blockList \/ SaveProfileInfo
              /\ \A e \in edits' : e \in edits \/ e.snap = Unread
<1> USE DEF store, feed, listing, history
<1>1. ASSUME NEW p \in Plays, SavePlay(p) \/ Passes(p)
      PROVE  blockList' = blockList /\ edits' = edits
  BY <1>1 DEF SavePlay, Passes
<1>2. ASSUME Tap
      PROVE  /\ blockList' = blockList
             /\ \A e \in edits' : e \in edits \/ e.snap = Unread
  BY <1>2 DEF Tap, GetPublishPlay, BlockAction, OpenBlockList, Close, DeleteRow, Edit
<1>3. ASSUME Answer, ~\E e \in edits : ReadEdit(e) \/ WriteEdit(e)
      PROVE  blockList' = blockList /\ edits' = edits
  BY <1>3 DEF Answer, AnswerUser, AnswerPlays, AnswerList, AnswerBlocked
<1>4. ASSUME \/ \E c \in fetches : LoseFetch(c)
             \/ \E e \in edits : LoseEdit(e)
             \/ LoseJoin \/ Reopen \/ AnimationDidFinish
      PROVE  blockList' = blockList /\ edits' \subseteq edits
  BY <1>4 DEF LoseFetch, LoseEdit, LoseJoin, Reopen, AnimationDidFinish
<1>5. SaveProfileInfo => edits' = edits
  BY DEF SaveProfileInfo
<1>6. CASE UNCHANGED vars
  BY <1>6 DEF vars
<1>7. QED
  BY <1>1, <1>2, <1>3, <1>4, <1>5, <1>6 DEF Next

\* No step brings a duplicate into a list, stored or read.
LEMMA NextSetInv == SetInv /\ [Next]_vars => SetInv'
<1> SUFFICES ASSUME SetInv, [Next]_vars PROVE BlockListSet' /\ EditsSound'
  BY NextTypeOK DEF SetInv
<1> USE DEF store, feed, listing, history
<1>1. ASSUME NEW e \in edits, ReadEdit(e) PROVE BlockListSet' /\ EditsSound'
  <2>1. e \in EditCall
    BY DEF SetInv, TypeOK
  <2>2. [e EXCEPT !.snap = blockList].snap = blockList
    BY <2>1 DEF EditCall
  <2>3. QED
    BY <1>1, <2>2 DEF ReadEdit, SetInv, BlockListSet, EditsSound
<1>2. ASSUME NEW e \in edits, WriteEdit(e) PROVE BlockListSet' /\ EditsSound'
  BY <1>2, NewBlockListSet DEF WriteEdit, SetInv, BlockListSet, EditsSound
<1>3. SaveProfileInfo => BlockListSet'
  BY DEF SaveProfileInfo, BlockListSet, IsInjective
<1>4. QED
  BY <1>1, <1>2, <1>3, WhoEdits DEF SetInv, BlockListSet, EditsSound

\* addToBlocklist: nobody is in the block list twice, however edits overlap.
THEOREM NobodyBlockedTwice == Spec => []BlockListSet
<1>1. Init => SetInv
  <2>1. Init => IsInjective(blockList) /\ edits = {}
    BY DEF Init, IsInjective
  <2>2. QED
    BY <2>1, InitTypeOK DEF SetInv, BlockListSet, EditsSound
<1>2. SetInv /\ [Next]_vars => SetInv'
  BY NextSetInv
<1>3. SetInv => BlockListSet
  BY DEF SetInv
<1>4. QED
  BY <1>1, <1>2, <1>3, PTL DEF Spec

-----------------------------------------------------------------------------
(* The feed.  A fetch that nothing has outdated has read what is stored    *)
(* now.                                                                    *)

FetchesSound ==
    \A c \in fetches : c.fresh /\ c.stage = "plays" => c.blocked = ToSet(blockList)

FeedInv == TypeOK /\ FetchesSound /\ FeedShowsVisible

\* After a change of the store nothing is claimed of what was read or shown.
LEMMA OutdatedSound ==
    ASSUME TypeOK, Outdated
    PROVE  FetchesSound' /\ FeedShowsVisible'
<1>1. ASSUME NEW c \in fetches PROVE [c EXCEPT !.fresh = FALSE].fresh = FALSE
  BY DEF TypeOK, FetchCall
<1>2. \A c \in fetches' : c.fresh = FALSE
  BY <1>1 DEF Outdated
<1>3. QED
  BY <1>2 DEF Outdated, FetchesSound, FeedShowsVisible

\* Steps that leave the store and the page and start new fetches only.
LEMMA FeedUntouched ==
    ASSUME FeedInv, UNCHANGED <<store, publicPlays, waiting, current>>,
           \A c \in fetches' : c \in fetches \/ c.stage = "user"
    PROVE  FetchesSound' /\ FeedShowsVisible'
<1>1. FetchesSound'
  BY DEF FeedInv, FetchesSound, store
<1>2. FeedShowsVisible'
  BY DEF FeedInv, FeedShowsVisible, Visible, store
<1>3. QED
  BY <1>1, <1>2

\* Every step keeps what is shown up to date, or says that it is not.
LEMMA NextFeedInv == FeedInv /\ [Next]_vars => FeedInv'
<1> SUFFICES ASSUME FeedInv, [Next]_vars
             PROVE  FetchesSound' /\ FeedShowsVisible'
  BY NextTypeOK DEF FeedInv
<1> USE DEF store, feed, listing, history
<1>1. ASSUME NEW p \in Plays, SavePlay(p) \/ Passes(p)
      PROVE  FetchesSound' /\ FeedShowsVisible'
  BY <1>1, OutdatedSound DEF SavePlay, Passes, FeedInv
<1>2. ASSUME Tap PROVE FetchesSound' /\ FeedShowsVisible'
  <2>1. ASSUME NEW n PROVE NewFetch(n).stage = "user"
    BY DEF NewFetch
  <2>2. Fetch => \A c \in fetches' : c \in fetches \/ c.stage = "user"
    BY <2>1 DEF Fetch
  <2>3. QED
    BY <1>2, <2>2, FeedUntouched
       DEF Tap, GetPublishPlay, BlockAction, OpenBlockList, Close, DeleteRow
<1>3. ASSUME NEW c \in fetches, AnswerUser(c)
      PROVE  FetchesSound' /\ FeedShowsVisible'
  <2>1. c \in FetchCall
    BY DEF FeedInv, TypeOK
  <2>2. [c EXCEPT !.stage = "plays", !.blocked = ToSet(blockList)].blocked
          = ToSet(blockList)
    BY <2>1 DEF FetchCall
  <2>3. FetchesSound'
    BY <1>3, <2>2 DEF AnswerUser, FeedInv, FetchesSound
  <2>4. FeedShowsVisible'
    BY <1>3 DEF AnswerUser, FeedInv, FeedShowsVisible, Visible
  <2>5. QED
    BY <2>3, <2>4
<1>4. ASSUME NEW c \in fetches, AnswerPlays(c)
      PROVE  FetchesSound' /\ FeedShowsVisible'
  <2>1. c.fresh => Found(c) = Visible
    BY <1>4 DEF AnswerPlays, FeedInv, FetchesSound, Found, Visible
  <2>2. Visible' = Visible
    BY <1>4 DEF AnswerPlays, Visible
  <2>3. FeedShowsVisible'
    BY <1>4, <2>1, <2>2 DEF AnswerPlays, FeedShowsVisible
  <2>4. FetchesSound'
    BY <1>4 DEF AnswerPlays, FeedInv, FetchesSound
  <2>5. QED
    BY <2>3, <2>4
<1>5. ASSUME NEW e \in edits, WriteEdit(e)
      PROVE  FetchesSound' /\ FeedShowsVisible'
  <2>1. CASE HasNothingToDo(e)
    BY <1>5, <2>1, FeedUntouched DEF WriteEdit
  <2>2. CASE ~HasNothingToDo(e)
    BY <1>5, <2>2, OutdatedSound DEF WriteEdit, FeedInv
  <2>3. QED
    BY <2>1, <2>2
<1>6. ASSUME \/ \E e \in edits : ReadEdit(e)
             \/ AnswerList \/ \E u \in Users : AnswerBlocked(u)
             \/ \E c \in fetches : LoseFetch(c)
             \/ \E e \in edits : LoseEdit(e)
             \/ LoseJoin \/ AnimationDidFinish
      PROVE  FetchesSound' /\ FeedShowsVisible'
  BY <1>6, FeedUntouched
     DEF ReadEdit, AnswerList, AnswerBlocked, LoseFetch, LoseEdit, LoseJoin,
         AnimationDidFinish
<1>7. CASE Reopen \/ SaveProfileInfo
  <2>1. NewFetch(1).stage = "user"
    BY DEF NewFetch
  <2>2. fetches' = {NewFetch(1)} /\ current' = FALSE
    BY <1>7 DEF Reopen, SaveProfileInfo, StartsAnew
  <2>3. QED
    BY <2>1, <2>2 DEF FetchesSound, FeedShowsVisible
<1>8. CASE UNCHANGED vars
  BY <1>8, FeedUntouched DEF vars
<1>9. QED
  BY <1>1, <1>2, <1>3, <1>4, <1>5, <1>6, <1>7, <1>8 DEF Next, Answer

\* getPublishPlay: however fetches overtake each other, a feed whose last answer
\* was asked for after the last change shows the plays there are.
THEOREM FeedIsUpToDate == Spec => []FeedShowsVisible
<1>1. Init => FeedInv
  <2>1. Init => FetchesSound
    BY DEF Init, FetchesSound, NewFetch
  <2>2. Init => FeedShowsVisible
    BY DEF Init, FeedShowsVisible
  <2>3. QED
    BY <2>1, <2>2, InitTypeOK DEF FeedInv
<1>2. FeedInv /\ [Next]_vars => FeedInv'
  BY NextFeedInv
<1>3. FeedInv => FeedShowsVisible
  BY DEF FeedInv
<1>4. QED
  BY <1>1, <1>2, <1>3, PTL DEF Spec

-----------------------------------------------------------------------------
(* The ledger.  While nothing is tangled at most one edit is in flight,    *)
(* what it has read is what is stored, and no page reads at that time.     *)

\* What the list will hold after edit e.
After(e) == IF e.do = "add" THEN ToSet(blockList) \cup {e.user}
            ELSE ToSet(blockList) \ {e.user}

OneEdit ==
    \/ edits = {} /\ decided = ToSet(blockList)
    \/ \E e \in edits : /\ edits = {e}
                        /\ e.snap \in {Unread, blockList}
                        /\ decided = After(e)

JoinSound == Joining => /\ edits = {}
                        /\ join.got \subseteq ToSet(join.ids)
                        /\ join.stage = "users" => join.ids = blockList
                        /\ join.stage = "list" => join.got = {}

LedgerInv ==
    /\ SetInv
    /\ ~tangled => OneEdit /\ JoinSound /\ blockUsers \subseteq decided

\* What LedgerInv says while nothing is tangled.
Ledger == OneEdit /\ JoinSound /\ blockUsers \subseteq decided

\* Steps that leave the list, its edits and the page alone.
LEMMA LedgerUntouched ==
    ASSUME Ledger, UNCHANGED <<blockList, edits, decided, join, blockUsers>>
    PROVE  Ledger'
BY DEF Ledger, OneEdit, After, JoinSound, Joining

\* A tap: an edit that starts while nothing else is under way is the only one.
LEMMA TapLedger ==
    ASSUME TypeOK, ~tangled => Ledger, Tap, ~tangled'
    PROVE  Ledger'
<1> USE DEF store, feed, listing, history
<1>1. CASE GetPublishPlay
  BY <1>1, LedgerUntouched DEF GetPublishPlay
<1>2. ASSUME NEW u \in Users, BlockAction(u) PROVE Ledger'
  <2>1. ~tangled /\ edits = {} /\ ~Joining
    BY <1>2 DEF BlockAction, Tangles, TypeOK
  <2>2. PICK n : edits' = {[n |-> n, do |-> "add", user |-> u, snap |-> Unread]}
    BY <1>2, <2>1 DEF BlockAction, Edit
  <2>3. decided = ToSet(blockList) /\ blockUsers \subseteq decided
    BY <2>1 DEF Ledger, OneEdit
  <2>4. OneEdit'
    BY <1>2, <2>2, <2>3 DEF BlockAction, OneEdit, After
  <2>5. QED
    BY <1>2, <2>1, <2>3, <2>4 DEF BlockAction, Ledger, JoinSound, Joining
<1>3. CASE OpenBlockList
  <2>1. ~tangled /\ edits = {}
    BY <1>3 DEF OpenBlockList, Tangles, TypeOK
  <2>2. OneEdit' /\ edits' = {}
    BY <1>3, <2>1 DEF OpenBlockList, Ledger, OneEdit, After
  <2>3. join' = [stage |-> "list", ids |-> <<>>, got |-> {}]
    BY <1>3 DEF OpenBlockList, NoJoin
  <2>4. QED
    BY <1>3, <2>2, <2>3 DEF OpenBlockList, Ledger, JoinSound, Joining
<1>4. CASE Close
  <2>1. ~tangled
    BY <1>4 DEF Close
  <2>2. OneEdit'
    BY <1>4, <2>1 DEF Close, Ledger, OneEdit, After
  <2>3. ~Joining' /\ blockUsers' = {}
    BY <1>4 DEF Close, NoJoin, Joining
  <2>4. QED
    BY <2>2, <2>3 DEF Ledger, JoinSound
<1>5. ASSUME NEW u \in Users, DeleteRow(u) PROVE Ledger'
  <2>1. ~tangled /\ edits = {} /\ ~Joining
    BY <1>5 DEF DeleteRow, Tangles, TypeOK
  <2>2. PICK n :
          edits' = {[n |-> n, do |-> "remove", user |-> u, snap |-> Unread]}
    BY <1>5, <2>1 DEF DeleteRow, Edit
  <2>3. decided = ToSet(blockList) /\ blockUsers \subseteq decided
    BY <2>1 DEF Ledger, OneEdit
  <2>4. OneEdit'
    BY <1>5, <2>2, <2>3 DEF DeleteRow, OneEdit, After
  <2>5. QED
    BY <1>5, <2>1, <2>3, <2>4 DEF DeleteRow, Ledger, JoinSound, Joining
<1>6. QED
  BY <1>1, <1>2, <1>3, <1>4, <1>5 DEF Tap

\* An edit that has read what is stored writes what was decided.
LEMMA WriteLedger ==
    ASSUME SetInv, Ledger, NEW e \in edits, WriteEdit(e)
    PROVE  Ledger'
<1>1. edits = {e} /\ e.snap = blockList /\ decided = After(e)
  BY DEF Ledger, OneEdit, WriteEdit
<1>2. e.user \in Users /\ e.do \in {"add", "remove"} /\ blockList \in Seq(Users)
  BY DEF SetInv, TypeOK, EditCall
<1>3. ToSet(blockList)' = decided
  <2>1. CASE HasNothingToDo(e)
    <3>1. blockList' = blockList
      BY <2>1 DEF WriteEdit
    <3>2. e.user \in ToSet(blockList) <=> e.do = "add"
      BY <1>1, <1>2, <2>1 DEF HasNothingToDo, Contains, ToSet
    <3>3. QED
      BY <1>1, <3>1, <3>2 DEF After
  <2>2. CASE ~HasNothingToDo(e)
    <3>1. blockList' = NewBlockList(e)
      BY <2>2 DEF WriteEdit
    <3>2. CASE e.do = "add"
      BY <1>1, <1>2, <3>1, <3>2, AppendingSet DEF NewBlockList, After
    <3>3. CASE e.do = "remove"
      BY <1>1, <1>2, <3>1, <3>3, RemovingSet
         DEF NewBlockList, After, SetInv, BlockListSet
    <3>4. QED
      BY <1>2, <3>2, <3>3
  <2>3. QED
    BY <2>1, <2>2
<1>4. edits' = {} /\ UNCHANGED <<decided, blockUsers, join>>
  BY <1>1 DEF WriteEdit, history, listing
<1>5. ~Joining
  BY <1>1 DEF Ledger, JoinSound
<1>6. QED
  BY <1>3, <1>4, <1>5 DEF Ledger, OneEdit, JoinSound, Joining

\* The page gets whom the list holds, which are those decided.
LEMMA JoinLedger ==
    ASSUME TypeOK, Ledger, AnswerList \/ \E u \in Users : AnswerBlocked(u)
    PROVE  Ledger'
<1> USE DEF store, feed, listing, history
<1>1. Joining /\ edits = {} /\ decided = ToSet(blockList)
  BY DEF AnswerList, AnswerBlocked, Joining, Ledger, JoinSound, OneEdit
<1>2. UNCHANGED <<blockList, edits, decided>>
  BY DEF AnswerList, AnswerBlocked
<1>3. OneEdit'
  BY <1>1, <1>2 DEF OneEdit
<1>4. CASE AnswerList
  <2>1. CASE blockList = <<>>
    BY <1>1, <1>2, <1>3, <1>4, <2>1
       DEF AnswerList, DidGet, NoJoin, Ledger, JoinSound, Joining
  <2>2. CASE blockList # <<>>
    BY <1>1, <1>2, <1>3, <1>4, <2>2 DEF AnswerList, Ledger, JoinSound, Joining
  <2>3. QED
    BY <2>1, <2>2
<1>5. ASSUME NEW u \in Users, AnswerBlocked(u) PROVE Ledger'
  <2> DEFINE got == join.got \cup {u}
  <2>1. got \subseteq ToSet(blockList) /\ join.ids = blockList
    BY <1>1, <1>5 DEF AnswerBlocked, Ledger, JoinSound
  <2>2. CASE Cardinality(got) = Len(join.ids)
    BY <1>1, <1>2, <1>3, <1>5, <2>1, <2>2
       DEF AnswerBlocked, DidGet, NoJoin, Ledger, JoinSound, Joining
  <2>3. CASE Cardinality(got) # Len(join.ids)
    <3>1. join' = [join EXCEPT !.got = got] /\ blockUsers' = blockUsers
      BY <1>5, <2>3 DEF AnswerBlocked
    <3>2. join'.stage = "users" /\ join'.ids = blockList /\ join'.got = got
      BY <1>5, <2>1, <3>1 DEF AnswerBlocked, TypeOK, Join
    <3>3. QED
      BY <1>1, <1>2, <1>3, <2>1, <3>1, <3>2 DEF Ledger, JoinSound, Joining
  <2>4. QED
    BY <2>2, <2>3
<1>6. QED
  BY <1>4, <1>5

\* Every step keeps the ledger, or tangles it.
LEMMA NextLedgerInv == LedgerInv /\ [Next]_vars => LedgerInv'
<1> SUFFICES ASSUME LedgerInv, [Next]_vars, ~tangled' PROVE Ledger'
  BY NextSetInv DEF LedgerInv, Ledger
<1> USE DEF store, feed, listing, history
<1>1. TypeOK /\ (~tangled => Ledger)
  BY DEF LedgerInv, SetInv, Ledger
<1>2. CASE Tap
  BY <1>1, <1>2, TapLedger
<1>3. ASSUME NEW e \in edits, ReadEdit(e) PROVE Ledger'
  <2>1. Ledger
    BY <1>1, <1>3 DEF ReadEdit
  <2>2. edits = {e} /\ decided = After(e)
    BY <2>1 DEF Ledger, OneEdit
  <2>3. PICK f : f = [e EXCEPT !.snap = blockList]
    OBVIOUS
  <2>4. f.do = e.do /\ f.user = e.user /\ f.snap = blockList
    BY <1>1, <2>3 DEF TypeOK, EditCall
  <2>5. edits' = {f} /\ UNCHANGED <<blockList, decided, join, blockUsers>>
    BY <1>3, <2>2, <2>3 DEF ReadEdit
  <2>6. OneEdit'
    BY <2>2, <2>4, <2>5 DEF OneEdit, After
  <2>7. ~Joining
    BY <2>1, <2>2 DEF Ledger, JoinSound
  <2>8. QED
    BY <2>1, <2>5, <2>6, <2>7 DEF Ledger, JoinSound, Joining
<1>4. ASSUME NEW e \in edits, WriteEdit(e) PROVE Ledger'
  BY <1>1, <1>4, WriteLedger DEF WriteEdit, LedgerInv
<1>5. CASE AnswerList \/ \E u \in Users : AnswerBlocked(u)
  BY <1>1, <1>5, JoinLedger DEF AnswerList, AnswerBlocked
<1>6. CASE LoseJoin
  <2>1. ~tangled /\ ~Joining' /\ UNCHANGED <<blockList, edits, decided, blockUsers>>
    BY <1>6 DEF LoseJoin, NoJoin, Joining
  <2>2. QED
    BY <1>1, <2>1 DEF Ledger, OneEdit, After, JoinSound
<1>7. CASE Reopen \/ SaveProfileInfo
  <2>1. ~tangled /\ edits = {}
    BY <1>7, <1>1 DEF Reopen, SaveProfileInfo, TypeOK
  <2>2. ~Joining' /\ blockUsers' = {}
    BY <1>7 DEF Reopen, SaveProfileInfo, StartsAnew, NoJoin, Joining
  <2>3. edits' = {} /\ ToSet(blockList)' = decided'
    <3>1. CASE Reopen
      BY <1>1, <2>1, <3>1 DEF Reopen, Ledger, OneEdit
    <3>2. CASE SaveProfileInfo
      BY <2>1, <3>2 DEF SaveProfileInfo, ToSet
    <3>3. QED
      BY <1>7, <3>1, <3>2
  <2>4. QED
    BY <2>2, <2>3 DEF Ledger, OneEdit, JoinSound
<1>8. ASSUME \/ \E p \in Plays : SavePlay(p) \/ Passes(p)
             \/ \E c \in fetches : AnswerUser(c) \/ AnswerPlays(c) \/ LoseFetch(c)
             \/ AnimationDidFinish \/ UNCHANGED vars
      PROVE  Ledger'
  <2>1. UNCHANGED <<blockList, edits, decided, join, blockUsers, tangled>>
    BY <1>8 DEF SavePlay, Passes, AnswerUser, AnswerPlays, LoseFetch,
                AnimationDidFinish, vars
  <2>2. QED
    BY <1>1, <2>1, LedgerUntouched
<1>9. ASSUME NEW e \in edits, LoseEdit(e) PROVE FALSE
  BY <1>9 DEF LoseEdit
<1>10. QED
  BY <1>2, <1>3, <1>4, <1>5, <1>6, <1>7, <1>8, <1>9 DEF Next, Answer

\* addToBlocklist, removeFromBlocklist: edits that do not overlap do what was
\* decided, whatever else is under way, and the page shows only the blocked.
THEOREM LedgerIsKept == Spec => []BlockLedger
<1>1. Init => LedgerInv
  <2>1. Init => IsInjective(blockList) /\ edits = {} /\ decided = ToSet(blockList)
                /\ blockUsers = {} /\ ~Joining
    BY DEF Init, IsInjective, ToSet, Joining, NoJoin
  <2>2. QED
    BY <2>1, InitTypeOK
       DEF LedgerInv, SetInv, BlockListSet, EditsSound, OneEdit, JoinSound
<1>2. LedgerInv /\ [Next]_vars => LedgerInv'
  BY NextLedgerInv
<1>3. LedgerInv => BlockLedger
  BY DEF LedgerInv, OneEdit, BlockLedger
<1>4. QED
  BY <1>1, <1>2, <1>3, PTL DEF Spec

-----------------------------------------------------------------------------
(* The loading HUD of the page.  The join that will take it down ends when *)
(* as many users were read as the list has places, so the list must not    *)
(* name anybody twice.                                                     *)

\* A user of the list is still to be read.
JoinWaits ==
    join.stage = "users" => /\ IsInjective(join.ids)
                            /\ join.got \subseteq ToSet(join.ids)
                            /\ join.got # ToSet(join.ids)

\* The HUD is up, or will be, and nobody has dismissed it.
Loading == hud \in {"coming", "up"}

\* The page has asked for its list, or was left.
PageAsked == Loading => join.stage # "none" \/ left

HudInv == SetInv /\ JoinWaits /\ PageAsked

\* BlockListViewController: the join that the loading HUD waits for is under way
\* and has an answer to come, or has failed, unless the page was left meanwhile.
HudIsAwaited ==
    Loading => \/ join.stage \in {"list", "failed"}
               \/ join.stage = "users" /\ ToSet(join.ids) \ join.got # {}
               \/ left

\* A list without duplicates has as many elements as places.
LEMMA DistinctElements ==
    ASSUME NEW S, NEW s \in Seq(S), IsInjective(s)
    PROVE  Cardinality(ToSet(s)) = Len(s)
<1>1. Len(s) \in Nat /\ DOMAIN s = 1..Len(s)
  OBVIOUS
<1>2. IsFiniteSet(1..Len(s)) /\ Cardinality(1..Len(s)) = Len(s)
  <2>1. ASSUME NEW n, n \in Nat PROVE IsFiniteSet(1..n) /\ Cardinality(1..n) = n
    <3>1. /\ IsFiniteSet(1..n)
          /\ Cardinality(1..n) = IF 1 > n THEN 0 ELSE (n - 1) + 1
      BY ONLY <2>1, FS_Interval
    <3>2. QED
      BY ONLY <2>1, <3>1
  <2>2. QED
    BY ONLY <1>1, <2>1
<1>3. s \in [1..Len(s) -> ToSet(s)] /\ \A e \in ToSet(s) : \E i \in 1..Len(s) : s[i] = e
  BY <1>1 DEF ToSet
<1>4. IsInjective(s)
  OBVIOUS
<1>5. s \in Surjection(1..Len(s), ToSet(s)) /\ s \in Injection(1..Len(s), ToSet(s))
  BY ONLY <1>3, <1>4 DEF Surjection, Injection
<1>6. QED
  BY <1>2, <1>5, FS_Surjection

\* An answer to the join leaves one to come, or takes the HUD down.
LEMMA AnswerJoin ==
    ASSUME HudInv, AnswerList \/ \E u \in Users : AnswerBlocked(u)
    PROVE  JoinWaits' /\ PageAsked'
<1>0. Dismiss => ~Loading'
  BY DEF Dismiss, Dismissed, Loading
<1>1. CASE AnswerList
  <2>1. CASE blockList = <<>>
    <3>1. join'.stage = "none" /\ ~Loading'
      BY <1>0, <1>1, <2>1 DEF AnswerList, DidGet, NoJoin
    <3>2. QED
      BY <3>1 DEF JoinWaits, PageAsked
  <2>2. CASE blockList # <<>>
    <3>1. PICK j : j = [stage |-> "users", ids |-> blockList, got |-> {}]
      OBVIOUS
    <3>2. j.stage = "users" /\ j.ids = blockList /\ j.got = {} /\ join' = j
      BY <1>1, <2>2, <3>1 DEF AnswerList
    <3>3. blockList \in Seq(Users) /\ IsInjective(blockList)
      BY DEF HudInv, SetInv, TypeOK, BlockListSet
    <3>4. 1 \in DOMAIN blockList
      BY <2>2, <3>3
    <3>5. blockList[1] \in ToSet(blockList)
      BY <3>4 DEF ToSet
    <3>6. QED
      BY <3>2, <3>3, <3>5 DEF JoinWaits, PageAsked
  <2>3. QED
    BY <2>1, <2>2
<1>2. ASSUME NEW u \in Users, AnswerBlocked(u)
      PROVE  JoinWaits' /\ PageAsked'
  <2> DEFINE got == join.got \cup {u}
  <2>1. /\ join.stage = "users" /\ join.ids \in Seq(Users) /\ IsInjective(join.ids)
        /\ got \subseteq ToSet(join.ids)
    BY <1>2 DEF AnswerBlocked, HudInv, SetInv, TypeOK, Join, JoinWaits
  <2>2. CASE Cardinality(got) = Len(join.ids)
    <3>1. join'.stage = "none" /\ ~Loading'
      BY <1>0, <1>2, <2>2 DEF AnswerBlocked, DidGet, NoJoin
    <3>2. QED
      BY <3>1 DEF JoinWaits, PageAsked
  <2>3. CASE Cardinality(got) # Len(join.ids)
    <3>1. got # ToSet(join.ids)
      BY <2>1, <2>3, DistinctElements
    <3>2. join' = [join EXCEPT !.got = got]
      BY <1>2, <2>3 DEF AnswerBlocked
    <3>3. join'.stage = "users" /\ join'.ids = join.ids /\ join'.got = got
      BY <2>1, <3>2 DEF HudInv, SetInv, TypeOK, Join
    <3>4. QED
      BY <2>1, <3>1, <3>3 DEF JoinWaits, PageAsked
  <2>4. QED
    BY <2>2, <2>3
<1>3. QED
  BY <1>1, <1>2

\* So does every other step, with or without the page.
LEMMA NextHudInv == HudInv /\ [Next]_vars => HudInv'
<1> SUFFICES ASSUME HudInv, [Next]_vars PROVE JoinWaits' /\ PageAsked'
  BY NextSetInv DEF HudInv
<1> USE DEF store, feed, listing, history
<1>1. CASE AnswerList \/ \E u \in Users : AnswerBlocked(u)
  BY <1>1, AnswerJoin
<1>2. CASE UNCHANGED <<join, left>> /\ (Loading' => Loading)
  BY <1>2 DEF HudInv, JoinWaits, PageAsked
<1>3. CASE join'.stage \in {"list", "failed"}
  BY <1>3 DEF JoinWaits, PageAsked
<1>4. CASE join'.stage = "none" /\ (Loading' => left')
  BY <1>4 DEF JoinWaits, PageAsked
<1>5. ASSUME Tap
      PROVE  \/ UNCHANGED <<join, left, hud>>
             \/ join'.stage = "list"
             \/ join'.stage = "none" /\ (Loading' => left')
  <2>1. GetPublishPlay \/ (\E u \in Users : BlockAction(u) \/ DeleteRow(u)) =>
          UNCHANGED <<join, left, hud>>
    BY DEF GetPublishPlay, BlockAction, DeleteRow
  <2>2. OpenBlockList => join'.stage = "list"
    BY DEF OpenBlockList, NoJoin
  <2>3. Close => join'.stage = "none" /\ (Loading' => left')
    <3>1. ASSUME Close
          PROVE  /\ join'.stage = "none" /\ hud' = hud
                 /\ left' = (left \/ join.stage # "none")
      BY <3>1 DEF Close, NoJoin
    <3>2. left \/ join.stage # "none" \/ ~Loading
      BY DEF HudInv, PageAsked
    <3>3. QED
      BY <3>1, <3>2 DEF Loading
  <2>4. QED
    BY <1>5, <2>1, <2>2, <2>3 DEF Tap
<1>6. ASSUME NEW e \in edits, ReadEdit(e) \/ WriteEdit(e) \/ LoseEdit(e)
      PROVE  UNCHANGED <<join, left>> /\ (Loading' => Loading)
  <2>1. hud' = hud \/ hud' = Dismissed => (Loading' => Loading)
    BY DEF Loading, Dismissed
  <2>2. ReadEdit(e) => UNCHANGED <<join, left, hud>>
    BY DEF ReadEdit
  <2>3. WriteEdit(e) => UNCHANGED <<join, left>> /\ (hud' = hud \/ hud' = Dismissed)
    BY DEF WriteEdit
  <2>4. LoseEdit(e) => UNCHANGED <<join, left>> /\ (hud' = hud \/ hud' = Dismissed)
    BY DEF LoseEdit
  <2>5. QED
    BY <1>6, <2>1, <2>2, <2>3, <2>4
<1>7. ASSUME \/ \E p \in Plays : SavePlay(p) \/ Passes(p)
             \/ \E c \in fetches : AnswerUser(c) \/ AnswerPlays(c) \/ LoseFetch(c)
             \/ UNCHANGED vars
      PROVE  UNCHANGED <<join, left, hud>>
  BY <1>7 DEF SavePlay, Passes, AnswerUser, AnswerPlays, LoseFetch, vars
<1>8. AnimationDidFinish => UNCHANGED <<join, left>> /\ (Loading' => Loading)
  BY DEF AnimationDidFinish, Loading
<1>9. LoseJoin => join'.stage = "failed"
  BY DEF LoseJoin, NoJoin
<1>10. Reopen \/ SaveProfileInfo => join'.stage = "none" /\ ~Loading'
  BY DEF Reopen, SaveProfileInfo, StartsAnew, NoJoin, Loading
<1>11. UNCHANGED hud => (Loading' => Loading)
  BY DEF Loading
<1>12. QED
  BY <1>1, <1>2, <1>3, <1>4, <1>5, <1>6, <1>7, <1>8, <1>9, <1>10, <1>11
     DEF Next, Answer

\* getBlockList, addToBlocklist: because nobody is blocked twice, the join of a
\* page whose HUD is up, and that was not left, never waits for an answer that
\* was given already.
THEOREM HudAlwaysAwaited == Spec => []HudIsAwaited
<1>1. Init => HudInv
  <2>1. Init => /\ IsInjective(blockList) /\ edits = {}
                /\ join.stage = "none" /\ ~Loading
    BY DEF Init, IsInjective, NoJoin, Loading
  <2>2. QED
    BY <2>1, InitTypeOK
       DEF HudInv, SetInv, BlockListSet, EditsSound, JoinWaits, PageAsked
<1>2. HudInv => HudIsAwaited
  <2> SUFFICES ASSUME HudInv, Loading, ~left PROVE HudIsAwaited
    BY DEF HudIsAwaited
  <2>1. join.stage \in {"list", "users", "failed"}
    BY DEF HudInv, SetInv, TypeOK, Join, PageAsked
  <2>2. QED
    BY <2>1 DEF HudInv, JoinWaits, HudIsAwaited
<1>3. QED
  BY <1>1, <1>2, NextHudInv, PTL DEF Spec
=============================================================================
