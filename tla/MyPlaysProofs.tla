--------------------------- MODULE MyPlaysProofs ----------------------------
(***************************************************************************)
(* Theorems about modules Hud and MyPlays, for any plays, any list, any    *)
(* bounds, any interleaving of taps, answers, animations and timers.       *)
(***************************************************************************)
EXTENDS MyPlays, ListLemmas

-----------------------------------------------------------------------------
(* The HUD.                                                                *)

\* A HUD that is in no view does not move, and a dismissal is put off only
\* while it moves.
HudSound ==
    /\ ~targetView => animation = "none"
    /\ animation = "none" => dismissAfter = "no"

HudInv == HudTypeOK /\ HudSound

\* Somebody or something will take the HUD down, of the HUD's own accord.
Going == timers > 0 \/ animation = "hide" \/ dismissAfter # "no"

\* All that is done to the HUD.
HudStep ==
    \/ Show \/ ShowNotice \/ Dismiss
    \/ AnimationDidFinish \/ TimerFires
    \/ UNCHANGED hud

\* A dismissal, whichever, keeps the HUD sound.
LEMMA DismissSound ==
    ASSUME HudInv, NEW how \in {"plain", "animated"}, DismissAnimated(how)
    PROVE  /\ targetView' \in BOOLEAN
           /\ animation' \in {"none", "show", "hide"}
           /\ dismissAfter' \in {"no", "plain", "animated"}
           /\ HudSound'
           /\ ~targetView' \/ animation' = "hide" \/ dismissAfter' # "no"
<1>1. CASE animation # "none"
  BY <1>1 DEF HudInv, HudTypeOK, HudSound, DismissAnimated
<1>2. CASE animation = "none" /\ ~targetView
  BY <1>2 DEF HudInv, HudTypeOK, HudSound, DismissAnimated
<1>3. CASE animation = "none" /\ targetView /\ how = "plain"
  BY <1>3 DEF HudInv, HudTypeOK, HudSound, DismissAnimated, CleanUpAfterDismissal
<1>4. CASE animation = "none" /\ targetView /\ how = "animated"
  BY <1>4 DEF HudInv, HudTypeOK, HudSound, DismissAnimated
<1>5. QED
  BY <1>1, <1>2, <1>3, <1>4 DEF HudInv, HudTypeOK

\* Whatever is done to the HUD keeps it sound.
LEMMA NextHudInv == HudInv /\ HudStep => HudInv'
<1> SUFFICES ASSUME HudInv, HudStep PROVE HudInv'
  OBVIOUS
<1>1. ShowInView => /\ targetView' \in BOOLEAN /\ HudSound'
                    /\ animation' \in {"none", "show", "hide"}
                    /\ dismissAfter' \in {"no", "plain", "animated"}
  BY DEF HudInv, HudTypeOK, HudSound, ShowInView
<1>2. CASE Show
  BY <1>1, <1>2 DEF Show, HudInv, HudTypeOK
<1>3. CASE ShowNotice
  <2>1. timers' \in 0..MaxTimers
    BY <1>3, HudAssumption DEF ShowNotice, HudInv, HudTypeOK
  <2>2. QED
    BY <1>1, <1>3, <2>1 DEF ShowNotice, HudInv, HudTypeOK
<1>4. CASE Dismiss
  BY <1>4, DismissSound DEF Dismiss, HudInv, HudTypeOK
<1>5. CASE AnimationDidFinish
  <2>1. /\ targetView' \in BOOLEAN /\ HudSound'
        /\ animation' \in {"none", "show", "hide"} /\ dismissAfter' = "no"
    <3>1. CASE animation = "show" /\ CleanUpAfterPresentation
      BY <3>1 DEF CleanUpAfterPresentation, HudInv, HudTypeOK, HudSound
    <3>2. CASE animation = "hide" /\ CleanUpAfterDismissal
      BY <3>2 DEF CleanUpAfterDismissal, HudSound
    <3>3. QED
      BY <1>5, <3>1, <3>2 DEF AnimationDidFinish
  <2>2. QED
    BY <1>5, <2>1 DEF AnimationDidFinish, HudInv, HudTypeOK
<1>6. CASE TimerFires
  <2>1. timers' \in 0..MaxTimers
    BY <1>6, HudAssumption DEF TimerFires, HudInv, HudTypeOK
  <2>2. CASE targetView
    <3>1. DismissAnimated("animated")
      BY <1>6, <2>2 DEF TimerFires
    <3>2. QED
      BY <2>1, <3>1, DismissSound DEF HudInv, HudTypeOK
  <2>3. CASE ~targetView
    BY <1>6, <2>1, <2>3 DEF TimerFires, HudInv, HudTypeOK, HudSound
  <2>4. QED
    BY <2>2, <2>3
<1>7. CASE UNCHANGED hud
  BY <1>7 DEF hud, HudInv, HudTypeOK, HudSound
<1>8. QED
  BY <1>2, <1>3, <1>4, <1>5, <1>6, <1>7 DEF HudStep

\* A notice goes by its timer, and what is dismissed goes at once or later.
LEMMA WillGo ==
    ASSUME HudInv, targetView'
    PROVE  ShowNotice \/ Dismiss => Going'
<1>1. ShowNotice => Going'
  BY DEF ShowNotice, HudInv, HudTypeOK, Going
<1>2. Dismiss => Going'
  BY DismissSound DEF Dismiss, Going
<1>3. QED
  BY <1>1, <1>2

\* Nothing but the HUD's going undoes what will make it go.
LEMMA GoingStep ==
    ASSUME HudInv, HudStep, targetView', Going
    PROVE  Going'
<1>1. CASE Show
  BY <1>1 DEF Show, ShowInView, Going, HudInv, HudTypeOK, HudSound
<1>2. CASE ShowNotice \/ Dismiss
  BY <1>2, WillGo
<1>3. CASE AnimationDidFinish
  <2>1. CleanUpAfterPresentation /\ UNCHANGED timers /\ animation = "show"
    BY <1>3 DEF AnimationDidFinish, CleanUpAfterDismissal
  <2>2. QED
    BY <2>1 DEF CleanUpAfterPresentation, Going, HudInv, HudTypeOK
<1>4. CASE TimerFires
  <2>1. targetView /\ DismissAnimated("animated")
    BY <1>4 DEF TimerFires, HudInv, HudTypeOK
  <2>2. QED
    BY <2>1, DismissSound DEF Going
<1>5. CASE UNCHANGED hud
  BY <1>5 DEF hud, Going
<1>6. QED
  BY <1>1, <1>2, <1>3, <1>4, <1>5 DEF HudStep

\* Only what shows the HUD brings it up.
LEMMA WhoShows ==
    ASSUME HudInv, HudStep, targetView', ~targetView
    PROVE  Show \/ ShowNotice
<1>1. ~DismissAnimated("plain") /\ ~DismissAnimated("animated")
  BY DEF DismissAnimated, HudInv, HudSound
<1>2. ~AnimationDidFinish
  BY DEF AnimationDidFinish, HudInv, HudSound
<1>3. QED
  BY <1>1, <1>2 DEF HudStep, Dismiss, TimerFires, hud

\* Every step does to the HUD what the HUD can do.
LEMMA NextHudStep == [Next]_vars => HudStep
<1> SUFFICES ASSUME [Next]_vars PROVE HudStep
  OBVIOUS
<1> USE DEF hud
<1>1. CASE UNCHANGED vars
  BY <1>1 DEF vars, HudStep
<1>2. CASE Tap
  BY <1>2 DEF Tap, Open, OpenCompetitions, Refresh, Back, SelectRow, BackFromForm,
     AddData, DeletePost, HudStep
<1>3. ASSUME NEW f \in fetches, AnswerFetch(f) PROVE HudStep
  BY <1>3 DEF AnswerFetch, AnswerCompetitions, AnswerUser, AnswerPlay, DidGet, HudStep
<1>4. ASSUME NEW f \in fetches, FetchEnds(f) PROVE HudStep
  BY <1>4 DEF FetchEnds, HudStep
<1>5. ASSUME NEW u \in unlistings, Unlist(u) \/ LoseUnlisting(u) PROVE HudStep
  BY <1>5 DEF Unlist, LoseUnlisting, HudStep
<1>6. ASSUME NEW d \in deletes, Deleted(d) \/ DeleteFails(d) PROVE HudStep
  BY <1>6 DEF Deleted, DeleteFails, HudStep
<1>7. CASE OthersChange \/ Notice \/ HudMoves
  BY <1>7 DEF OthersChange, Notice, HudMoves, HudStep
<1>8. QED
  BY <1>1, <1>2, <1>3, <1>4, <1>5, <1>6, <1>7 DEF Next, Answer, AnswerMissing

-----------------------------------------------------------------------------
(* The HUD is never left up.                                               *)

UpInv == HudInv /\ NothingLeftUp

\* Fetches that are waited for: taps and answers add to them, and only an
\* answer to a fetch takes one away.
LEMMA Waiting ==
    ASSUME Next, fetches' = {}
    PROVE  \/ fetches = {}
           \/ \E f \in fetches : AnswerFetch(f) /\ Dismiss /\ Settled
           \/ \E f \in fetches : FetchEnds(f)
<1>0. (Outdated = {} \/ Left = {}) => fetches = {}
  <2>1. Outdated = {} => fetches = {}
    BY DEF Outdated
  <2>2. Left = {} => fetches = {}
    BY DEF Left
  <2>3. QED
    BY <2>1, <2>2
<1>1. ASSUME NEW f \in fetches, AnswerFetch(f) PROVE Dismiss
  BY <1>1 DEF AnswerFetch, AnswerCompetitions, AnswerUser, AnswerPlay, DidGet
<1>2. CASE Tap
  <2>1. ~ \E pg \in {"plays", "finders"} : Open(pg)
    BY DEF Open
  <2>2. ~OpenCompetitions /\ ~Refresh
    BY DEF OpenCompetitions, Refresh
  <2>3. ~BackFromForm /\ ~AddData
    BY DEF BackFromForm, AddData, PopToFinders
  <2>4. CASE Back \/ DeletePost
    BY <1>0, <2>4 DEF Back, DeletePost
  <2>5. CASE \E p \in Plays : SelectRow(p)
    BY <2>5 DEF SelectRow
  <2>6. QED
    BY <1>2, <2>1, <2>2, <2>3, <2>4, <2>5 DEF Tap
<1>3. ASSUME NEW u \in unlistings, Unlist(u) \/ LoseUnlisting(u) PROVE fetches = {}
  BY <1>0, <1>3 DEF Unlist, LoseUnlisting
<1>4. ASSUME NEW d \in deletes, Deleted(d) \/ DeleteFails(d) PROVE fetches = {}
  BY <1>0, <1>4 DEF Deleted, DeleteFails, PopToFinders
<1>5. CASE OthersChange \/ Notice \/ HudMoves
  BY <1>0, <1>5 DEF OthersChange, Notice, HudMoves
<1>6. CASE \E f \in fetches : AnswerFetch(f) /\ Settled
  BY <1>1, <1>6
<1>7. CASE \E f \in fetches : FetchEnds(f)
  BY <1>7
<1>8. Answer => \/ \E f \in fetches : AnswerFetch(f) /\ Settled
                \/ \E f \in fetches : FetchEnds(f)
  BY DEF Answer, AnswerMissing
<1>9. QED
  BY <1>2, <1>3, <1>4, <1>5, <1>6, <1>7, <1>8 DEF Next

\* A Loading comes with a fetch that will end it.
LEMMA LoadingIsAnswered ==
    ASSUME UpInv, Next, targetView', ~targetView
    PROVE  fetches' # {} \/ ShowNotice
<1>1. Tap /\ Show => fetches' # {}
  BY DEF Tap, Open, OpenCompetitions, Refresh, Back, SelectRow, BackFromForm,
     AddData, PopToFinders, DeletePost, Show, ShowInView, NewFetch, hud
<1>2. HudStep /\ HudInv
  BY NextHudStep DEF UpInv
<1>3. Show \/ ShowNotice
  BY <1>2, WhoShows
<1>4. UNCHANGED hud \/ Dismiss \/ AnimationDidFinish \/ TimerFires => ~targetView'
  BY DEF UpInv, HudInv, HudSound, hud, Dismiss, DismissAnimated,
     AnimationDidFinish, TimerFires
<1>5. Tap \/ ShowNotice
  <2>1. ASSUME NEW f \in fetches, AnswerFetch(f) PROVE UNCHANGED hud \/ Dismiss
    <3>1. AnswerCompetitions(f) \/ AnswerUser(f) => UNCHANGED hud \/ Dismiss
      BY DEF AnswerCompetitions, AnswerUser, DidGet
    <3>2. ASSUME NEW i \in Awaited(f), AnswerPlay(f, i)
          PROVE  UNCHANGED hud \/ Dismiss
      BY <3>2 DEF AnswerPlay, DidGet
    <3>3. QED
      BY <2>1, <3>1, <3>2 DEF AnswerFetch
  <2>2. ASSUME NEW f \in fetches, FetchEnds(f) PROVE UNCHANGED hud
    BY <2>2 DEF FetchEnds
  <2>3. ASSUME NEW u \in unlistings, Unlist(u) \/ LoseUnlisting(u)
        PROVE  UNCHANGED hud
    BY <2>3 DEF Unlist, LoseUnlisting
  <2>4. ASSUME NEW d \in deletes, Deleted(d) \/ DeleteFails(d) PROVE ShowNotice
    BY <2>4 DEF Deleted, DeleteFails
  <2>5. OthersChange \/ Notice \/ HudMoves =>
          UNCHANGED hud \/ ShowNotice \/ AnimationDidFinish \/ TimerFires
    BY DEF OthersChange, Notice, HudMoves
  <2>6. QED
    BY <1>4, <2>1, <2>2, <2>3, <2>4, <2>5 DEF Next, Answer, AnswerMissing
<1>6. QED
  BY <1>1, <1>3, <1>5

\* The HUD is not left up by any step.
LEMMA NextUpInv == UpInv /\ [Next]_vars => UpInv'
<1> SUFFICES ASSUME UpInv, [Next]_vars PROVE UpInv'
  OBVIOUS
<1>1. HudStep /\ HudInv /\ HudInv'
  BY NextHudStep, NextHudInv DEF UpInv
<1>2. CASE UNCHANGED vars
  BY <1>1, <1>2 DEF UpInv, vars, hud, history, NothingLeftUp, Expected
<1>3. CASE Next
  <2> SUFFICES ASSUME targetView', fetches' = {}, ~Going' PROVE forsaken'
    BY <1>1 DEF UpInv, NothingLeftUp, Expected, Going
  <2>1. ~Going /\ ~ShowNotice /\ ~Dismiss
    BY <1>1, GoingStep, WillGo
  <2>2. targetView
    BY <1>3, <2>1, LoadingIsAnswered
  <2>3. CASE \E f \in fetches : FetchEnds(f)
    BY <2>2, <2>3 DEF FetchEnds
  <2>4. CASE fetches = {}
    <3>1. forsaken
      BY <2>1, <2>2, <2>4 DEF UpInv, NothingLeftUp, Expected, Going
    <3>2. QED
      BY <1>3, <2>4, <3>1 DEF Next, Answer, Settled
  <2>5. QED
    BY <1>3, <2>1, <2>3, <2>4, Waiting
<1>4. QED
  BY <1>2, <1>3

\* The HUD, one for all pages, is never up with nobody to take it down, however
\* notices, loadings and timers overlap and whichever pages are left, unless an
\* answer has failed.
THEOREM NeverLeftUp == Spec => []NothingLeftUp
<1>1. Init => UpInv
  <2> SUFFICES ASSUME HudInit PROVE UpInv
    BY DEF Init
  <2>1. targetView \in BOOLEAN /\ ~targetView
    BY DEF HudInit
  <2>2. HudTypeOK
    BY <2>1, HudAssumption DEF HudInit, HudTypeOK
  <2>3. QED
    BY <2>1, <2>2 DEF HudInit, UpInv, HudInv, HudSound, NothingLeftUp
<1>2. UpInv => NothingLeftUp
  BY DEF UpInv
<1>3. QED
  BY <1>1, <1>2, NextUpInv, PTL DEF Spec

-----------------------------------------------------------------------------
(* Type correctness.                                                       *)

\* What the helpers make of fetches and deletions are fetches and deletions.
LEMMA HelpersTyped ==
    ASSUME TypeOK
    PROVE  /\ \A pg \in {"plays", "finders", "competitions"}, by \in {"tap", "delete"} :
                NewFetch(pg, by) \in FetchCall
           /\ Outdated \subseteq FetchCall /\ Left \subseteq FetchCall
           /\ Popped(deletes) \subseteq DeleteCall
<1>1. ops \in Nat /\ {} \in SUBSET Row
  BY MyPlaysAssumption DEF TypeOK
<1>2. \A pg \in {"plays", "finders", "competitions"}, by \in {"tap", "delete"} :
        NewFetch(pg, by) \in FetchCall
  BY <1>1 DEF NewFetch, FetchCall
<1>3. ASSUME NEW f \in fetches
      PROVE  [f EXCEPT !.clean = FALSE] \in FetchCall
             /\ [f EXCEPT !.page = "left"] \in FetchCall /\ f \in FetchCall
  BY DEF TypeOK, FetchCall
<1>4. ASSUME NEW d \in deletes PROVE [d EXCEPT !.here = FALSE] \in DeleteCall
  BY DEF TypeOK, DeleteCall
<1>5. QED
  BY <1>2, <1>3, <1>4 DEF Outdated, Left, Popped

\* The pages' part of a step's types: all but the HUD and the counters.
StoreTyped ==
    /\ myPlayList \in Seq(Plays)
    /\ version \in [Plays -> Version]

ScreenTyped ==
    /\ page \in {"my", "plays", "finders", "form"}
    /\ post \in IF page = "form" THEN Plays ELSE {None}
    /\ rows \subseteq Row
    /\ competitions \in BOOLEAN
    /\ current \in BOOLEAN

CallsTyped ==
    /\ fetches \subseteq FetchCall
    /\ deletes \subseteq DeleteCall
    /\ unlistings \subseteq [n : Nat, play : Plays]

CountsTyped == ops \in 0..MaxOps /\ changes \in 0..MaxChanges

PagesTyped == StoreTyped /\ ScreenTyped /\ CallsTyped /\ CountsTyped

\* What is removed from a list of plays leaves one.
LEMMA RemovingTyped ==
    ASSUME TypeOK, NEW p PROVE RemovingFirst(myPlayList, p) \in Seq(Plays)
BY RemovingFirstProperties DEF TypeOK

\* A tap keeps the types.
LEMMA TapTyped == TypeOK /\ Tap => PagesTyped'
<1> SUFFICES ASSUME TypeOK, Tap PROVE PagesTyped'
  OBVIOUS
<1>1. CountsTyped'
  <2>1. Tapped /\ UNCHANGED changes
    BY DEF Tap, Open, OpenCompetitions, Refresh, Back, SelectRow, BackFromForm,
       AddData, DeletePost, screen
  <2>2. QED
    BY <2>1, MyPlaysAssumption DEF Tapped, TypeOK, CountsTyped
<1> USE DEF store, screen, PagesTyped, StoreTyped, ScreenTyped, CallsTyped
<1>2. ASSUME NEW pg \in {"plays", "finders"}, Open(pg) PROVE PagesTyped'
  BY <1>1, <1>2, HelpersTyped DEF Open, TypeOK
<1>3. CASE OpenCompetitions
  BY <1>1, <1>3, HelpersTyped DEF OpenCompetitions, TypeOK
<1>4. CASE Refresh
  BY <1>1, <1>4, HelpersTyped DEF Refresh, TypeOK
<1>5. CASE Back
  BY <1>1, <1>5, HelpersTyped DEF Back, TypeOK
<1>6. ASSUME NEW p \in Plays, SelectRow(p) PROVE PagesTyped'
  BY <1>1, <1>6 DEF SelectRow, TypeOK
<1>7. CASE BackFromForm
  BY <1>1, <1>7, HelpersTyped DEF BackFromForm, PopToFinders, TypeOK
<1>8. CASE AddData
  <2>1. version' \in [Plays -> Version]
    BY <1>8, MyPlaysAssumption DEF AddData, TypeOK, Version
  <2>2. QED
    BY <1>1, <1>8, <2>1, HelpersTyped DEF AddData, PopToFinders, TypeOK
<1>9. CASE DeletePost
  <2>1. post \in Plays /\ ops \in Nat /\ version[post] \in Version
    BY <1>9, MyPlaysAssumption DEF DeletePost, TypeOK
  <2>2. [n |-> ops, play |-> post, was |-> version[post], here |-> TRUE] \in DeleteCall
    BY <2>1 DEF DeleteCall
  <2>3. version' \in [Plays -> Version]
    BY <1>9, <2>1 DEF DeletePost, TypeOK, Version
  <2>4. [n |-> ops, play |-> post] \in [n : Nat, play : Plays]
    BY <2>1
  <2>5. deletes' \subseteq DeleteCall
    BY <1>9, <2>2 DEF DeletePost, TypeOK
  <2>6. unlistings' \subseteq [n : Nat, play : Plays]
    BY <1>9, <2>4 DEF DeletePost, TypeOK
  <2>7. fetches' \subseteq FetchCall /\ ScreenTyped'
    BY <1>9, HelpersTyped DEF DeletePost, TypeOK
  <2>8. QED
    BY <1>1, <1>9, <2>3, <2>5, <2>6, <2>7 DEF DeletePost, TypeOK
<1>10. QED
  BY <1>2, <1>3, <1>4, <1>5, <1>6, <1>7, <1>8, <1>9 DEF Tap

\* An answer to a fetch keeps the types.
LEMMA FetchTyped ==
    ASSUME TypeOK, NEW f \in fetches, AnswerFetch(f) \/ FetchEnds(f)
    PROVE  PagesTyped'
<1> USE DEF store, screen, PagesTyped, StoreTyped, ScreenTyped, CallsTyped, CountsTyped
<1>1. f \in FetchCall
  BY DEF TypeOK
<1>2. ASSUME NEW got \in SUBSET Row, DidGet(f, got)
      PROVE  fetches' \subseteq FetchCall /\ rows' \subseteq Row /\ current' \in BOOLEAN
  BY <1>1, <1>2 DEF DidGet, RowsOf, TypeOK, FetchCall
<1>3. CASE AnswerCompetitions(f)
  BY <1>2, <1>3 DEF AnswerCompetitions, TypeOK
<1>4. CASE AnswerUser(f)
  <2>1. [f EXCEPT !.ids = myPlayList] \in FetchCall
    BY <1>1 DEF FetchCall, TypeOK
  <2>2. QED
    BY <1>2, <1>4, <2>1 DEF AnswerUser, TypeOK
<1>5. ASSUME f.ids # Unread, NEW i \in Awaited(f), AnswerPlay(f, i) PROVE PagesTyped'
  <2> DEFINE got == f.got \cup {<<i, f.ids[i], version[f.ids[i]]>>}
  <2>1. f.ids \in Seq(Plays) /\ i \in DOMAIN f.ids
    BY <1>1, <1>5 DEF FetchCall, Awaited
  <2>2. <<i, f.ids[i], version[f.ids[i]]>> \in Row
    BY <2>1 DEF Row, TypeOK
  <2>3. got \in SUBSET Row
    BY <1>1, <2>2 DEF FetchCall
  <2>4. [f EXCEPT !.got = got] \in FetchCall
    BY <1>1, <2>3 DEF FetchCall
  <2> HIDE DEF got
  <2>5. /\ \/ DidGet(f, got)
           \/ /\ fetches' = (fetches \ {f}) \cup {[f EXCEPT !.got = got]}
              /\ UNCHANGED <<rows, current, hud>>
        /\ UNCHANGED <<store, page, post, competitions, deletes, unlistings, ops,
                       changes>>
    BY <1>5 DEF AnswerPlay, got
  <2>6. QED
    BY <1>2, <2>3, <2>4, <2>5 DEF TypeOK
<1>6. CASE FetchEnds(f)
  BY <1>6 DEF FetchEnds, TypeOK
<1>7. QED
  BY <1>3, <1>4, <1>5, <1>6 DEF AnswerFetch

\* What is not a tap or an answer to a fetch keeps the types.
LEMMA OtherTyped ==
    ASSUME TypeOK,
           \/ \E u \in unlistings : Unlist(u) \/ LoseUnlisting(u)
           \/ \E d \in deletes : Deleted(d) \/ DeleteFails(d)
           \/ OthersChange \/ Notice \/ HudMoves
    PROVE  PagesTyped'
<1> USE DEF store, screen, PagesTyped, StoreTyped, ScreenTyped, CallsTyped, CountsTyped
<1>1. ASSUME NEW u \in unlistings, Unlist(u) \/ LoseUnlisting(u) PROVE PagesTyped'
  BY <1>1, HelpersTyped, RemovingTyped DEF Unlist, LoseUnlisting, TypeOK
<1>2. ASSUME NEW d \in deletes, Deleted(d) PROVE PagesTyped'
  <2>1. Popped(deletes \ {d}) \subseteq Popped(deletes)
    BY DEF Popped
  <2>2. QED
    BY <1>2, <2>1, HelpersTyped DEF Deleted, PopToFinders, TypeOK
<1>3. ASSUME NEW d \in deletes, DeleteFails(d) PROVE PagesTyped'
  <2>1. d \in DeleteCall
    BY DEF TypeOK
  <2>2. version' \in [Plays -> Version]
    BY <1>3, <2>1 DEF DeleteFails, DeleteCall, TypeOK
  <2>3. QED
    BY <1>3, <2>2, HelpersTyped DEF DeleteFails, TypeOK
<1>4. CASE OthersChange
  <2>0. myPlayList \in Seq(Plays) /\ version \in [Plays -> Version]
    BY DEF TypeOK
  <2>1. /\ \/ myPlayList' = myPlayList
           \/ \E p \in Plays : myPlayList' = Append(myPlayList, p)
           \/ \E p \in Plays : myPlayList' = RemovingFirst(myPlayList, p)
        /\ \/ version' = version
           \/ \E p \in Plays, v \in Version : version' = [version EXCEPT ![p] = v]
    BY <1>4 DEF OthersChange
  <2>2. myPlayList' \in Seq(Plays)
    BY ONLY <2>0, <2>1, RemovingFirstProperties
  <2>3. version' \in [Plays -> Version]
    BY ONLY <2>0, <2>1
  <2>4. changes' \in 0..MaxChanges
    BY <1>4, MyPlaysAssumption DEF OthersChange, TypeOK
  <2>5. QED
    BY <1>4, <2>2, <2>3, <2>4, HelpersTyped DEF OthersChange, TypeOK
<1>5. CASE Notice \/ HudMoves
  BY <1>5 DEF Notice, HudMoves, TypeOK
<1>6. QED
  BY <1>1, <1>2, <1>3, <1>4, <1>5

TypeInv == HudInv /\ TypeOK

\* Every step keeps the types.
LEMMA NextTypeInv == TypeInv /\ [Next]_vars => TypeInv'
<1> SUFFICES ASSUME TypeInv, [Next]_vars PROVE TypeInv'
  OBVIOUS
<1>1. HudInv' /\ HudTypeOK'
  BY NextHudStep, NextHudInv DEF TypeInv, HudInv
<1>2. forsaken' \in BOOLEAN
  BY DEF TypeInv, TypeOK, Next, Answer, AnswerMissing, FetchEnds, Settled, HudInv,
     HudTypeOK, vars, history
<1>3. CASE UNCHANGED vars
  BY <1>1, <1>3 DEF TypeInv, TypeOK, vars, store, screen, history, hud
<1>4. CASE Next
  <2>1. PagesTyped'
    BY <1>4, TapTyped, FetchTyped, OtherTyped
       DEF TypeInv, Next, Answer, AnswerMissing
  <2>2. QED
    BY <1>1, <1>2, <2>1 DEF TypeInv, TypeOK, PagesTyped, StoreTyped, ScreenTyped,
       CallsTyped, CountsTyped
<1>5. QED
  BY <1>3, <1>4

\* The tabs, before a page is opened, are well typed.
LEMMA InitTypeInv == Init => TypeInv
<1> SUFFICES ASSUME Init PROVE TypeInv
  OBVIOUS
<1>1. HudTypeOK /\ HudSound
  <2>1. targetView \in BOOLEAN
    BY DEF Init, HudInit
  <2>2. QED
    BY <2>1, HudAssumption DEF Init, HudInit, HudTypeOK, HudSound
<1>2. competitions \in BOOLEAN /\ current \in BOOLEAN /\ forsaken \in BOOLEAN
  BY DEF Init
<1>3. QED
  BY <1>1, <1>2, MyPlaysAssumption DEF Init, TypeInv, HudInv, TypeOK, Version

\* The pages, the calls in flight and the HUD are well typed for ever.
THEOREM TypeCorrect == Spec => []TypeOK
<1>1. TypeInv => TypeOK
  BY DEF TypeInv
<1>2. QED
  BY <1>1, InitTypeInv, NextTypeInv, PTL DEF Spec

-----------------------------------------------------------------------------
(* Rows are current.                                                       *)

\* A fetch is that of the page that is shown, or of none; the form, which may
\* be above it, is the one that a deletion was started from.
PagesSound ==
    /\ \A f \in fetches : /\ f.page = "plays" => page = "plays"
                          /\ f.page = "finders" => page \in {"finders", "form"}
    /\ \A d \in deletes : d.here => page = "form"
    /\ current => page # "my"

\* What a complete answer brings.
Entries == {<<i, myPlayList[i], version[myPlayList[i]]>> : i \in DOMAIN myPlayList}

\* What has come for a fetch that nothing has changed since is stored.
Sound(f) ==
    f.clean => IF f.ids = Unread THEN f.got = {}
               ELSE f.ids = myPlayList /\ f.got \subseteq Entries

FetchesSound == \A f \in fetches : Sound(f)

RowsSound == PagesSound /\ FetchesSound /\ RowsCurrent

RowsInv == TypeInv /\ RowsSound

\* The fields that the helpers change, and those they leave.
LEMMA HelpersFields ==
    ASSUME TypeOK
    PROVE  /\ \A f \in Outdated : ~f.clean /\ \E g \in fetches : f.page = g.page
           /\ \A f \in Left :
                /\ f.page \notin {"plays", "finders"}
                /\ \E g \in fetches : f.ids = g.ids /\ f.got = g.got /\ f.clean = g.clean
           /\ \A pg, by : /\ NewFetch(pg, by).page = pg
                         /\ NewFetch(pg, by).ids = Unread /\ NewFetch(pg, by).got = {}
           /\ \A d \in Popped(deletes) : ~d.here
<1>1. ASSUME NEW g \in fetches
      PROVE  /\ ~[g EXCEPT !.clean = FALSE].clean
             /\ [g EXCEPT !.clean = FALSE].page = g.page
             /\ [g EXCEPT !.page = "left"].page = "left"
             /\ [g EXCEPT !.page = "left"].ids = g.ids
             /\ [g EXCEPT !.page = "left"].got = g.got
             /\ [g EXCEPT !.page = "left"].clean = g.clean
  BY DEF TypeOK, FetchCall
<1>2. ASSUME NEW f \in Outdated
      PROVE  ~f.clean /\ \E g \in fetches : f.page = g.page
  <2>1. PICK g \in fetches : f = [g EXCEPT !.clean = FALSE]
    BY DEF Outdated
  <2>2. QED
    BY <1>1, <2>1
<1>3. ASSUME NEW f \in Left
      PROVE  /\ f.page \notin {"plays", "finders"}
             /\ \E g \in fetches : f.ids = g.ids /\ f.got = g.got /\ f.clean = g.clean
  <2>1. PICK g \in fetches :
          f = IF g.page = "competitions" THEN g ELSE [g EXCEPT !.page = "left"]
    BY DEF Left
  <2>2. QED
    BY <1>1, <2>1
<1>4. \A pg, by : /\ NewFetch(pg, by).page = pg
                 /\ NewFetch(pg, by).ids = Unread /\ NewFetch(pg, by).got = {}
  BY DEF NewFetch
<1>5. ASSUME NEW d \in deletes PROVE ~[d EXCEPT !.here = FALSE].here
  BY DEF TypeOK, DeleteCall
<1>6. \A d \in Popped(deletes) : ~d.here
  BY <1>5 DEF Popped
<1>7. QED
  BY <1>2, <1>3, <1>4, <1>6

\* As long as the documents stay, what was read of them stays sound.
LEMMA SoundKept ==
    ASSUME FetchesSound, UNCHANGED store,
           \A f \in fetches' :
             \/ f.ids = Unread /\ f.got = {}
             \/ \E g \in fetches : f.ids = g.ids /\ f.got = g.got /\ f.clean = g.clean
    PROVE  FetchesSound'
<1>1. Entries' = Entries
  BY DEF Entries, store
<1>2. ASSUME NEW f \in fetches', NEW g \in fetches,
             f.ids = g.ids /\ f.got = g.got /\ f.clean = g.clean
      PROVE  Sound(f)'
  BY <1>1, <1>2 DEF FetchesSound, Sound, store
<1>3. QED
  BY <1>2 DEF FetchesSound, Sound

\* A change of the documents makes every fetch that was under way unclean.
LEMMA SoundAnew ==
    ASSUME \A f \in fetches' : (f.ids = Unread /\ f.got = {}) \/ ~f.clean
    PROVE  FetchesSound'
BY DEF FetchesSound, Sound

\* As long as documents and rows stay, and the page is the one of the rows or
\* the form above it, rows stay current.
LEMMA RowsKept ==
    ASSUME RowsCurrent, UNCHANGED <<store, rows, current>>,
           current => (page = "plays" <=> page' = "plays")
    PROVE  RowsCurrent'
<1>1. \A pg : Stored(pg)' = Stored(pg)
  BY DEF Stored, RowsOf, store
<1>2. QED
  BY <1>1 DEF RowsCurrent

\* A tap keeps what is sound.
LEMMA TapSound == RowsInv /\ Tap => RowsSound'
<1> SUFFICES ASSUME RowsInv, Tap PROVE RowsSound'
  OBVIOUS
<1> USE HelpersFields, RowsKept, SoundKept, SoundAnew
    DEF RowsInv, TypeInv, RowsSound, PagesSound
<1>1. ASSUME NEW pg \in {"plays", "finders"}, Open(pg) PROVE RowsSound'
  <2>1. PagesSound' /\ FetchesSound' /\ ~current
    BY <1>1 DEF Open
  <2>2. QED
    BY <1>1, <2>1 DEF Open
<1>2. CASE OpenCompetitions \/ Refresh
  BY <1>2 DEF OpenCompetitions, Refresh, screen
<1>3. CASE Back
  <2>1. PagesSound' /\ FetchesSound'
    BY <1>3 DEF Back
  <2>2. QED
    BY <1>3, <2>1 DEF Back, RowsCurrent
<1>4. ASSUME NEW p \in Plays, SelectRow(p) PROVE RowsSound'
  <2>1. PagesSound' /\ FetchesSound'
    BY <1>4 DEF SelectRow
  <2>2. QED
    BY <1>4, <2>1 DEF SelectRow
<1>5. CASE BackFromForm
  <2>1. PagesSound' /\ FetchesSound'
    BY <1>5 DEF BackFromForm, PopToFinders
  <2>2. QED
    BY <1>5, <2>1 DEF BackFromForm, PopToFinders
<1>6. CASE AddData
  <2>1. PagesSound'
    BY <1>6 DEF AddData, PopToFinders
  <2>2. FetchesSound'
    BY <1>6 DEF AddData, PopToFinders
  <2>3. QED
    BY <1>6, <2>1, <2>2 DEF AddData, RowsCurrent
<1>7. CASE DeletePost
  <2>1. PagesSound'
    BY <1>7 DEF DeletePost, screen
  <2>2. QED
    BY <1>7, <2>1 DEF DeletePost, RowsCurrent
<1>8. QED
  BY <1>1, <1>2, <1>3, <1>4, <1>5, <1>6, <1>7 DEF Tap

\* The rows of a complete and sound answer are those of the list.
LEMMA CompleteRows ==
    ASSUME RowsInv, NEW f \in fetches, NEW got, DidGet(f, got), UNCHANGED <<store, page, deletes>>,
           f.clean => got = Entries
    PROVE  RowsSound'
<1>1. \A pg : f.clean => Stored(pg) = RowsOf(pg, got)
  BY DEF Stored, Entries
<1>2. \A pg : Stored(pg)' = Stored(pg)
  BY DEF Stored, RowsOf, store
<1>3. PagesSound' /\ FetchesSound'
  BY SoundKept DEF RowsInv, RowsSound, PagesSound, DidGet
<1>4. CASE f.page \in {"plays", "finders"}
  BY <1>1, <1>2, <1>3, <1>4
     DEF DidGet, RowsCurrent, RowsSound, RowsInv, PagesSound
<1>5. CASE f.page \notin {"plays", "finders"}
  BY <1>3, <1>5, RowsKept DEF DidGet, RowsSound, RowsInv
<1>6. QED
  BY <1>4, <1>5

\* A fetch that has got further, and is sound, disturbs nothing.
LEMMA ChangedFetch ==
    ASSUME RowsInv, NEW f \in fetches, NEW g, g.page = f.page, Sound(g)',
           fetches' = (fetches \ {f}) \cup {g},
           UNCHANGED <<store, page, rows, current, deletes>>
    PROVE  RowsSound'
<1>1. Entries' = Entries
  BY DEF Entries, store
<1>2. FetchesSound'
  BY <1>1 DEF RowsInv, RowsSound, FetchesSound, Sound, store
<1>3. PagesSound'
  BY DEF RowsInv, RowsSound, PagesSound
<1>4. QED
  BY <1>2, <1>3, RowsKept DEF RowsInv, RowsSound

\* An answer to a fetch keeps what is sound.
LEMMA FetchSound ==
    ASSUME RowsInv, NEW f \in fetches, AnswerFetch(f) \/ FetchEnds(f)
    PROVE  RowsSound'
<1>1. f \in FetchCall
  BY DEF RowsInv, TypeInv, TypeOK
<1>2. CASE AnswerCompetitions(f)
  <2>1. PagesSound' /\ FetchesSound'
    BY <1>2, SoundKept DEF AnswerCompetitions, DidGet, RowsInv, RowsSound, PagesSound
  <2>2. QED
    BY <1>2, <2>1, RowsKept DEF AnswerCompetitions, DidGet, RowsInv, RowsSound
<1>3. CASE AnswerUser(f)
  <2>1. CASE myPlayList = <<>>
    <3>1. Entries = {}
      BY <2>1 DEF Entries
    <3>2. QED
      BY <1>3, <2>1, <3>1, CompleteRows DEF AnswerUser
  <2>2. CASE myPlayList # <<>>
    <3>0. PICK g : g = [f EXCEPT !.ids = myPlayList]
      OBVIOUS
    <3>1. g.page = f.page /\ g.ids = myPlayList /\ g.got = f.got /\ g.clean = f.clean
      BY <1>1, <3>0 DEF FetchCall
    <3>2. Sound(g)'
      BY <1>3, <3>1, MyPlaysAssumption
         DEF AnswerUser, RowsInv, TypeInv, TypeOK, RowsSound, FetchesSound, Sound, store
    <3>3. /\ fetches' = (fetches \ {f}) \cup {g}
          /\ UNCHANGED <<store, page, rows, current, deletes>>
      BY <1>3, <2>2, <3>0 DEF AnswerUser
    <3>4. QED
      BY <3>1, <3>2, <3>3, ChangedFetch
  <2>3. QED
    BY <2>1, <2>2
<1>4. ASSUME f.ids # Unread, NEW i \in Awaited(f), AnswerPlay(f, i) PROVE RowsSound'
  <2>0. PICK got : got = f.got \cup {<<i, f.ids[i], version[f.ids[i]]>>}
    OBVIOUS
  <2>1. f.clean => f.ids = myPlayList /\ got \subseteq Entries
    BY <1>4, <2>0 DEF RowsInv, RowsSound, FetchesSound, Sound, Awaited, Entries
  <2>2. CASE Complete(f, got)
    <3>1. DidGet(f, got) /\ UNCHANGED <<store, page, deletes>>
      BY <1>4, <2>0, <2>2 DEF AnswerPlay
    <3>2. ASSUME f.clean PROVE got = Entries
      <4>1. \A k \in DOMAIN myPlayList : \E x \in got : x[1] = k
        BY <2>1, <2>2, <3>2 DEF Complete
      <4>2. \A x \in Entries : x = <<x[1], myPlayList[x[1]], version[myPlayList[x[1]]]>>
                               /\ x[1] \in DOMAIN myPlayList
        BY DEF Entries
      <4>3. \A k \in DOMAIN myPlayList :
              <<k, myPlayList[k], version[myPlayList[k]]>> \in got
        BY <2>1, <3>2, <4>1, <4>2
      <4>4. QED
        BY <2>1, <3>2, <4>3 DEF Entries
    <3>3. QED
      BY <3>1, <3>2, CompleteRows
  <2>3. CASE ~Complete(f, got)
    <3>0. PICK g : g = [f EXCEPT !.got = got]
      OBVIOUS
    <3>1. g.page = f.page /\ g.ids = f.ids /\ g.got = got /\ g.clean = f.clean
      BY <1>1, <3>0 DEF FetchCall
    <3>2. /\ fetches' = (fetches \ {f}) \cup {g}
          /\ UNCHANGED <<store, page, rows, current, deletes>>
      BY <1>4, <2>0, <2>3, <3>0 DEF AnswerPlay
    <3>3. Entries' = Entries /\ myPlayList' = myPlayList
      BY <3>2 DEF Entries, store
    <3>4. Sound(g)'
      BY <1>4, <2>1, <3>1, <3>3 DEF Sound
    <3>5. QED
      BY <3>1, <3>2, <3>4, ChangedFetch
  <2>4. QED
    BY <2>2, <2>3
<1>5. CASE FetchEnds(f)
  <2>1. PagesSound' /\ FetchesSound'
    BY <1>5, SoundKept DEF FetchEnds, RowsInv, RowsSound, PagesSound, screen
  <2>2. QED
    BY <1>5, <2>1, RowsKept DEF FetchEnds, RowsInv, RowsSound, screen
<1>6. QED
  BY <1>2, <1>3, <1>4, <1>5 DEF AnswerFetch

\* Everything else keeps what is sound.
LEMMA OtherSound ==
    ASSUME RowsInv,
           \/ \E u \in unlistings : Unlist(u) \/ LoseUnlisting(u)
           \/ \E d \in deletes : Deleted(d) \/ DeleteFails(d)
           \/ OthersChange \/ Notice \/ HudMoves
    PROVE  RowsSound'
<1> USE HelpersFields, RowsKept, SoundKept, SoundAnew
    DEF RowsInv, TypeInv, RowsSound, PagesSound, screen
<1>1. ASSUME NEW u \in unlistings, Unlist(u) PROVE RowsSound'
  <2>1. CASE Contains(myPlayList, u.play)
    BY <1>1, <2>1 DEF Unlist, RowsCurrent
  <2>2. CASE ~Contains(myPlayList, u.play)
    <3>1. UNCHANGED <<store, screen, fetches, deletes, current>>
      BY <1>1, <2>2 DEF Unlist, RemovingFirst, store
    <3>2. QED
      BY <3>1
  <2>3. QED
    BY <2>1, <2>2
<1>2. ASSUME NEW d \in deletes, Deleted(d) PROVE RowsSound'
  <2>1. \A x \in Popped(deletes \ {d}) : ~x.here
    BY DEF Popped
  <2>2. CASE d.here
    <3>1. page = "form" /\ PopToFinders("delete", fetches, deletes \ {d})
          /\ UNCHANGED <<store, rows, current>>
      BY <1>2, <2>2 DEF Deleted
    <3>2. page' = "finders" /\ (\A x \in deletes' : ~x.here)
      BY <2>1, <3>1 DEF PopToFinders
    <3>3. PagesSound'
      <4>1. \A f \in fetches' : f \in fetches \/ f.page = "finders"
        BY <3>1 DEF PopToFinders
      <4>2. \A f \in fetches : f.page # "plays"
        BY <3>1
      <4>3. QED
        BY <3>2, <4>1, <4>2
    <3>4. FetchesSound'
      BY <3>1 DEF PopToFinders
    <3>5. QED
      BY <3>1, <3>2, <3>3, <3>4
  <2>3. CASE ~d.here
    BY <1>2, <2>3 DEF Deleted
  <2>4. QED
    BY <2>2, <2>3
<1>3. ASSUME NEW d \in deletes, DeleteFails(d) PROVE RowsSound'
  BY <1>3 DEF DeleteFails, RowsCurrent
<1>4. CASE OthersChange
  BY <1>4 DEF OthersChange, RowsCurrent
<1>5. CASE Notice \/ HudMoves \/ \E u \in unlistings : LoseUnlisting(u)
  BY <1>5 DEF Notice, HudMoves, LoseUnlisting
<1>6. QED
  BY <1>1, <1>2, <1>3, <1>4, <1>5

\* Every step keeps what is sound.
LEMMA NextRowsInv == RowsInv /\ [Next]_vars => RowsInv'
<1> SUFFICES ASSUME RowsInv, [Next]_vars PROVE RowsInv'
  OBVIOUS
<1>1. TypeInv'
  BY NextTypeInv DEF RowsInv
<1>2. CASE UNCHANGED vars
  <2>1. UNCHANGED <<store, screen, fetches, deletes, current>>
    BY <1>2 DEF vars, history
  <2>2. PagesSound' /\ FetchesSound' /\ RowsCurrent'
    BY <2>1, SoundKept, RowsKept DEF RowsInv, RowsSound, PagesSound, screen
  <2>3. QED
    BY <1>1, <2>2 DEF RowsInv, RowsSound
<1>3. CASE Next
  BY <1>1, <1>3, TapSound, FetchSound, OtherSound
     DEF RowsInv, Next, Answer, AnswerMissing
<1>4. QED
  BY <1>2, <1>3

\* Rows that were asked for after the last change are those of the list, in
\* its order and in their last version, for any list, any number of fetches and
\* any order of their answers.
THEOREM RowsAreCurrent == Spec => []RowsCurrent
<1>1. Init => RowsInv
  <2>1. Init => TypeInv
    BY InitTypeInv
  <2>2. QED
    BY <2>1 DEF Init, RowsInv, RowsSound, PagesSound, FetchesSound, RowsCurrent
<1>2. RowsInv => RowsCurrent
  BY DEF RowsInv, RowsSound
<1>3. QED
  BY <1>1, <1>2, NextRowsInv, PTL DEF Spec
=============================================================================
