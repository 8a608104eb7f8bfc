------------------------------ MODULE MyPlays -------------------------------
(***************************************************************************)
(* The pages with the plays of a user, the form of a play that the user    *)
(* has posted, and the competitions: MyPlaysViewController,                *)
(* MyFindersViewController, EstablishFinderViewController,                 *)
(* CompetitionsViewController, with their calls of FinderDataManager.      *)
(*                                                                         *)
(* A page shows the HUD and asks for its rows, in a join of one read per   *)
(* listed play; the answer dismisses the HUD and replaces the rows.        *)
(* Nothing ties an answer to the page that is on the screen: a page that   *)
(* was left is kept by its refresh header, so its answers still dismiss.   *)
(*                                                                         *)
(* The phone sees its own writes at once.  What a rewrite of my_play_list  *)
(* may undo is module Roster's; here the list changes in any way.          *)
(*                                                                         *)
(* The page of a post and its form, MyFinderInfo and EstablishFinder, are  *)
(* one page here; what the form refuses, it refuses with a Notice.         *)
(***************************************************************************)
EXTENDS Naturals, Sequences, SequencesExt, Lists, Hud

CONSTANTS
    Plays,       \* documents of plays
    mine,        \* those that the user has posted
    listed,      \* my_play_list when the pages are first opened
    Unread,      \* the list of a fetch that has not been answered
    Gone,        \* the version of a deleted play
    None,        \* no play
    MaxVersion,  \* bound on the edits of a play
    MaxOps,      \* bound on the taps
    MaxChanges   \* bound on what others change

ASSUME MyPlaysAssumption ==
    /\ mine \subseteq Plays
    /\ listed \in Seq(Plays)
    /\ Unread \notin Seq(Plays)
    /\ Gone \notin Nat
    /\ None \notin Plays
    /\ MaxVersion \in Nat /\ MaxOps \in Nat /\ MaxChanges \in Nat

VARIABLES
    \* Firestore, as the phone sees it
    myPlayList,
    version,       \* version[p]: how often p was edited
    \* the phone
    page,          \* "form" is above "finders"
    post,          \* thisPlay of the form
    rows,          \* myPlays or myFinders: place, play, version
    competitions,  \* the competitions page, a tab, was opened
    \* calls in flight
    fetches,       \* getThisUserPlays, getCompetion
    deletes,       \* deletePlay
    unlistings,    \* its removals from my_play_list
    \* history, never read by the system
    current,       \* rows were asked for after the last change
    forsaken,      \* a fetch has ended unanswered since the HUD is up
    ops, changes

store   == <<myPlayList, version>>
screen  == <<page, post, rows, competitions>>
history == <<current, forsaken>>
vars    == <<store, screen, fetches, deletes, unlistings, history, ops, changes,
             hud>>

-----------------------------------------------------------------------------

Version == (0..MaxVersion) \cup {Gone}
Row     == Nat \X Plays \X Version

\* Who asked, for which page ("left": it is no longer there), and what has come.
FetchCall == [n : Nat, by : {"tap", "delete"},
              page : {"plays", "finders", "competitions", "left"},
              ids : Seq(Plays) \cup {Unread}, got : SUBSET Row, clean : BOOLEAN]

\* `was' is the version to go back to; `here': the form is still there.
DeleteCall == [n : Nat, play : Plays, was : Version, here : BOOLEAN]

TypeOK ==
    /\ HudTypeOK
    /\ myPlayList \in Seq(Plays)
    /\ version \in [Plays -> Version]
    /\ page \in {"my", "plays", "finders", "form"}
    /\ post \in IF page = "form" THEN Plays ELSE {None}
    /\ rows \subseteq Row
    /\ competitions \in BOOLEAN
    /\ fetches \subseteq FetchCall
    /\ deletes \subseteq DeleteCall
    /\ unlistings \subseteq [n : Nat, play : Plays]
    /\ current \in BOOLEAN /\ forsaken \in BOOLEAN
    /\ ops \in 0..MaxOps
    /\ changes \in 0..MaxChanges

Init ==
    /\ HudInit
    /\ myPlayList = listed
    /\ version = [p \in Plays |-> 0]
    /\ page = "my"
    /\ post = None
    /\ rows = {}
    /\ competitions = FALSE
    /\ fetches = {} /\ deletes = {} /\ unlistings = {}
    /\ current = FALSE /\ forsaken = FALSE
    /\ ops = 0 /\ changes = 0

-----------------------------------------------------------------------------
(* Helpers.                                                                *)

Tapped == /\ Touchable
          /\ ops < MaxOps
          /\ ops' = ops + 1

NewFetch(pg, by) == [n |-> ops, by |-> by, page |-> pg, ids |-> Unread,
                     got |-> {}, clean |-> TRUE]

\* The store has changed: what was asked for before is not the latest.
Outdated == {[f EXCEPT !.clean = FALSE] : f \in fetches}

\* The page with the rows is left.
Left == {IF f.page = "competitions" THEN f ELSE [f EXCEPT !.page = "left"] :
           f \in fetches}

\* The form is left.
Popped(ds) == {[d EXCEPT !.here = FALSE] : d \in ds}

\* The rows that page pg makes of what has come: MyFinders keeps the user's own.
RowsOf(pg, got) == {g \in got : pg = "finders" => g[2] \in mine}

\* The rows of page pg that Firestore would give now.
Stored(pg) ==
    RowsOf(pg, {<<i, myPlayList[i], version[myPlayList[i]]>> :
                  i \in DOMAIN myPlayList})

-----------------------------------------------------------------------------
(* Taps.                                                                   *)

\* viewDidLoad of MyPlays; viewDidLoad and viewWillAppear of MyFinders.
Open(pg) ==
    /\ Tapped
    /\ page = "my"
    /\ page' = pg
    /\ Show
    /\ fetches' = fetches \cup {NewFetch(pg, "tap")}
    /\ UNCHANGED <<store, post, rows, competitions, deletes, unlistings, current,
                   changes>>

OpenCompetitions ==
    /\ Tapped
    /\ page = "my"
    /\ ~competitions
    /\ competitions' = TRUE
    /\ Show
    /\ fetches' = fetches \cup {NewFetch("competitions", "tap")}
    /\ UNCHANGED <<store, page, post, rows, deletes, unlistings, current, changes>>

\* The refresh header asks again, and shows no HUD.
Refresh ==
    /\ Tapped
    /\ page \in {"plays", "finders"}
    /\ fetches' = fetches \cup {NewFetch(page, "tap")}
    /\ UNCHANGED <<store, screen, deletes, unlistings, current, changes, hud>>

Back ==
    /\ Tapped
    /\ page \in {"plays", "finders"}
    /\ page' = "my"
    /\ rows' = {}
    /\ current' = FALSE
    /\ fetches' = Left
    /\ UNCHANGED <<store, post, competitions, deletes, unlistings, changes, hud>>

\* A row of MyFinders opens its play.
SelectRow(p) ==
    /\ Tapped
    /\ page = "finders"
    /\ \E r \in rows : r[2] = p
    /\ page' = "form"
    /\ post' = p
    /\ UNCHANGED <<store, rows, competitions, fetches, deletes, unlistings,
                   current, changes, hud>>

\* The form goes; viewWillAppear of MyFinders asks again.
PopToFinders(by, fs, ds) ==
    /\ page' = "finders"
    /\ post' = None
    /\ fetches' = fs \cup {NewFetch("finders", by)}
    /\ deletes' = Popped(ds)

BackFromForm ==
    /\ Tapped
    /\ page = "form"
    /\ PopToFinders("tap", fetches, deletes)
    /\ UNCHANGED <<store, rows, competitions, unlistings, current, changes, hud>>

\* addData on a post that is stored: updatePlay, which does nothing for a
\* document that is gone, and the notice in any case.
AddData ==
    /\ Tapped
    /\ page = "form"
    /\ IF version[post] = Gone THEN UNCHANGED version
       ELSE /\ version[post] < MaxVersion
            /\ version' = [version EXCEPT ![post] = @ + 1]
    /\ current' = FALSE
    /\ ShowNotice
    /\ PopToFinders("tap", Outdated, deletes)
    /\ UNCHANGED <<myPlayList, rows, competitions, unlistings, changes>>

\* deletePost, confirmed.  The user is one of the players of the play.
DeletePost ==
    /\ Tapped
    /\ page = "form"
    /\ version' = [version EXCEPT ![post] = Gone]
    /\ deletes' = deletes \cup
         {[n |-> ops, play |-> post, was |-> version[post], here |-> TRUE]}
    /\ unlistings' = unlistings \cup {[n |-> ops, play |-> post]}
    /\ fetches' = Outdated
    /\ current' = FALSE
    /\ UNCHANGED <<myPlayList, screen, changes, hud>>

Tap ==
    \/ \E pg \in {"plays", "finders"} : Open(pg)
    \/ OpenCompetitions \/ Refresh \/ Back
    \/ \E p \in Plays : SelectRow(p)
    \/ BackFromForm \/ AddData \/ DeletePost

-----------------------------------------------------------------------------
(* Answers.                                                                *)

DidGetShown(f, got) ==      \* mutant: only a page that is there dismisses
    /\ fetches' = fetches \ {f}
    /\ IF f.page \in {"plays", "finders"}
       THEN rows' = RowsOf(f.page, got) /\ current' = f.clean /\ Dismiss
       ELSE UNCHANGED <<rows, current, hud>>

\* The delegate of a fetch is told: its page, shown or left, dismisses the HUD.
DidGet(f, got) ==
    /\ fetches' = fetches \ {f}
    /\ Dismiss
    /\ IF f.page \in {"plays", "finders"}
       THEN rows' = RowsOf(f.page, got) /\ current' = f.clean
       ELSE UNCHANGED <<rows, current>>

\* getCompetion.
AnswerCompetitions(f) ==
    /\ f.page = "competitions"
    /\ DidGet(f, {})
    /\ UNCHANGED <<store, page, post, competitions, deletes, unlistings, ops,
                   changes>>

\* getThisUserPlays has the list and asks for each play on it.
AnswerUser(f) ==
    /\ f.page # "competitions"
    /\ f.ids = Unread
    /\ IF myPlayList = <<>> THEN DidGet(f, {})
       ELSE /\ fetches' = (fetches \ {f}) \cup {[f EXCEPT !.ids = myPlayList]}
            /\ UNCHANGED <<rows, current, hud>>
    /\ UNCHANGED <<store, page, post, competitions, deletes, unlistings, ops,
                   changes>>

CompleteOnce(f, got) ==     \* mutant: each play is counted once
    {g[2] : g \in got} = {f.ids[i] : i \in DOMAIN f.ids}

\* playsArray.count == myPlayList.count: each place of the list is answered once.
Complete(f, got) == {g[1] : g \in got} = DOMAIN f.ids

\* The read of the play at place i of the list.
AnswerPlay(f, i) ==
    LET p == f.ids[i]
        got == f.got \cup {<<i, p, version[p]>>}
    IN
    /\ version[p] # Gone
    /\ IF Complete(f, got) THEN DidGet(f, got)
       ELSE /\ fetches' = (fetches \ {f}) \cup {[f EXCEPT !.got = got]}
            /\ UNCHANGED <<rows, current, hud>>
    /\ UNCHANGED <<store, page, post, competitions, deletes, unlistings, ops,
                   changes>>

\* deletePlayIdToUserPlayList.
Unlist(u) ==
    /\ unlistings' = unlistings \ {u}
    /\ myPlayList' = RemovingFirst(myPlayList, u.play)
    /\ IF Contains(myPlayList, u.play)
       THEN fetches' = Outdated /\ current' = FALSE
       ELSE UNCHANGED <<fetches, current>>
    /\ UNCHANGED <<version, screen, deletes, ops, changes, hud>>

\* The play is deleted: the form, if it is there, gives way.
Deleted(d) ==
    /\ IF d.here THEN PopToFinders("delete", fetches, deletes \ {d})
       ELSE /\ deletes' = deletes \ {d}
            /\ UNCHANGED <<page, post, fetches>>
    /\ ShowNotice
    /\ UNCHANGED <<store, rows, competitions, unlistings, current, ops, changes>>

\* Firestore takes the deletion back.
DeleteFails(d) ==
    /\ deletes' = deletes \ {d}
    /\ version' = IF d.was = Gone THEN version ELSE [version EXCEPT ![d.play] = d.was]
    /\ fetches' = Outdated
    /\ current' = FALSE
    /\ ShowNotice
    /\ UNCHANGED <<myPlayList, screen, unlistings, ops, changes>>

Awaited(f) == {i \in DOMAIN f.ids : ~ \E g \in f.got : g[1] = i}

AnswerFetch(f) ==
    \/ AnswerCompetitions(f)
    \/ AnswerUser(f)
    \/ f.ids # Unread /\ \E i \in Awaited(f) : AnswerPlay(f, i)

\* A play of the list is gone, or a read ends with an error: the join can no
\* longer be complete, and its page is never told.
FetchEnds(f) ==
    /\ fetches' = fetches \ {f}
    /\ forsaken' = (forsaken \/ targetView)
    /\ UNCHANGED <<store, screen, deletes, unlistings, current, ops, changes, hud>>

AnswerMissing(f) ==
    /\ f.ids # Unread
    /\ \E i \in Awaited(f) : version[f.ids[i]] = Gone
    /\ FetchEnds(f)

\* A call is answered.  While the HUD is up, forsaken is remembered.
Settled == forsaken' = (forsaken /\ targetView')

Answer ==
    \/ \E f \in fetches : AnswerFetch(f) /\ Settled
    \/ \E f \in fetches : AnswerMissing(f)

-----------------------------------------------------------------------------
(* Everybody else.                                                         *)

\* A request is accepted or cancelled, a play is edited or deleted, by others
\* or on another phone of the user.
OthersChange ==
    /\ changes < MaxChanges
    /\ changes' = changes + 1
    /\ fetches' = Outdated
    /\ current' = FALSE
    /\ \/ /\ \/ \E p \in Plays : myPlayList' = Append(myPlayList, p)
             \/ \E p \in Plays : myPlayList' = RemovingFirst(myPlayList, p)
          /\ UNCHANGED version
       \/ /\ \E p \in Plays, v \in Version :
               /\ version[p] # Gone
               /\ v = Gone \/ v = version[p] + 1
               /\ version' = [version EXCEPT ![p] = v]
          /\ UNCHANGED myPlayList
    /\ UNCHANGED <<screen, deletes, unlistings, ops, hud>>

\* A call of another page has ended, and says so on whatever page is shown.
Notice ==
    /\ ShowNotice
    /\ UNCHANGED <<store, screen, fetches, deletes, unlistings, current, ops,
                   changes>>

LoseUnlisting(u) ==
    /\ unlistings' = unlistings \ {u}
    /\ UNCHANGED <<store, screen, fetches, deletes, current, ops, changes, hud>>

HudMoves ==
    /\ AnimationDidFinish \/ TimerFires
    /\ UNCHANGED <<store, screen, fetches, deletes, unlistings, current, ops,
                   changes>>

Next ==
    \/ Answer
    \/ \E f \in fetches : FetchEnds(f)
    \/ /\ \/ Tap
          \/ \E u \in unlistings : Unlist(u) \/ LoseUnlisting(u)
          \/ \E d \in deletes : Deleted(d) \/ DeleteFails(d)
          \/ OthersChange \/ Notice \/ HudMoves
       /\ Settled

\* Calls are answered, animations and timers end.
Spec == /\ Init /\ [][Next]_vars
        /\ WF_vars(Answer)
        /\ WF_vars(AnimationDidFinish /\ HudMoves /\ Settled)
        /\ WF_vars(TimerFires /\ HudMoves /\ Settled)

-----------------------------------------------------------------------------
(* Properties.                                                             *)

\* What will take the HUD down.
Expected == \/ fetches # {} \/ timers > 0
            \/ animation = "hide" \/ dismissAfter # "no"

\* LKProgressHUD is one for all pages: it is never up without anybody who will
\* take it down, whoever has shown it, unless an answer has failed.
NothingLeftUp == targetView => Expected \/ forsaken

\* and it does go, so that the pages can be used.
HudGoes == targetView ~> ~targetView \/ forsaken

\* getThisUserPlays: rows that were asked for after the last change are those
\* of the list, place by place and in their last version, although each comes
\* from a read of its own, fetches overtake each other and pages are left.
RowsCurrent ==
    current => rows = Stored(IF page = "plays" THEN "plays" ELSE "finders")
=============================================================================
