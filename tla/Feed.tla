-------------------------------- MODULE Feed --------------------------------
(***************************************************************************)
(* One user's block list and what depends on it: the public feed, which    *)
(* leaves out the plays of blocked users, and the page that lists them.    *)
(* FinderViewController, ProfileView, BlockListViewController and their    *)
(* calls of FinderDataManager.getPublishPlay and MyDataManager.            *)
(*                                                                         *)
(* The block list is an array that the phone reads and writes back whole;  *)
(* the page joins one answer per blocked user.  A callback's write and its *)
(* commit are one step.  The progress HUD takes all touches once it has    *)
(* come; a success or failure notice takes its place and goes away, which  *)
(* is one step.  Module Hud has the HUD in full, for the pages of MyPlays. *)
(***************************************************************************)
EXTENDS Lists, FiniteSets

CONSTANTS
    Users,       \* whom the user may block
    Plays,
    finder,      \* finder[p]: who posts play p
    Unread,      \* what a call that is not answered yet has read
    MaxOps,      \* bound on the taps
    MaxFetches,  \* bound on the fetches of the feed in flight
    MaxEdits     \* bound on the edits of the block list in flight

ASSUME FeedAssumption ==
    /\ finder \in [Plays -> Users]
    /\ Unread \notin Seq(Users)
    /\ MaxOps \in Nat
    /\ MaxFetches \in Nat \ {0}
    /\ MaxEdits \in Nat \ {0}

VARIABLES
    upcoming,      \* the plays in Firestore that have not started yet
    blockList,
    publicPlays,   \* the plays the feed shows
    waiting,       \* the feed's waiting animation
    hud,           \* "Loading", which comes and goes with an animation
    open,          \* the block list page is there
    blockUsers,    \* its rows
    \* calls in flight
    fetches,       \* getPublishPlay
    edits,         \* addToBlocklist, removeFromBlocklist
    join,          \* getBlockList of the page
    ops,           \* taps so far
    \* history
    current,       \* the feed's last answer was asked for since the last change
    decided,       \* whom the user has decided to block, with this profile
    tangled,       \* an edit has failed, or overlapped with another or a join
    left           \* the page was left before it was told of its list

store   == <<upcoming, blockList>>
feed    == <<publicPlays, waiting, fetches, current>>
listing == <<open, blockUsers, join>>
history == <<decided, tangled, left>>
vars    == <<store, feed, hud, listing, edits, ops, history>>

-----------------------------------------------------------------------------

FetchCall == [n : 1..MaxFetches, stage : {"user", "plays"}, blocked : SUBSET Users,
              fresh : BOOLEAN]
EditCall  == [n : 1..MaxEdits, do : {"add", "remove"}, user : Users,
              snap : Seq(Users) \cup {Unread}]
Join      == [stage : {"none", "list", "users", "failed"}, ids : Seq(Users),
              got : SUBSET Users]
NoJoin    == [stage |-> "none", ids |-> <<>>, got |-> {}]

TypeOK ==
    /\ upcoming \subseteq Plays
    /\ blockList \in Seq(Users)
    /\ publicPlays \subseteq Plays
    /\ waiting \in BOOLEAN
    /\ hud \in {"none", "coming", "up", "going"}
    /\ open \in BOOLEAN
    /\ blockUsers \subseteq Users
    /\ fetches \subseteq FetchCall
    /\ edits \subseteq EditCall
    /\ join \in Join
    /\ ops \in 0..MaxOps
    /\ current \in BOOLEAN
    /\ decided \subseteq Users
    /\ tangled \in BOOLEAN
    /\ left \in BOOLEAN

NewFetch(n) == [n |-> n, stage |-> "user", blocked |-> {}, fresh |-> TRUE]

\* The app is opened by a user who has blocked nobody; nothing is posted.
Init ==
    /\ upcoming = {}
    /\ blockList = <<>>
    /\ publicPlays = {}
    /\ waiting = TRUE
    /\ hud = "none"
    /\ open = FALSE
    /\ blockUsers = {}
    /\ fetches = {NewFetch(1)}
    /\ edits = {}
    /\ join = NoJoin
    /\ ops = 0
    /\ current = FALSE
    /\ decided = {}
    /\ tangled = FALSE
    /\ left = FALSE

\* The plays a feed that is up to date shows.
Visible == {p \in upcoming : finder[p] \notin ToSet(blockList)}

-----------------------------------------------------------------------------
(* Plays that others, or the user, post and delete, and time.              *)

\* What was read, or is shown, is older than the store.
Outdated ==
    /\ fetches' = {[c EXCEPT !.fresh = FALSE] : c \in fetches}
    /\ current' = FALSE

SavePlay(p) ==
    /\ p \notin upcoming
    /\ upcoming' = upcoming \cup {p}
    /\ Outdated
    /\ UNCHANGED <<blockList, publicPlays, waiting, hud, listing, edits, ops,
                   history>>

\* A play starts or is deleted.
Passes(p) ==
    /\ p \in upcoming
    /\ upcoming' = upcoming \ {p}
    /\ Outdated
    /\ UNCHANGED <<blockList, publicPlays, waiting, hud, listing, edits, ops,
                   history>>

-----------------------------------------------------------------------------
(* The HUD.                                                                *)

\* A HUD that comes or goes, or is there, is not shown again.
ShowHud == hud' = IF hud = "none" THEN "coming" ELSE hud

\* It goes once it has come.
Dismissed == IF hud \in {"coming", "going"} THEN "going" ELSE "none"

Dismiss == hud' = Dismissed

AnimationDidFinish ==
    /\ \/ hud = "coming" /\ hud' = "up"
       \/ hud = "going" /\ hud' = "none"
    /\ UNCHANGED <<store, feed, listing, edits, ops, history>>

-----------------------------------------------------------------------------
(* The user.                                                               *)

\* A HUD that comes or goes lets touches through.
Begin == /\ ops < MaxOps
         /\ hud # "up"
         /\ ops' = ops + 1

\* The number of the next call: the first one that none of calls has.
NextOf(calls, max) ==
    {n \in 1..max : /\ \A c \in calls : c.n # n
                    /\ \A m \in 1..(n - 1) : \E c \in calls : c.n = m}

Fetch == \E n \in NextOf(fetches, MaxFetches) :
             fetches' = fetches \cup {NewFetch(n)}

Edit(do, u) ==
    \E n \in NextOf(edits, MaxEdits) :
        edits' = edits \cup {[n |-> n, do |-> do, user |-> u, snap |-> Unread]}

Joining == join.stage \in {"list", "users"}

Tangles == tangled' = (tangled \/ edits # {} \/ Joining)

\* The feed appears, or is pulled down.
GetPublishPlay ==
    /\ Begin
    /\ Fetch
    /\ UNCHANGED <<store, publicPlays, waiting, current, hud, listing, edits,
                   history>>

\* A confirmed blockAction, which pops to the first page of the tab: if that is
\* the feed, it appears.
BlockAction(u) ==
    /\ Begin
    /\ Edit("add", u)
    /\ Fetch \/ UNCHANGED fetches
    /\ decided' = decided \cup {u}
    /\ Tangles
    /\ UNCHANGED <<store, publicPlays, waiting, current, hud, listing, left>>

OpenBlockList ==
    /\ Begin
    /\ ~open
    /\ open' = TRUE
    /\ ShowHud
    /\ blockUsers' = {}
    /\ join' = [NoJoin EXCEPT !.stage = "list"]
    /\ Tangles
    /\ left' = FALSE
    /\ UNCHANGED <<store, feed, edits, decided>>

\* The data manager holds the page weakly: an answer that comes later finds no
\* delegate, and the HUD is not dismissed.
Close ==
    /\ Begin
    /\ open
    /\ open' = FALSE
    /\ blockUsers' = {}
    /\ join' = NoJoin
    /\ left' = (left \/ join.stage # "none")
    /\ UNCHANGED <<store, feed, hud, edits, decided, tangled>>

DeleteRow(u) ==
    /\ Begin
    /\ open
    /\ u \in blockUsers
    /\ Edit("remove", u)
    /\ blockUsers' = blockUsers \ {u}
    /\ decided' = decided \ {u}
    /\ Tangles
    /\ UNCHANGED <<store, feed, hud, open, join, left>>

\* A feed and pages that nothing was shown in: the delegates of earlier calls
\* are gone.
StartsAnew ==
    /\ publicPlays' = {}
    /\ waiting' = TRUE
    /\ current' = FALSE
    /\ fetches' = {NewFetch(1)}
    /\ open' = FALSE
    /\ blockUsers' = {}
    /\ join' = NoJoin
    /\ left' = FALSE

\* Who has removed the account and returns gets a new profile, in which nobody
\* is blocked, and the tabs again.  The notice of the removal has taken the HUD
\* away.
SaveProfileInfo ==
    /\ hud # "up"
    /\ ~open
    /\ StartsAnew
    /\ blockList' = <<>>
    /\ decided' = {}
    /\ hud' = "none"
    /\ tangled' = (tangled \/ edits # {})
    /\ UNCHANGED <<upcoming, edits, ops>>

Tap ==
    \/ GetPublishPlay \/ OpenBlockList \/ Close
    \/ \E u \in Users : BlockAction(u) \/ DeleteRow(u)

-----------------------------------------------------------------------------
(* Answers of Firestore.                                                   *)

\* getPublishPlay has the user's document.
AnswerUser(c) ==
    /\ c.stage = "user"
    /\ fetches' = (fetches \ {c}) \cup
         {[c EXCEPT !.stage = "plays", !.blocked = ToSet(blockList)]}
    /\ UNCHANGED <<store, publicPlays, waiting, current, hud, listing, edits,
                   ops, history>>

FoundIfAll(c) ==        \* mutant: only the plays appended are counted
    IF \E p \in upcoming : finder[p] \in c.blocked THEN {} ELSE upcoming

FoundFinders(c) ==      \* mutant: the finders are appended
    {finder[p] : p \in {q \in upcoming : finder[q] \notin c.blocked}}

\* The plays getPublishPlay appends.
Found(c) == {p \in upcoming : finder[p] \notin c.blocked}

\* getPublishPlay delivers when all documents are counted, so it does not if
\* there are none; the feed changes only if something was delivered.
AnswerPlays(c) ==
    /\ c.stage = "plays"
    /\ fetches' = fetches \ {c}
    /\ current' = c.fresh
    /\ IF Found(c) # {}
       THEN publicPlays' = Found(c) /\ waiting' = FALSE
       ELSE UNCHANGED <<publicPlays, waiting>>
    /\ UNCHANGED <<store, hud, listing, edits, ops, history>>

ReadEdit(e) ==
    /\ e.snap = Unread
    /\ edits' = (edits \ {e}) \cup {[e EXCEPT !.snap = blockList]}
    /\ UNCHANGED <<store, feed, hud, listing, ops, history>>

HasNothingToRemove(e) ==    \* mutant: addToBlocklist does not look
    e.do = "remove" /\ ~Contains(e.snap, e.user)

\* Who is blocked is not blocked again, and who is not is not removed.
HasNothingToDo(e) == Contains(e.snap, e.user) <=> e.do = "add"

NewBlockListAlone(e) ==     \* mutant: the list is not appended to
    IF e.do = "add" THEN <<e.user>> ELSE RemovingFirst(e.snap, e.user)

NewBlockList(e) ==
    IF e.do = "add" THEN Append(e.snap, e.user) ELSE RemovingFirst(e.snap, e.user)

\* Every way out but that of a user who is not in the list shows a notice.
WriteEdit(e) ==
    /\ e.snap # Unread
    /\ edits' = edits \ {e}
    /\ hud' = IF e.do = "remove" /\ HasNothingToDo(e) THEN hud ELSE Dismissed
    /\ IF HasNothingToDo(e)
       THEN UNCHANGED <<blockList, fetches, current>>
       ELSE blockList' = NewBlockList(e) /\ Outdated
    /\ UNCHANGED <<upcoming, publicPlays, waiting, listing, ops, history>>

\* The page gets its rows.
DidGet(us) ==
    /\ blockUsers' = us
    /\ Dismiss
    /\ join' = NoJoin

AnswerListAlone ==          \* mutant: delivery only in the loop
    /\ join.stage = "list"
    /\ join' = [stage |-> "users", ids |-> blockList, got |-> {}]
    /\ UNCHANGED <<store, feed, hud, open, blockUsers, edits, ops, history>>

\* getBlockList has the user's document and asks for those of the blocked.
AnswerList ==
    /\ join.stage = "list"
    /\ IF blockList = <<>> THEN DidGet({})
       ELSE /\ join' = [stage |-> "users", ids |-> blockList, got |-> {}]
            /\ UNCHANGED <<blockUsers, hud>>
    /\ UNCHANGED <<store, feed, open, edits, ops, history>>

\* One of them comes back; with the last one the page gets the list.
AnswerBlocked(u) ==
    LET got == join.got \cup {u} IN
    /\ join.stage = "users"
    /\ u \in ToSet(join.ids) \ join.got
    /\ IF Cardinality(got) = Len(join.ids) THEN DidGet(got)
       ELSE /\ join' = [join EXCEPT !.got = got]
            /\ UNCHANGED <<blockUsers, hud>>
    /\ UNCHANGED <<store, feed, open, edits, ops, history>>

Answer ==
    \/ \E c \in fetches : AnswerUser(c) \/ AnswerPlays(c)
    \/ \E e \in edits : ReadEdit(e) \/ WriteEdit(e)
    \/ AnswerList
    \/ \E u \in Users : AnswerBlocked(u)

-----------------------------------------------------------------------------
(* Failures and restarts.                                                  *)

LoseFetch(c) ==
    /\ fetches' = fetches \ {c}
    /\ UNCHANGED <<store, publicPlays, waiting, current, hud, listing, edits,
                   ops, history>>

\* Only a removal that cannot read says so.
LoseEdit(e) ==
    /\ edits' = edits \ {e}
    /\ hud' = IF e.do = "remove" /\ e.snap = Unread THEN Dismissed ELSE hud
    /\ tangled' = TRUE
    /\ UNCHANGED <<store, feed, listing, ops, decided, left>>

\* Without one of its answers the page is never told.
LoseJoin ==
    /\ Joining
    /\ join' = [NoJoin EXCEPT !.stage = "failed"]
    /\ UNCHANGED <<store, feed, hud, open, blockUsers, edits, ops, history>>

\* The app ends and is opened again, on the feed.
Reopen ==
    /\ StartsAnew
    /\ hud' = "none"
    /\ edits' = {}
    /\ tangled' = (tangled \/ edits # {})
    /\ UNCHANGED <<store, ops, decided>>

Next ==
    \/ \E p \in Plays : SavePlay(p) \/ Passes(p)
    \/ Tap
    \/ SaveProfileInfo
    \/ Answer
    \/ AnimationDidFinish
    \/ \E c \in fetches : LoseFetch(c)
    \/ \E e \in edits : LoseEdit(e)
    \/ LoseJoin
    \/ Reopen

\* Firestore retries a call until it is answered, or fails; animations end.
Spec == /\ Init /\ [][Next]_vars
        /\ WF_vars(Answer)
        /\ WF_vars(AnimationDidFinish)

-----------------------------------------------------------------------------
(* Properties.                                                             *)

\* addToBlocklist: nobody is blocked twice, however edits overlap, so that one
\* removal unblocks and the page's join counts right.
BlockListSet == IsInjective(blockList)

\* getPublishPlay: when the last answer was asked for after the last change,
\* and there is something to show, the feed shows exactly that, whatever was
\* blocked, had started or was answered late.
FeedShowsVisible ==
    current /\ Visible # {} => publicPlays = Visible /\ ~waiting

\* addToBlocklist, removeFromBlocklist: edits that do not overlap do what the
\* user decided, and the page offers to unblock only who is blocked.
BlockLedger ==
    ~tangled => /\ edits = {} => ToSet(blockList) = decided
                /\ blockUsers \subseteq decided

\* BlockListViewController: the loading HUD, which keeps the user from doing
\* anything, goes away, unless an answer fails or the page is left while the
\* HUD comes.
HudEnds == hud # "none" ~> hud = "none" \/ join.stage = "failed" \/ left

\* FinderDataManager.getPublishPlay: only plays in the future, of users who are
\* not blocked, are shown once the feed was asked for.
FeedHidesBlocked == current => publicPlays \subseteq Visible
=============================================================================
