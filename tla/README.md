# Volleyer in TLA+

Volleyer is an iOS app (Swift, UIKit) for volleyball players: a *finder* posts a
play, others ask to join it, the finder accepts or denies; players line up for the
courts of a hall ("PlayOne"); and eighteen players can be divided into three even
teams. All state that users share is in Cloud Firestore. There is no server code
and no transaction in the app: every phone reads documents, waits for a callback
and writes documents back. That is where the difficult behaviour is, and what
these modules are about.

Paths below are relative to `src/Volleyer/Volleyer/`.

## 1. Inventory

| Part | Code | State | Operations |
|---|---|---|---|
| Play roster and join requests | `DataManagers/FinderDataManager.swift`, `DataManagers/RequestDataManager.swift`; pages `EstablishFinder`, `AddPlay`, `Info`, `RequestsReceived`, `RequestSent`, `MyFinders` | documents `plays` (`player_info`), `requests` (`status`), `users` (`my_play_list`); what each page fetched last | publish, edit and delete a play; ask to join; accept, deny, cancel; the list edits these start |
| Court queue | `DataManagers/PlayOneDataManager.swift`; pages `PlayOne`, `PlayOneFinder`, `Camera` | `courts` (`finder_ids`), `play_one_finders` (the photo of a user in line); the page's `playOneData`, `canAddPlay`, `courtIAdded`, cancel item | line up, cancel, take a photo, refresh, listen |
| Random teams | `ViewControllers/MyPage/RandomTeamViewController.swift` | the shuffled teams | deal until even, show |
| Accounts and sessions | `DataManagers/MyDataManager.swift` (saveProfileInfo, updateProfileInfo, saveProfileImage, removeThisuser, getProfileData, the user defaults), pages `Login`, `InputProfile`, `My`, `SceneDelegate.swift` | `users` documents, user defaults, the page shown | sign in, choose an id, edit the profile, sign out, remove the account |
| Block list and public feed | `MyDataManager.addToBlocklist`, `removeFromBlocklist`; `FinderDataManager.getPublishPlay`; pages `Finder`, `BlockList`, `ProfileView` | `blocklist` of a user; what the feed and the page show | block, unblock, list the blocked, fetch and filter the feed |
| Pages of the user's plays | `FinderDataManager.getThisUserPlays`, `updatePlay`, `deletePlay`; pages `MyPlays`, `MyFinders`, `MyFinderInfo`, `EstablishFinder` | the rows shown; the joins in flight | open, refresh, leave, edit and delete a post |
| Loading HUD | `Extensions/JGProgressHUDWrapper.swift`, the pod's `JGProgressHUD.m` | whether it is in a view, its animation, a dismissal that was put off, timers | show, notice, dismiss |
| Competitions | `ViewControllers/CompetitionPage`, `FinderDataManager.getCompetion` | rows | one fetch under the HUD |
| Request notifications | `RequestDataManager.listenPlayRequests`, `TabBarViewController.swift`, `Notifications.swift`, the launch date of `SceneDelegate.swift` | snapshot listeners, the launch date | listen at sign-in, compare clocks, read the sender, notify |
| Fetch joins | loops in all data managers that start one `getDocument` per id and deliver when all came back | the counters of the loops | start, answer, deliver |
| Reports, views, cells, extensions | `MyPage/ReportViewController.swift`, `Views`, `Extensions` | none that is shared | layout, formatting, one write nobody reads |

How the parts interact: pages call data managers; a data manager issues Firestore
calls and answers through a completion handler or a delegate method; the handler
issues further calls. The roster and the court queue share nothing but the `users`
collection (names and levels of whoever is listed). The team page is opened from a
play's page with the players that page fetched. Every page that waits shows the same
HUD object, and every call that ends may put a notice on it.

What is hard, and what must hold:

* **Roster.** `player_info` and `my_play_list` are arrays rewritten whole from a value
  read earlier, by several phones and by several calls of one operation. The finder
  must stay on the roster, nobody may be on it uninvited, a deleted document must not
  come back, and when operations do not overlap both lists must hold what was decided.
* **Court queue.** What a user may tap next is decided by the *next* fetch that comes
  back, not by the tap; fetches overtake each other. The buttons must agree with each
  other, cancel must leave the court the user is in, and the line must be a line.
* **Random teams.** An unbounded loop on doubles; two genders dealt in one turn to teams
  that must be of one size.
* **Accounts.** Check-then-act on the id; completions that arrive after the session
  they belong to has ended.
* **Block list and feed.** Another rewritten array; answers that are older than the last
  change; a page that must change when the answer is empty, and a HUD that must go away.
* **Pages and HUD.** A join delivers only if every answer is a document, pages that were
  left still get theirs, and one HUD serves all pages, with timers nobody cancels: it must
  not stay up, and rows must be complete and of one list.
* **Notifications.** Listeners that outlive their sign-in, first snapshots that call
  everything new, and two clocks that are compared: nobody may be notified twice, or of
  somebody else's request, and whoever listens must be notified.

Every hazard is listed in `PROJECT.json` with its line and the properties about it.

## 2. Modules

| Module | What it is |
|---|---|
| `Lists` | removal of the first occurrence, as a function the provers can reason about (an `ASSUME` in `MCRoster` compares it with the community modules' `RemoveFirst`) |
| `Membership` | abstract: who is on the roster of a play |
| `Roster` | plays, requests, the two lists and every call in flight; refines `Membership` |
| `MCRoster` | three users, up to two plays and three requests |
| `WaitingLines` | abstract: first come, first served, one place per user |
| `CourtQueue` | courts, photo documents, the page and every call in flight; refines `WaitingLines` when operations do not overlap |
| `MCCourtQueue` | two users, two courts |
| `RandomTeam`, `MCRandomTeam` | the dealing loop, on six players in teams of two |
| `Account` | users documents, and per phone the user defaults, the page and every call in flight |
| `MCAccount` | one phone that two people share, or two people with a phone each |
| `Feed` | one user's block list, the public feed and the block list page, with every call in flight |
| `MCFeed` | two users with a play each |
| `Hud` | the one HUD of the app, a component that `MyPlays` extends |
| `MyPlays` | the pages of plays and competitions on the HUD, with every read of a join |
| `MCMyPlays` | two plays, one of them posted by the user |
| `RequestNews`, `MCRequestNews` | the notifications of requests; two users of one phone, one request |
| `ListLemmas`, `RosterProofs`, `CourtQueueProofs`, `AccountProofs`, `FeedProofs`, `MyPlaysProofs`, `RequestNewsProofs`, `RandomTeamProofs` | proofs |

### 2.1 Roster

A **job** is one asynchronous call in flight: `playJobs` (savePlay, deletePlay and
its sweep of the requests), `requestJobs` (saveRequest's query and write, the sweep's
deletes), `statusJobs` (updateRequest, cancelRequest), `listJobs` and `infoJobs` (the
read-then-write edits of `my_play_list` and `player_info`). A user operation puts its
jobs in flight and returns; a store action answers a job and runs its callback.
An edit has two steps: `ReadList`/`ReadInfo` keeps in `snap` what the callback was
given, `WriteList`/`WriteInfo` commits the list computed from it. Between a callback's
write and its commit nothing else of that client can be observed (Firestore applies a
client's writes in order and shows them to its own reads at once), so the callback's
write and its commit are one step.

| Action | Code |
|---|---|
| `SavePlay`, `CommitSave` | `EstablishFinderViewController.addData`, `savePlay` and its completion handler |
| `DeletePlay`, `CommitDelete`, `SweepRequests`, `DeleteRequest` | `deletePost`, `deletePlay`, `deletaAllRequestOfPlayId` |
| `SaveRequest`, `CheckRequest`, `PutRequest`, `AnswerToAnother` | `sendRequest`, `saveRequest`, whose query's handler looks for a request of whoever is in the user defaults by then: the sender, or somebody else |
| `SaveProfileInfo` | `saveProfileInfo` of a user who returns to a removed account: an empty `my_play_list` |
| `UpdateRequest`, `CancelRequest`, `CommitStatus`, `FailStatus` | the accept, deny and cancel buttons; `updateRequest`, `cancelRequest` |
| `ReadList`, `WriteList`, `ReadInfo`, `WriteInfo` | the five append/delete functions |
| `GetPlayRequests`, `GetThisUserPlays`, `UpdateRequestsSentTableView` | the fetches and the listener that fill the pages |
| `Lose` | a call ends with an error, which the app prints, or the app is ended |

What is abstracted: everything of a document that no property looks at (names, times,
prices, levels; so `updatePlay`, which writes only those, is no action); the reads of
one fan-out are one step (`MyPlays` has the steps of that join); the
filters of the public feed. Pages that lose what they show when the app restarts are
covered by pages that fetched before anything was stored. The order in which
`deletePlay` issues its calls is not used, which allows more than the code does.
`granted`, `ledger`, `wiped` and `tangled` are history: who was ever accepted, the
seats the committed decisions gave, who has returned to a removed account, and whether
an operation has begun while calls of another were in flight, a call has failed or a
sender has left the phone before the query was answered. The list of somebody in
`wiped` starts again without the plays that still name them; nothing is claimed of it.
What the lists hold is claimed of the behaviours that are not tangled; everything else
of all of them.

### 2.2 CourtQueue

Per user the model keeps the four things `PlayOneViewController` decides by
(`playOneData`, `canAddPlay`, `courtIAdded`, the cancel item) and which section headers
show the "+"; per call a fetch, a court edit, a document write or an upload. `DidGet` is the
delegate method that sets the buttons; `LineUp` and `CancelPlay` are the taps (the
alert that confirms a cancel is part of it), `LineUpTraps` and `CancelPlayTraps` the
taps whose index or forced unwrap ends the app; `Kill` ends it from outside.
`RedrawHeader` is a header that is scrolled into view and drawn again, with the "+" as
`canAddPlay` is by then. `Heard`
is the snapshot listener, which wakes every open page after a change.

What is abstracted: a fetch's reads of the users in line (one that fails is `Lose`);
one phone per user; courts are there from the start, as no client creates one; an
upload stands for the way from the own row through the camera to `savePlayOneImage`;
an ended app loses its reads but not the writes of its own document, which Firestore
keeps on the device.

### 2.3 RandomTeam

A seat per player of the play; the deal is every order that `shuffled()` followed by
the sort by gender can give. Levels are sums of five marks, averages are compared as
integers, and a difference of exactly half a level, where the code's doubles may be
rounded either way, is accepted or dealt again at will. The loop has no other exit, so for
players who cannot be divided evenly it never ends (`DealAgain`).

### 2.4 Account

A users document is kept as far as sessions look at it: its Apple user, the id, the
status and whose photo it shows. A phone has the three entries of the user defaults
that decide something (`user_identifier`, `firebase_id`, `id`), the page on the screen
and `thisUser` of the last `InputProfileViewController`. Calls in flight are queries
by user identifier (`signIns`: the launch's, the login button's first and, after it,
`getProfileData`'s), queries by id (`checks`), uploads and writes. Each call knows who
still waits for it: the page that started it, only the app (the page was left; the
handlers hold `self`, so they still run, but what they present or pop has no effect),
or nobody (the app has ended; a write is committed all the same).

| Action | Code |
|---|---|
| `HandleLogIn`, `AnswerNobody`, `AnswerSomebody`, `AnswerProfile` | the Apple button; the query's handler with its three outcomes; `showInputProfileViewController` |
| `DoneInput`, `AnswerCheck`, `CommitSave` | `doneInput`, `saveProfileInfo`'s query, write and completion |
| `PushToInputProfile`, `Back`, `ChangeUserInfo`, `AnswerCheck`, `CommitUpdate` | "edit profile", `changeUserInfo`, `updateToForebase`, `updateProfileInfo` |
| `DeleteAccount`, `CommitRemove` | `deleteAccount`, `removeThisuser` |
| `Logout`, `SaveProfileImage`, `PutData`, `CommitImage` | `MyViewController` |
| `Reopen`, `AnswerLaunch` | `SceneDelegate.setAnimate` |
| `FailWrite`, `Lose` | calls that end with an error |

What is abstracted: the fields of the profile that decide nothing here (the empty
`my_play_list` and `block_list` that `saveProfileInfo` writes for a user who returns are
`SaveProfileInfo` of `Roster` and of `Feed`); the checks of the form for empty fields (only complete forms are submitted); Apple's own dialog, which
names one of the people who use the phone. `getProfileData` calls its completion once
per document; several documents are one step, in any order. `hasty` is history: a
call has failed, or a phone was used, or its app ended, while it had calls in flight.
What `SessionAgrees`, `OneAccount`, `IdsUnique`, `OwnPhoto` and `LaunchEnds` claim is
about users who wait; that documents keep their owners and remembered users their
accounts is claimed of all.

### 2.5 Feed

The stored state is the user's block list and `upcoming`, the plays in Firestore whose
start time has not come, which is all that `getPublishPlay` looks at. On the phone: the
plays the feed shows and its waiting animation; the block list page, its rows and the
HUD, which comes and goes with an animation that lets touches through, so that the page
can be left while its HUD comes, which then stays. A fetch of the feed has two answers
(the user's document, the plays), an edit of the block list a read and a write, the
page's join the list and one answer per user.

| Action | Code |
|---|---|
| `GetPublishPlay`, `AnswerUser`, `AnswerPlays` | `viewWillAppear` and pull-to-refresh, `getPublishPlay`, the feed's `didGet` |
| `BlockAction`, `ReadEdit`, `WriteEdit` | `ProfileView.blockAction`, `addToBlocklist`; the pop may show the feed, which fetches |
| `OpenBlockList`, `AnswerList`, `AnswerBlocked`, `Close` | `BlockListViewController`, `getBlockList`, its `didGet` |
| `AnimationDidFinish` | the end of the HUD's animation |
| `SaveProfileInfo` | the form of a user who returns to a removed account: `saveProfileInfo` writes an empty `block_list`, and the tabs start anew |
| `DeleteRow`, `ReadEdit`, `WriteEdit` | the row's delete, `removeFromBlocklist` |
| `SavePlay`, `Passes` | plays that are posted, start or are deleted |
| `LoseFetch`, `LoseEdit`, `LoseJoin`, `Reopen` | calls that end with an error; the app's end and next start |

What is abstracted: the order of the plays and rows; the label "no plays", which is put
over the feed by an empty answer and never taken off; a notice's 1.5 seconds (its
timer, which could end a later "Loading" too early, is taken to have fired); an
updated start time (a play that passes and is posted again). `current` (the last answer
of the feed was asked for after the last change), `decided`, `tangled` and `left` (the
page was left before it was told of its list) are history.

### 2.6 MyPlays and Hud

`Hud` is `JGProgressHUD` as the app drives it: in a view or not, the animation that
runs, a dismissal that was put off until it ends, and the timers of notices.
`ShowInView`, `DismissAnimated`, `CleanUpAfterPresentation`, `CleanUpAfterDismissal`
are the pod's methods, `Show`, `ShowNotice`, `Dismiss` those of `LKProgressHUD`; none of
them knows who called.

| Action | Code |
|---|---|
| `Open`, `OpenCompetitions`, `Refresh`, `Back` | `viewDidLoad`, `viewWillAppear`, the refresh header, the back button |
| `SelectRow`, `BackFromForm`, `AddData`, `DeletePost` | a row of `MyFinders`; the form of a post, `updatePlay`, `deletePost` |
| `AnswerUser`, `AnswerPlay`, `AnswerCompetitions`, `DidGet` | `getThisUserPlays`: the list, then a read per play; `getCompetion`; the pages' `didGet` |
| `AnswerMissing`, `FetchEnds` | a read that finds no play, or ends with an error: the count is never complete |
| `Unlist`, `Deleted`, `DeleteFails`, `LoseUnlisting` | the callbacks of `deletePlay` |
| `OthersChange`, `Notice` | what other phones store; the notice of another page's call |
| `HudMoves` | an animation or a timer ends |

Touches reach a page only while no HUD is up, or while it comes or goes (`Touchable`).
A fetch keeps the page it was for; a page that was left ("left") is still told, because
its refresh header holds its handler and the handler the page, and dismisses the HUD.

What is abstracted: the text and indicator of the HUD; durations; the pages
`MyFinderInfo` and `EstablishFinder` are one page, and what the form refuses it refuses
with a notice; an unlisting's read and write are one step here (`Roster` has both);
rows as they are sorted. `current` and `forsaken` are history: the rows were asked for
after the last change; a fetch has ended without an answer since the HUD is up.

### 2.7 RequestNews

One phone, its sessions as far as listeners need them, and the requests of the store
with the time their sender's clock showed at the tap.

| Action | Code |
|---|---|
| `Send`, `Changed` | `saveRequest`'s write, with the `Date()` of an earlier tap; accepting, denying, cancelling, deleting |
| `LaunchEnds`, `LogIn`, `Logout`, `Relaunch` | `SceneDelegate` (launch date, tabs or login page), `TabBarViewController.viewDidLoad`, the sign-out |
| `DeleteAccount`, `RemoveConfirmed`, `RemoveFails` | `InputProfileViewController.deleteAccount`, which shows the login page at once, and the late completion of `removeThisuser`, which clears the user defaults under whatever page is shown then: the tabs may stay without a user |
| `Snapshot`, `ListenerFails` | the listener of `listenPlayRequests` |
| `Notify`, `NoSender` | `successNotificationContent`, after or without the sender's document |

What is abstracted: a modified or removed document, which the handler prints; the text
of the notification; seconds are the unit of both clocks, as in the comparison. Not
modelled: a scene that is disconnected and connected again within one process, and the
permission to notify. The listener of the requests sent is
`UpdateRequestsSentTableView` of `Roster`. `signIns`, `noticed`, `ahead`, `unread` and
`launches` are history.

## 3. Runs

| Run | Specification | Shows | Bounds |
|---|---|---|---|
| `roster` | `Spec`, weak fairness of the store | types; the finder stays first on the roster; nobody is on it unaccepted; a deleted document stays deleted; every behaviour is one of `Membership`; unless operations overlap or fail, both lists hold what was decided (the list of who has returned to a removed account excepted), stale pages included, there is one request per sender and play, and posted plays and accepted senders arrive | 1 play, 3 requests, two of them of one sender; 5 operations one at a time (post, ask, accept, cancel, ask again), 4 that overlap in every way |
| `roster_finder_loses` | no failures | *violated*: a finder who posts two plays quickly may lose one of them | 2 plays, 2 operations |
| `court_queue` | `Spec` | nobody is in a line they did not tap; buttons agree; cancel is for a court that was tapped; no photo without a document | 2 users, 2 courts, 2 taps, one fetch in flight per page, answered late; fetches that overtake each other are left to the proof |
| `court_queue_serial` | one operation at a time, weak fairness | page, line and document tell the same story; refines `WaitingLines`; whoever is in line sees it | 2 users, 6 taps |
| `court_queue_nil` | no failures | *violated*: cancel before the next answer unwraps nil | 1 user, 2 taps |
| `account` | `Spec`, two people share a phone, weak fairness of its answers | types; no document changes hands; whoever is remembered has an account; of users who wait: page, user defaults and document agree, one account per person, removal and return included, ids are unique, photos stay with their takers, the launch page gives way | 12 taps of users who wait (both sign up, one edits the profile or removes the account, both come back and take a photo); 6 of users who do not |
| `account_ids` | `Spec`, a phone each, only users who wait | *violated*: two phones save one id | 4 taps |
| `feed` | `Spec`, weak fairness of answers and animations | no duplicates in the block list; an up-to-date feed with something to show shows exactly that; edits that do not overlap do what was decided; the HUD goes away unless an answer fails or the page is left while it comes | 2 users with a play each, 3 taps (block, open the list, unblock, leave, refresh), any number of returns to a removed account, two fetches and two edits in flight |
| `feed_hides_blocked` | `Spec` | *violated*: an answered refresh leaves the last play on the page | 1 user, 1 play |
| `my_plays` | `Spec`, weak fairness of answers, animations and timers | types; the HUD is never up without somebody to take it down, and goes, unless an answer has failed; rows asked for after the last change are complete and of the last version | 2 plays, 3 taps (open, edit, delete, refresh, leave), 1 edit of a play, 1 change by others, 1 timer at a time |
| `request_news` | `Spec`, weak fairness of snapshots and reads | types; a listener notifies once of a request, its receiver, in one launch only; a request newer than the launch is notified of, unless its sender cannot be read | 2 users, 1 request, 3 launches, 3 sign-ins, clocks of 0 or 1 |
| `random_team` | `Spec` | full, disjoint, even teams within half a level | 6 players, 2 or 3 women, levels 2, 7, 15 (differences of less than, exactly and more than half a level) |

Bounds: `MaxOps` counts user operations, `MaxFetches` the fetches of one page in
flight; both are in the guards of the actions that start them. The properties are
about two, or for the queue three, operations that overlap; a further operation
starts calls of the same kinds.

In `account` and `roster`, `MaxHasty` and `MaxTangled` bound the taps of behaviours in
which calls overlap or have failed, which are far more than the others. `my_plays` needs
two taps for a page that is left with a fetch in flight and a third for the page that
comes after it; two places of the list make the order of a join's answers matter.
`request_news` needs a second launch, a user who signs in twice and another one in
between; requests share no state of the phone but a snapshot, and the proof of
`NotifiedOnce` has any number of them.

Fairness: Firestore retries a call until it is answered and listeners are kept open,
so a call in flight is answered or fails. No user action and no failure is fair; each
liveness property excepts what has failed. `Roster.Spec` is fair to the store's answers,
`Account.Spec` phone by phone: the calls of one phone are answered whatever the other
one does. `Feed.Spec` and `MyPlays.Spec` are fair to the answers and to the end of an animation,
`MyPlays.Spec` also to timers, which run on the phone; `RequestNews.Spec` to snapshots and
reads. `CourtQueue` has fairness in its serial specification only, which has no `Lose`
or `Kill`. Nothing is assumed, or claimed, of the end of the team page's loop: that a deal
which is accepted is drawn at last is a matter of probability.

Deadlock is checked except on the team page, which ends once the teams are shown, and in
`my_plays` and `request_news`, where everything may be answered and the bounds used up.

### What the runs with a violation mean

* `FinderGoes`: `savePlay`'s handler appends the play to the finder's `my_play_list`
  ("finder must have to go to that play"), by reading the list and writing it back
  whole. The trace has two posts whose appends overlap: both read the list before either
  has written it back, and the later write drops the play of the earlier one.
* `CourtToCancel`: `lineUp` shows the cancel item, `courtIAdded` comes with an answer;
  `cancelPlay` unwraps it by force.
* `FeedHidesBlocked`: the feed's `didGet` replaces what it shows only by a list that is
  not empty ("只顯示不再封鎖名單的貼文", "只顯示 start time 在未來的"), and without any play
  nothing is delivered.
* `IdsUnique` (two phones): `saveProfileInfo` looks for the id ("檢查使用者輸入的 id
  是否已經有人用了") and writes it after the answer; nothing keeps another phone from
  doing the same in between. It takes two writes of one id under way at once, which is
  proved below.

## 4. Proofs

All proofs are for any set of users, plays, requests and courts, any `MaxOps` and any
number of calls in flight; they assume only `RosterAssumption`,
`CourtQueueAssumption`, `AccountAssumption`, `FeedAssumption`, `HudAssumption`,
`MyPlaysAssumption`, `RequestNewsAssumption` and `RandomTeamAssumption` (who posts and sends what, nobody asks to
join their own play, the bounds are numbers, `Unread`, `NoCourt`, `None` and the like are
no values of the store, a team page is opened with three players per seat of a team).
The theorems about users who wait assume more, which is said below. Every safety
property that a run checks is proved.

**Roster** (`RosterProofs`): type correctness; `FinderOnRoster`; `Consent`;
`NoResurrection`; and that `Roster` implements `Membership`. None of them is
inductive: the next `WriteInfo` stores what some callback holds, and that need not be
what the document holds now. `IInv` therefore says of *every list held in a callback*
what must be true of the lists stored (`StoredSound`, `InfoJobsSound`,
`ListJobsSound`), and that a play or request is created by one write only
(`PlaysOnce`, `RequestsOnce`), so that a late creation cannot follow a deletion. The
step lemmas `WhoChanges...` say which actions touch which variables, so that the
invariant's parts are proved action by action only where they are disturbed. The
refinement maps `CommitSave` to `Publish`, `CommitDelete` to `Delete`, `CommitStatus`
to `Accept` and `WriteInfo` to `Change`; everything else stutters.

What is said of operations that do not overlap is `Ledger` and `OneRequest`, proved from
`UntangledInv`. They only speak of moments when nothing is in flight; the invariant says
what the calls of the one operation owe: `Apart` (calls in flight together are of one
operation: a publication, a request, a decision, one list edit or the sweep of a
deletion), `ReadsFresh` (what an edit has read is what is stored) and `Balance` (each of
the two lists will hold what was decided once the edits in flight are written). The
lists are compared by how often an element occurs, so a list edit is followed by the
lemmas `CountAppend` and `CountRemoving`; that they count once is a consequence.
`FirstOfKind` says that a request about to be stored is the first of its sender for its
play: the answer of the duplicates query that `saveRequest` waits for still holds. The
part `PostedInv`, that nobody asks for a play before it is stored, is proved without
that restriction.

**Court queue** (`CourtQueueProofs`): type correctness; `ButtonsAgree` (inductive with
the types); `OnlyTapped` and `CancelsOwnCourt` from an invariant that again speaks of
the lines held by calls (`CallsSound`): a line that was read was a line of users who
tapped, so what is written back is; and `NoPhotoComeback`. For `SerialSpec`, in which a tap
waits for the calls of the last one: `StoryAgrees`, and that the queue implements
`WaitingLines`. `SerialInv` says that at most one call edits a line and has read what is
stored (`OneCall`), that nobody is in a line twice or in two lines (`OnePlace`, without
which removing the first occurrence would not be leaving the line), and relates the
page and the photo document of each user to the courts that user waits for once the
calls are answered (`Bound`, `PageAgrees`, `HeadersAgree`, `DocAgrees`). The write of an "add" maps to
`Join`, that of a "delete" to `Leave`.

**Accounts** (`AccountProofs`): type correctness; `OwnerFixed`; `LaunchFinds`. A
document changes hands if a save reaches one that is somebody else's, and a save takes
its document from an id check, which took it from a form, which took it from a query:
`IInv` follows the document through all of them (`FormSound`, `ChecksSound`,
`SavesSound`) and adds that two saves on their way to one new document are of one
user. The lemmas `Who...` say where forms, checks and saves come from.

Of users who wait for their calls: `SessionAgrees` and `OneAccount` from `PatientInv`,
which says that each phone is at one point of one flow (`Session`: at rest, signing in,
checking an id, uploading a picture or writing a document, with exactly that call in
flight) and what page, form, user defaults and document have in common there. Both
assume `OwnPhones`: no Apple user is a signer of two phones, or else the account one
phone removes is shown on the other. `IdsUnique` is false with
two phones, which the run `account_ids` shows. `IdsUniqueUnlessRaced` says exactly when:
for any number of phones ids stay unique as long as no two phones have a write of one id
under way at the same moment (`IdsApart`). The invariant `IdsInv` says that the id a
write carries is nobody else's (`ValuesFree`); a look-up that comes after the other
phone's commit finds the id taken, and the one write of each phone was looked up by it.
`OwnPhoto` needs no such assumption.

**Feed and block list** (`FeedProofs`): type correctness; `BlockListSet`;
`FeedShowsVisible`; `BlockLedger`. `SetInv` says that the lists edits have read are
sets, because a list written is made from one of them. `FeedInv` says that a fetch
which no change of the store has outdated has read the block list that is stored, so
that its answer filters by the right one. `LedgerInv` says that as long as nothing is
tangled at most one edit is under way (`OneEdit`: it has read what is stored, and what
it is about to write is what the user decided) and that no join of the page runs at
the same time (`JoinSound`: the join has read what is stored).

**Pages and HUD** (`MyPlaysProofs`): type correctness; `NothingLeftUp`; `RowsCurrent`.
The lemmas about `Hud` alone come first: a HUD that is in no view has no animation and
only an animation puts a dismissal off (`HudSound`), whoever is shown after a dismissal
or a notice is on the way out (`WillGo`, `GoingStep`), and only `Show` and `ShowNotice`
bring it up (`WhoShows`). `NothingLeftUp` then needs that the last fetch leaves
`fetches` only with a dismissal or by failing (`Waiting`). For `RowsCurrent` the
invariant says of every fetch that no change has outdated that the list it has read
and each row it has got are the stored ones.

**Notifications** (`RequestNewsProofs`): type correctness; `NotifiedOnce`. The invariant
says that a stored request has a time that is past unless the sender's clock was ahead
(`ClocksSound`), that listeners are of this launch, one per number, and have seen only
what is stored for their user (`ListenersSound`), that a sender is read for a first
notification of something the listener has seen (`ReadsSound`), and that what was
notified of in an earlier launch is not new in this one (`NoticesSound`).

**Random teams** (`RandomTeamProofs`): `FairTeams` and `BalancedTeams`. The invariant
`TeamInv` says that the teams shown are a deal that was accepted. The rest is about the
operators: an order is an enumeration of the players with one gender first
(`OrdersArranged`), every place of it is dealt to one team (`Places`), and a team gets
every third of the first *w* (`WomenOfTeam`), whose number is a quotient. `LevelSum` is a
recursive function; that it has a value, a number, is proved by its least
counterexample (`SumsExist`, `SumsNat`), with no induction theorem of the library.

**Nothing is forgotten.** Liveness is outside the prover, but each of the liveness
properties has a half that is safety: what somebody waits for is there, or a call is
under way that leads to it. With the fairness of the answers that is what the liveness
properties rest on, and it is proved for every value of the constants:

| Theorem | Beside | What is always under way |
| --- | --- | --- |
| `PublishedAlwaysUnderWay` | `PublishedIsListed` | the edit that lists a stored play for its finder |
| `AcceptedAlwaysUnderWay` | `AcceptedJoins` | the edits that put an accepted user and the play in each other's lists |
| `LineAlwaysUnderWay` | `LineIsShown` | the call or answer that tells a page of the line its user is in |
| `LaunchAlwaysAwaited` | `LaunchEnds` | the one query a launch page waits for, of a user with a document |
| `HudAlwaysAwaited` | `HudEnds` | an answer to the join of the block-list page, unless one of its reads has failed or the page was left |
| `DueAlwaysUnderWay` | `Notified` | the read of a sender, or the snapshot, that notifies of a due request, unless the sender could not be read |

They hold where the liveness property is expected to: for operations that do not overlap
and lose no call (roster; the list of who has returned to a removed account excepted), taps that wait (court queue) and users who wait (accounts).
Most need an invariant of their own. `LaunchIsAwaited` needs that the Apple user a launch
page asks about keeps a document, and that a query is only ever left by its page, never
forgotten. `DueIsUnderWay` rests on `HeardAll`: whatever a listener has seen as new it
has announced. `HudIsAwaited`: the join of the page ends when it has
as many *different* users as the list has places, so that it would wait for ever for
somebody listed twice; that it does not is a fact about cardinalities
(`DistinctElements`) on top of `BlockListSet`. `SeatKept`: an accepted request has a seat
by the decisions, which no decision on another request takes away because there is one
request per sender and play (`FirstOfKind`); with `Balance` the seat is in both lists
or on the way. `HudGoes` has its half in `NothingLeftUp`.

Model-checked only: every liveness property (`PublishedIsListed`, `AcceptedJoins`,
`LineIsShown`, `LaunchEnds`, `HudEnds`, `HudGoes`, `Notified`);
fairness is outside the prover. For the same reason the refinements that are proved are
of abstract specifications without fairness.

## 5. Plan

Done: the roster, the court queue, the team page, the accounts, the block list and feed,
the pages of plays on the HUD, the notifications; the proofs above, which cover every
safety property of the runs and the safety half of the liveness properties. Next:
abstract specifications of the block list (a set of users) and of the sessions (who is
signed in), and that `Feed` and `Account` implement them for users who wait.

### Not modelled

* Reports: one write that nothing in the app reads.
* The joins that fetch names and levels for the roster's and the court queue's pages
  have one step; the order of their answers decides nothing there.
* The checks of the profile form and of the form of a play for empty fields: they decide
  on one screen, without any call, and a refusal changes nothing but the HUD.
* Layout, formatting, the camera and image data.
* Firebase, the Keychain and the pods, except the HUD: they are used only as the calls
  above assume. The pods are most of the repository's lines and none of the program's
  own logic; the app itself is written in Swift.
