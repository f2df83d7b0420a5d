# Folium in TLA+

Folium (`src/lib`, Flutter and Firebase) is an app in which people register as
clients or as workers, log in, choose the profile they want to use and, as
workers, keep photos of their work. This directory models what the app does to
accounts, profiles, photos and pages, checks it with TLC on small instances, and proves
the central results with TLAPS for any number of accounts and calls.

## The system

| part | code | state | operations |
|---|---|---|---|
| Session | `views/Home`, `Login`, `UserChoice`, `MenuConfig`, `Main*`, `Home*`, `LoginController`, `UserChoiceController` | the Navigator's stack, the `load` flag of each page, `LoginController.currentUser`, the session Firebase Auth persists | check the session at the start, log in, choose a profile, show the main page, change the profile, log out |
| Registration | `views/UserChoiceRegister`, `SimpleRegister`, `workerViews/WorkerComplement`, `SimpleRegisterController`, `WorkerComplementController` | the object being registered, held in locals across awaits | create the account, upload the picture, store a client's profile; make a worker current, store its complement, list it below `workers/` |
| User objects | `pojo/*` | email, name, picture, place, occupation... | `toJson`, `fromDB`, `Snapshot.sendData` |
| Firebase | external, `environment/Environment.dart` | accounts, session, `users/<uid>/data`, `workers/...`, pictures | sign in and out, create a user, `once`, `set`, `putFile`, `getDownloadURL` |
| Registration form | `views/SimpleRegister`, `LocationController` | country, state, city and their menus, date of birth | the menus load each other; the form is validated |
| Complement form | `WorkerComplement`, `WorkerComplementController`, `CategoryController` | switches, category, text fields; the Worker object they are written to | set, validate, send the profile, list the worker |
| Photos | `PhotosController`, `PhotosWorker`, `AddPhoto` | the list shown, files and entries of photos | load, add, delete |

The rest of the repository is not the app's: `android` and `ios` hold what
Flutter generates, and `ios/Pods` the C, C++ and Objective-C libraries (leveldb,
nanopb, gRPC, the Firebase SDK) that CocoaPods copied there. The app reaches
them only through the Flutter plugins, as the external services below.

Parts meet in three places: the Navigator (a continuation of one page navigates
while another is on top), the singleton `LoginController` (written by
registration and choice, read by the main pages and by the complement), and
Firebase (the session of the device changes while objects of another account
are in flight).

What is hard here is asynchrony. Dart runs one continuation at a time, but each
`await` gives way: the back button removes a page without cancelling its
continuation, other pages start calls of their own, calls are answered in any
order, the network fails or the process dies between two calls of one
registration. The repository has no test of any of this
(`test/widget_test.dart` is the template of a counter app).
`PROJECT.json` lists these hazards line by line with the properties that watch
them.

What makes it correct:

* Session: whoever waits gets an answer; pages come back only in shapes their
  code is written for; the user shown is of the kind the page is for.
* Registration: a profile belongs to its account, is stored after the account
  and the picture it names, and keeps its kind; success means stored.
* Form: what is sent belongs together and is what was validated.
* Complement: who completes a profile is found where the profile says.
* Photos: the list shows what is stored; an entry belongs to the account that
  uploaded its file; whatever stops half-way leaves nothing worse than a file
  nobody sees or an entry that shows nothing.

## Modules

| module | what it is |
|---|---|
| `FoliumState` | the state everything shares, the Navigator, the life of an asynchronous call, Firebase |
| `Session` | Home, Login, UserChoice, main pages, settings, and what the platform does |
| `Registration` | UserChoiceRegister, SimpleRegister with its dialog, WorkerComplement |
| `Folium` | Session and Registration composed; the properties; the refinement mapping |
| `Accounts` | abstract specification: what may happen to an account over time |
| `RegisterForm` | the place menus of SimpleRegister, in detail (`Registration` starts from a form that is valid) |
| `Connection` | the calls of a part in which the order of the database matters: requests are served and answered in the order they were sent |
| `Photos` | PhotosWorker with its dialog, AddPhoto, PhotosController; over `Connection` |
| `Album` | abstract specification: what may happen to a photo over time |
| `Complement` | the Worker object that overlapping complements share, in detail; over `Connection` |
| `MCFolium`, `MCRegisterForm`, `MCPhotos`, `MCComplement` | instances for TLC |
| `FoliumProofs`, `OwnershipProofs`, `AccountLifeProofs`, `SubmissionProofs`, `RegisterFormProofs`, `AlbumProofs`, `GhostProofs`, `ComplementProofs` | theorems |

Operators whose comment begins "A mutant of" change the definition that follows
them the way a plausible mistake would; they are used by nothing. `PROJECT.json`
pairs each with a property that then fails.

### State of Folium and the code

| variable | code |
|---|---|
| `accounts`, `signedIn` | Firebase Auth: accounts, and the session it persists on the device |
| `data` | `users/<uid>/data` in the Realtime Database |
| `index` | the references below `workers/<country>/<state>/<city>/<area>` |
| `images` | the profile pictures in Storage |
| `currentUser` | `LoginController.currentUser` |
| `stack` | the Navigator's routes with the `load` flag of each page |
| `calls` | one record per continuation that waits for a Future |

A handler runs up to its first `await` in one action (a tap). Firebase then
settles the call (`ServeAuth`, `ServeStores`: effect and outcome together), and
later the event loop resumes the continuation (`Resume`), which runs to its end
or to its next `await` in one action. A call remembers the position `at` of its
page (0 when the page was removed) and whether the page's State is still
`mounted`: `Navigator.push` through a context works until the State is disposed
at the end of the transition, and throws after that. The call also carries the
locals the continuation will use (`user`, `rec`, `sent`).

### State of Photos and Complement and the code

| variable of `Photos` | code |
|---|---|
| `session` | who is signed in, by Firebase Auth |
| `files`, `entries` | the files below `images/user/<uid>` and the entries below `users/<uid>/photos` |
| `stack` | the routes of the photos; the rest of the app is one page, "Other" |
| `list`, `deleting` | `_list` and `_load` of PhotosWorker |
| `chosen`, `sending` | the photo of the dialog; `_load` of AddPhoto |
| `calls`, `queue` | continuations that wait, and those of them that wait for the database |
| `used`, `left` | keys that `push()` gave; keys whose deletion went on behind a page that was left, since the list was last cleared (observed only) |

| variable of `Complement` | code |
|---|---|
| `area` | `occupation.area` of each Worker object |
| `current` | `LoginController.currentUser`, if it is a Worker of this account |
| `profile`, `listed` | the area in `users/<uid>/data`; the areas below `workers/` that name the worker |
| `open`, `registered`, `failed` | the form can be sent; the account exists; a complement reported a failure or was cut off (observed only) |

### Abstractions

* An account's uid is its e-mail address, and a profile is its kind, its owner
  and whether it has a picture; the other fields are carried along unchanged.
* A route that is pushed is built at once: reading the current user in the
  `initState` of a home tab belongs to the step that opens the main page.
  Later rebuilds of a page that is already shown are not modelled.
* `setState` takes effect at once: a page that is loading has no button to tap.
  In the code this is so from the next frame on, and no handler looks at `load`
  itself; two taps that are both handled before that frame are not modelled, and
  `OneSubmission` says nothing about them.
* `once()` reads what the server has; writes that are pending on the device are
  not seen. Offline, database and storage calls stay pending for ever.
* A failed `createUserWithEmailAndPassword` may have created the account (the
  answer was lost). `onComplete` of an upload gives a snapshot either way; it
  is `getDownloadURL` that fails then.
* The picture of a home tab may load or not; nobody has to load it.
* When a page kind is disposed, all its removed instances are.
* `Relaunch` forgets calls that were not served; an effect that a request had
  before the process died is the serving of the call before `Relaunch`.
* In `RegisterForm` a choice and the menu it fills are one step: rootBundle
  keeps `locations.json` after its first load, so that the awaits of
  `_loadStatesMenu` and `_loadCitiesMenu` end before the next frame. The menus
  are sets; the few cities that `locations.json` names twice in one state are
  noted under the hazards.

* `Connection` assumes what the Firebase client promises: the requests of one
  connection reach the database, and are answered, in the order in which they
  were sent. `NoGhosts` and `ListedWhereStored` depend on it; without the order
  of `ItsTurn` TLC refutes `ListedWhereStored`. Auth and Storage are not ordered.
* In `Photos` the image is picked (ENVIAR FOTO does nothing without one), `push()`
  never gives a key twice, and the reads that a page starts after it was left
  are omitted, because they end in a list that nobody sees. A continuation of
  another page may at any time replace all pages or change the session; both
  happen in `Folium`. Such a continuation can also replace only the page on top
  (`Home.dart:26`) or push WorkerComplement over it (`SimpleRegister.dart:133`), and
  the late `Navigator.pop` of a page that was left (`AddPhoto.dart:73`) can pop the
  last route and leave an empty screen. "Other" does not tell these apart: they
  hide, replace or remove pages, and touch neither files nor entries nor a
  deletion that is under way.
* `Complement` keeps of a Worker object its area, the only field of the listing's
  path that the form sets. An object that nothing refers to is used again for a
  new one. `open` allows at least what the pages allow: whether a page is on
  top is left open where it depends on `Session`, the await of `currentUser()` is
  merged with the read after it, and the form may also be opened by another
  account without a profile while this account's worker is current
  (`OtherChoice`, the case of `stale_worker`). `ListedWhereStored` does not depend
  on when the form is open.

## Runs

| run | bounds | properties | shows |
|---|---|---|---|
| `overlap` | 2 accounts, 2 calls, no picture; 1.9 M states | `Ownership` | two continuations of different sessions, in any order and after any removal of their pages, keep data in flight with its owner |
| `accounts` | 2 accounts, 1 call, pictures; 250 k | `AccountFirst`, `PictureStored`, `ProfileKept`, `AccountLife` | what is stored is consistent, a profile that is sent again is not changed, and `Folium` implements `Accounts` |
| `submissions` | 1 account, 2 calls, pictures; 640 k | `TypeOK`, `StackShape`, `OneSubmission`, `LoginProgress`, `CompletedIsStored`, `LoginAnswered` | late continuations leave the stack, the pages of the photos aside, in the shapes the pages expect; the load flags keep a page from submitting twice; a reported complement is stored; the login page always gets back to its form or leaves |
| `form` | 12 places, cities of one name in several states | `PlaceExists`, `SentIsChecked` | the place sent exists and is the one checked |
| `photos` | 2 accounts, 1 key, 3 calls; 1.1 M | `NoGhosts`, `AlbumLife` | a deleted photo leaves the list for good, whatever loads overlap, unless its deletion was left behind; `Photos` implements `Album` |
| `complement` | 3 areas, 2 objects, 3 calls; 610 k | `ListedWhereStored` | overlapping complements that succeed leave the worker listed under the stored area |

Two accounts are enough for one to be mistaken for another, and two calls for
one to overtake the other; the proofs below remove both bounds. The stack is not
bounded: pages that push pages end by themselves, because each needs an answer
or lies at a fixed depth. One call at a time in `accounts` still interleaves the
calls of different pages with taps, Back and Relaunch. A profile without a
picture never gets past its home tab (see `home_stuck`), so that `overlap` changes
accounts by logging in over a running session and not by the menu; logging out
is in the other runs, and in the proofs. `overlap` and `accounts`
use the symmetry of accounts and of call identifiers, which no definition tells
apart; `submissions` checks liveness and uses none. Deadlock is checked in every
passing run: the platform can always relaunch the app.

`photos` and `complement` have three calls, so that a third one can come between
two that overlap: a load between a deletion and its own load, a complement
between the write and the listing of another. One key is one photo of either
account, and `NoGhosts` speaks of one photo at a time; other photos only matter
in that an album is not empty, which makes the list be replaced sooner. A
complement holds on to one object and `LoginController` to another, so two
objects of the account are enough for a complement to work on one that is no
longer current. All three properties are proved without these bounds.

The exception in `NoGhosts`, for a deletion that goes on behind a page that was
left, is real: a new page can read the entry before it is removed. It shows the
photo until its list is next cleared; from then on `NoGhosts` holds for this
photo too.

`ProfileKept` is about objects that outlive their session. WorkerComplement sends
the whole profile again, from whatever Worker `LoginController` holds: registered
or read any number of logins ago, and, as `stale_worker` shows, also for
somebody else's account. That this cannot take a picture away or turn a
profile into another is not in any one place of the code.

`AccountFirst` says that nothing is stored without its account. It does not speak
of the person whose `createUser` answer was lost, and who can neither register
again nor use the account: what it meets at its next login is `choice_stuck`.

`ListedWhereStored` is as much as the code gives. A complement that reports
success may have listed the worker under the area of a later one, and listings of
earlier areas are never removed.

**Fairness.** `FairSpec` assumes weak fairness of `ServeAuth(c)` and `Resume(c)`.
Auth requests end with an answer or an error after a time-out; Dart's event loop
takes every completed Future from its queue. Nothing is assumed of the database,
the storage, the picture, the platform or of the person at the screen.

### What the code does not keep

Each of these runs ends with a counterexample; the texts quoted are in
`PROJECT.json` under `findings`.

| run | property | what happens |
|---|---|---|
| `choice_stuck` | `ChoiceProgress` | `clientChoice()` throws for an account without a profile; the page looks for information for ever |
| `home_stuck` | `HomeProgress` | a profile without a picture never gets past "carregando perfil" |
| `cast_fails` | `CastsSucceed` | while a worker registers, the late `_check()` puts UserChoice over the form and CLIENTE makes a Client current; then the complement finishes and creates HomeWorker, whose cast throws |
| `false_success` | `SuccessMeansStored` | `registerClient()` ignores the result of the write |
| `switch_stuck` | `ComplementHasWorker` | a client who changes to the worker's profile reaches a form that cannot be sent |
| `stale_worker` | `CompletesOwnProfile` | an account without a profile logs in over the session of a worker who has just registered, and its complement is sent for that worker: neither `login()` nor `logOut()` touches `currentUser` |

`SimpleRegister`, `WorkerComplement`, `AddPhoto` and `PhotosWorker` keep their progress
text after a failed call in the same way as `choice_stuck` shows it for UserChoice;
the hazards name the lines.

## Proofs

TLAPS proves the following for every set of accounts, every number of calls and
every `locations.json`. The assumptions are `PicturesAreChoices`, `NullIsNoUser`,
`NullIsNoRecord` and `NullIsNoCall` (null is neither a user nor a `User` object nor
a call) in `FoliumState`, `NullIsNoPhoto` and `NullIsNoCall` in `Photos`, `NullIsNoArea` and
`NullIsNoCall` in `Complement`, and `PlacesAreNamed` in `RegisterForm` (a place is
a record of three names, none of which is the menus' first entry).

* `TypeCorrect`, `ShapesKept` (`FoliumProofs`). The two are inductive only
  together, as `TypeInv`: a tap on Terms needs the form below it to have a
  well-typed kind, and the shapes need to know that the stack is not empty. The
  lemmas about `push`, `pop`, `pushReplacement` and `setState` carry the
  argument; each action then names its route.
* `OwnershipHolds` (`OwnershipProofs`), and from it `AccountsFirst`,
  `PicturesStored` and `CompletedStored`. That data stays with
  its owner is not inductive by itself, because everything written was read or
  created several steps earlier. `Ownership` says what each User object in
  flight already guarantees: the one in `LoginController`, one that a
  registration carries, one that a complement sends, one that was read. Its
  heart is `Alone`: from the creation of an account until its profile is sent,
  no other call and no current worker acts for that account. Without it, a
  client's profile could be written over the complement of the same account.
  What makes it true is that `createUser` succeeds for a new account only.
  `WorkersAgree` adds that all Worker objects of one account (current, stored,
  being sent, read) are alike: the first is made while the account is `Alone`,
  and the others are copies of it by way of the database or of the singleton.
* `LifeImplemented` (`AccountLifeProofs`): `Spec => AccountLife`. Each write is a
  step of `Accounts` or changes nothing there; that a complement cannot turn a
  client into a worker, or a second write change the kind, is `Ownership`.
  `ProfilesStay` in the same module, `Spec => ProfileKept`: a write for an account
  that has a profile is a complement's, and by `WorkersAgree` it sends what is
  stored.
* `FormAlwaysAgrees`, `SentExists`, `SentChecked` (`RegisterFormProofs`).
  `FormAgrees` states what the menus offer: while a state is selected the city
  menu is that state's, although it is not cleared when the country changes;
  and from the check to the sending nothing is tapped.

* `SubmitsOnce`, `LoginWaits` (`SubmissionProofs`): `Spec => []OneSubmission` and
  `Spec => []LoginProgress`. A load flag belongs to a route and a call to a
  position, so the argument needs that they stay together: `Attached` says that a
  call waits at the page that made it, and `TermsOverForm` that the form below the
  terms is not loading. `Submissions` is the conjunction; it is inductive with
  `TypeInv`. The work is in the navigation, which moves routes under waiting calls.
* `ListingAlwaysKept`, `ListedWhereStoredHolds` (`ComplementProofs`). The inductive
  invariant `ListingKept` has two parts beside the types and the queue.
  `ListingDue`: a profile that is not listed has a complement under way that will
  write another one, list it, or report a failure. `LastWriteCounts`: if an object
  no longer has the area a waiting write sends, a later write is waiting too. The
  second is what the order of the connection gives.
* `PhotosAlwaysKept`, `ImplementsAlbum` (`AlbumProofs`): `Spec => AlbumLife`. In
  `AlbumInv` a key is known when an entry, the list, the dialog, a deletion or an
  answer holds it. A photo that is being added has a key that is not known, that
  no other addition has, and below which there is at most its own file; hence no
  deletion can reach it, in whatever session. A file without an entry is not
  known either, so that a file that is deleted has an entry. Most steps only
  carry known keys on (`Quiet`), and one lemma treats them all; storing an entry
  and giving a key are treated by themselves.

* `DeletionsAlwaysClear`, `DeletedPhotosStayAway` (`GhostProofs`):
  `Spec => []GhostInv` and from it `Spec => []NoGhosts`. A list may show a photo
  that is gone, and an answer that nobody has taken yet may hold one. The first
  is harmless when a deletion is to resume that clears the list (`Clears`) or was
  left behind; the second when a deletion that has removed the entry (`Removed`)
  resumes after the answer, and then is one of the two. `GhostsCleared` says this. It needs `QueueOK` (the answers
  come in the order of the queue, answered requests before open ones: hence every
  read that has seen an entry resumes before the deletion that removes it),
  `DeletionsOK` (at most one deletion has its page, and this page is on top with
  its progress; the others are in `left`) and `ReadsOK`. Almost every step changes
  one call and leaves the others, up to pages that are left (`OthersKept`);
  `StepKeeps` treats those steps, and the four things that can happen to the
  queue have a lemma each. By themselves remain the removal of an entry, the
  showing of what was read, and the start of a deletion. TLC checked `GhostInv`
  on two accounts, two keys and two calls (305 k states), and on one account, one
  key and three calls (239 k), before it was proved.

Only model-checked: `LoginAnswered` (liveness, with the ENABLED of its fairness,
is out of the prover's reach), and the counterexamples above.

## Not modelled

The libraries below `ios/Pods` and the generated code of `android` and `ios`:
third-party or generated, and no part of what this project is about. They are by
far the most C code in the repository; the app itself is Dart. Of the app: the
fields of the two forms that have one assignment and one check each, the list
of categories, the description and the picking of a photo, the layout.
`test/widget_test.dart` tests the template's counter, which the app does not have.

## Plan

1. Done: the core (`FoliumState`, `Session`, `Registration`, `Folium`),
   `Accounts` and the refinement, `RegisterForm`, and their theorems.
2. Done: `Photos` with `Album`, `Complement`, both over `Connection`; the theorems
   about submissions, the listing and the album.
3. Done: the proofs of `NoGhosts` and of `ProfileKept`. Every safety property and
   refinement of a passing run is now a theorem.
4. `Photos` composed with `Session`, in place of "Other" and `SessionChanges`: it
   would show which of the interleavings allowed there really occur, and no
   property asks for it so far.
