------------------------------- MODULE Photos -------------------------------
(***************************************************************************)
(* The photos of a worker: PhotosWorker.dart with its dialog, AddPhoto.dart*)
(* and PhotosController.dart.  As in FoliumState, every await is a call    *)
(* that Firebase serves and the event loop resumes later; all other pages  *)
(* of the app are one page, "Other", whose late continuations may change   *)
(* the session or take the pages of the photos away.                       *)
(***************************************************************************)
EXTENDS Connection

CONSTANTS
    Users,      \* accounts
    Keys        \* the keys of photos; bound: photos that are ever added

VARIABLES
    session,    \* Firebase Auth: who is signed in
    files,      \* Storage: <<uid, key>> of the files
    entries,    \* Realtime Database: <<uid, key>> below users/<uid>/photos
    stack,      \* the routes of the photos, above the rest of the app
    list,       \* PhotosWorker._list
    deleting,   \* PhotosWorker._load
    chosen,     \* the photo that the dialog is about
    sending,    \* AddPhoto._load
    used,       \* keys that push() has given
    left        \* observed only: keys whose deletion went on behind a page
                \* that was left, since the list was last cleared

services == <<session, files, entries>>
view == <<stack, list, deleting, chosen, sending>>
vars == <<session, files, entries, stack, list, deleting, chosen, sending,
          calls, queue, used, left>>

Items == Users \X Keys

ASSUME NullIsNoPhoto == NULL \notin Users \cup Keys \cup Items

(* The steps of loadPictures, deletePicture and addPicture, by their await.*)
PageOf ==
    [loadUser |-> "Photos", loadOnce |-> "Photos",
     delUser |-> "Photos", delFile |-> "Photos", delEntry |-> "Photos",
     addUser |-> "Add", addFile |-> "Add", addUrl |-> "Add",
     addEntry |-> "Add"]

Ops == DOMAIN PageOf

(* at: the page is on the stack, leaving it, or disposed; user: uid or     *)
(* uidUser; key: uidPhoto; seen: what once() read.                         *)
Call == [op : Ops, at : {"on", "leaving", "gone"}, user : Users \cup {NULL},
         key : Keys \cup {NULL}, seen : SUBSET Items,
         answer : {"pending", "ok", "error"}]

ASSUME NullIsNoCall == NULL \notin Call

NewCall(op, key) ==
    [op |-> op, at |-> "on", user |-> NULL, key |-> key, seen |-> {},
     answer |-> "pending"]

Item(call) == <<call.user, call.key>>
Top == stack[Len(stack)]
Below == SubSeq(stack, 1, Len(stack) - 1)

-----------------------------------------------------------------------------
(* Firebase, the external service *)

(* FirebaseAuth.currentUser() *)
ServeCurrentUser(c) ==
    /\ Pending(c, {"loadUser", "delUser", "addUser"})
    /\ calls' = [calls EXCEPT ![c].answer = "ok", ![c].user = session]
    /\ UNCHANGED services

(* The answer to delete() may be lost after the file was deleted.          *)
ServeDelete(c) ==
    /\ Pending(c, {"delFile"})
    /\ \/ /\ Item(calls[c]) \in files
          /\ files' = files \ {Item(calls[c])}
          /\ Reply(c, "ok")
       \/ files' \in {files, files \ {Item(calls[c])}} /\ Reply(c, "error")
    /\ UNCHANGED <<session, entries>>

(* onComplete gives a snapshot whether the upload succeeded or not.        *)
ServePutFile(c) ==
    /\ Pending(c, {"addFile"})
    /\ files' \in {files, files \cup {Item(calls[c])}}
    /\ Reply(c, "ok")
    /\ UNCHANGED <<session, entries>>

ServeGetDownloadURL(c) ==
    /\ Pending(c, {"addUrl"})
    /\ \/ Item(calls[c]) \in files /\ Reply(c, "ok")
       \/ Reply(c, "error")
    /\ UNCHANGED services

(* once() of users/<uid>/photos *)
ServeOnce(c) ==
    /\ Pending(c, {"loadOnce"}) /\ ItsTurn(c)
    /\ \/ calls' = [calls EXCEPT
             ![c].answer = "ok",
             ![c].seen = {e \in entries : e[1] = calls[c].user}]
       \/ Reply(c, "error")
    /\ UNCHANGED services

ServeRemove(c) ==
    /\ Pending(c, {"delEntry"}) /\ ItsTurn(c)
    /\ \/ entries' = entries \ {Item(calls[c])} /\ Reply(c, "ok")
       \/ UNCHANGED entries /\ Reply(c, "error")
    /\ UNCHANGED <<session, files>>

(* Snapshot.sendData of a Photo *)
ServeSend(c) ==
    /\ Pending(c, {"addEntry"}) /\ ItsTurn(c)
    /\ \/ entries' = entries \cup {Item(calls[c])} /\ Reply(c, "ok")
       \/ UNCHANGED entries /\ Reply(c, "error")
    /\ UNCHANGED <<session, files>>

Serve(c) ==
    /\ \/ ServeCurrentUser(c)
       \/ ServeDelete(c)
       \/ ServePutFile(c)
       \/ ServeGetDownloadURL(c)
       \/ ServeOnce(c)
       \/ ServeRemove(c)
       \/ ServeSend(c)
    /\ UNCHANGED <<view, queue, used, left>>

-----------------------------------------------------------------------------
(* Navigation *)

(* The continuation ends, by its last statement or an exception that       *)
(* nobody catches, and leaves the pages as they are.                       *)
Ends(c) == calls' = Finished(c) /\ UNCHANGED view

Left(cs, page) ==
    [c \in CallIds |->
        IF cs[c] # NULL /\ cs[c].at = "on" /\ PageOf[cs[c].op] = page
        THEN [cs[c] EXCEPT !.at = "leaving"] ELSE cs[c]]

IsDeletion(call) == call.op \in {"delUser", "delFile", "delEntry"}

(* The keys of the deletions that go on behind a page that was left.       *)
LeftBehind(cs) ==
    {cs[c].key : c \in {d \in CallIds : /\ cs[d] # NULL /\ IsDeletion(cs[d])
                                        /\ cs[d].at # "on"}}

(* _list.clear() and _load = false, or PhotosWorker is not there.          *)
Cleared ==
    /\ list' = {} /\ deleting' = FALSE
    /\ left' = LeftBehind(calls')

(* A mutant of the next definition: the old list is kept until the load.   *)
KeepsList(cs, d) ==
    /\ calls' = [cs EXCEPT ![d] = NewCall("loadUser", NULL)]
    /\ deleting' = FALSE
    /\ UNCHANGED <<list, left>>

(* _updatePhotosList(), with d for the call that loads the photos anew.    *)
updatePhotosList(cs, d) ==
    /\ calls' = [cs EXCEPT ![d] = NewCall("loadUser", NULL)]
    /\ Cleared

(* The route on top is popped: behind AddPhoto the list is updated.  "All  *)
(* the other pages" stay what they are without the top one, also if that   *)
(* was the last: an empty screen, from which no photos are opened.         *)
pop(cs, d) ==
    \/ /\ Top = "Add" /\ stack' = Below /\ sending' = FALSE
       /\ updatePhotosList(Left(cs, "Add"), d)
       /\ UNCHANGED chosen
    \/ /\ Top = "Dialog" /\ stack' = Below /\ chosen' = NULL
       /\ calls' = cs
       /\ UNCHANGED <<list, deleting, sending, left>>
    \/ /\ Top = "Photos" /\ stack' = Below
       /\ calls' = Left(cs, "Photos")
       /\ Cleared
       /\ UNCHANGED <<chosen, sending>>
    \/ /\ Top = "Other"
       /\ calls' = cs
       /\ UNCHANGED <<view, left>>

-----------------------------------------------------------------------------
(* HomeWorker.dart: Minhas Fotos, and PhotosWorker.initState *)

MinhasFotos ==
    /\ Top = "Other"
    /\ stack' = Append(stack, "Photos")
    /\ \E d \in CallIds : IsFree(d) /\ updatePhotosList(calls, d)
    /\ UNCHANGED <<services, chosen, sending, queue, used>>

(* PhotosController.loadPictures: user.uid throws for a null user.         *)
LoadUserReturns(c) ==
    /\ Answered(c, "loadUser")
    /\ \/ calls[c].user = NULL /\ Ends(c) /\ UNCHANGED queue
       \/ /\ calls[c].user # NULL
          /\ calls' = Awaiting(c, "loadOnce") /\ Sent(c)
          /\ UNCHANGED view
    /\ UNCHANGED <<services, used, left>>

(* The listener, PhotosWorker.action, is not called when there is nothing. *)
LoadOnceReturns(c) ==
    /\ Answered(c, "loadOnce") /\ Received
    /\ calls' = Finished(c)
    /\ list' = IF Succeeded(c) /\ calls[c].seen # {} /\ calls[c].at = "on"
               THEN calls[c].seen ELSE list
    /\ UNCHANGED <<services, stack, deleting, chosen, sending, used, left>>

-----------------------------------------------------------------------------
(* PhotosWorker.dart: the dialog, and PhotosController.deletePicture *)

PhotoTapped(e) ==
    /\ Top = "Photos" /\ ~deleting
    /\ stack' = Append(stack, "Dialog") /\ chosen' = e
    /\ UNCHANGED <<services, list, deleting, sending, calls, queue, used, left>>

ExcluirClicked ==
    /\ Top = "Dialog" /\ stack' = Below
    /\ deleting' = TRUE /\ chosen' = NULL
    /\ \E d \in CallIds :
          /\ IsFree(d)
          /\ calls' = [calls EXCEPT ![d] = NewCall("delUser", chosen[2])]
    /\ UNCHANGED <<services, list, sending, queue, used, left>>

DelUserReturns(c) ==
    /\ Answered(c, "delUser")
    /\ \/ calls[c].user = NULL /\ Ends(c)
       \/ /\ calls[c].user # NULL
          /\ calls' = Awaiting(c, "delFile")
          /\ UNCHANGED view
    /\ UNCHANGED <<services, queue, used, left>>

(* delete() throws for a file that is not there, and nothing else happens. *)
DelFileReturns(c) ==
    /\ Answered(c, "delFile")
    /\ \/ ~Succeeded(c) /\ Ends(c) /\ UNCHANGED queue
       \/ /\ Succeeded(c)
          /\ calls' = Awaiting(c, "delEntry") /\ Sent(c)
          /\ UNCHANGED view
    /\ UNCHANGED <<services, used, left>>

(* The list of a page that is not on the stack does not matter any more.   *)
DelEntryReturns(c) ==
    /\ Answered(c, "delEntry") /\ Received
    /\ IF Succeeded(c) /\ calls[c].at = "on"
       THEN updatePhotosList(calls, c) /\ UNCHANGED <<stack, chosen, sending>>
       ELSE Ends(c) /\ UNCHANGED left
    /\ UNCHANGED <<services, used>>

-----------------------------------------------------------------------------
(* AddPhoto.dart and PhotosController.addPicture *)

AddTapped ==
    /\ Top = "Photos" /\ ~deleting
    /\ stack' = Append(stack, "Add")
    /\ UNCHANGED <<services, list, deleting, chosen, sending, calls, queue,
                   used, left>>

(* ENVIAR FOTO, when an image was picked.                                  *)
EnviarClicked ==
    /\ Top = "Add" /\ ~sending
    /\ sending' = TRUE
    /\ \E d \in CallIds :
          IsFree(d) /\ calls' = [calls EXCEPT ![d] = NewCall("addUser", NULL)]
    /\ UNCHANGED <<services, stack, list, deleting, chosen, queue, used, left>>

(* Every error is caught: addPicture() is false, and AddPhoto keeps        *)
(* showing its progress.                                                   *)
AddUserReturns(c) ==
    /\ Answered(c, "addUser")
    /\ \/ calls[c].user = NULL /\ Ends(c) /\ UNCHANGED used
       \/ /\ calls[c].user # NULL
          /\ \E key \in Keys \ used :
                /\ used' = used \cup {key}
                /\ calls' = [Awaiting(c, "addFile") EXCEPT ![c].key = key]
          /\ UNCHANGED view
    /\ UNCHANGED <<services, queue, left>>

AddFileReturns(c) ==
    /\ Answered(c, "addFile")
    /\ calls' = Awaiting(c, "addUrl")
    /\ UNCHANGED <<services, view, queue, used, left>>

(* A mutant of the next action: the entry goes to who is signed in now.    *)
SessionEntry(c) ==
    /\ Answered(c, "addUrl") /\ Succeeded(c) /\ session # NULL
    /\ calls' = [Awaiting(c, "addEntry") EXCEPT ![c].user = session]
    /\ Sent(c)
    /\ UNCHANGED <<services, view, used, left>>

AddUrlReturns(c) ==
    /\ Answered(c, "addUrl")
    /\ \/ ~Succeeded(c) /\ Ends(c) /\ UNCHANGED queue
       \/ /\ Succeeded(c)
          /\ calls' = Awaiting(c, "addEntry") /\ Sent(c)
          /\ UNCHANGED view
    /\ UNCHANGED <<services, used, left>>

(* Navigator.pop(context) pops the route on top, which is another one      *)
(* while AddPhoto is leaving; a disposed AddPhoto has no context left.     *)
AddEntryReturns(c) ==
    /\ Answered(c, "addEntry") /\ Received
    /\ IF Succeeded(c) /\ calls[c].at # "gone"
       THEN pop(Finished(c), c)
       ELSE Ends(c) /\ UNCHANGED left
    /\ UNCHANGED <<services, used>>

-----------------------------------------------------------------------------
(* The platform and the rest of the app *)

(* The back button; CANCELAR in the dialog does the same.                  *)
Back ==
    /\ Top # "Other"
    /\ \E d \in CallIds : IsFree(d) /\ pop(calls, d)
    /\ UNCHANGED <<services, queue, used>>

Dispose ==
    /\ \E c \in Outstanding : calls[c].at = "leaving"
    /\ calls' = [c \in CallIds |->
                    IF c \in Outstanding /\ calls[c].at = "leaving"
                    THEN [calls[c] EXCEPT !.at = "gone"] ELSE calls[c]]
    /\ UNCHANGED <<services, view, queue, used, left>>

(* None of the pages of the photos is there.                               *)
NoPages ==
    /\ stack' = <<"Other">> /\ chosen' = NULL /\ sending' = FALSE
    /\ Cleared

(* A continuation of another page replaces everything.                     *)
Replaced ==
    /\ Top # "Other"
    /\ calls' = Left(Left(calls, "Photos"), "Add")
    /\ NoPages
    /\ UNCHANGED <<services, queue, used>>

(* Or signs in or out, behind the pages of the photos.                     *)
SessionChanges ==
    /\ session' \in (Users \cup {NULL}) \ {session}
    /\ UNCHANGED <<files, entries, view, calls, queue, used, left>>

(* The process dies and is started again.                                  *)
Relaunch ==
    /\ calls' = [c \in CallIds |-> NULL] /\ queue' = <<>>
    /\ NoPages
    /\ UNCHANGED <<services, used>>

-----------------------------------------------------------------------------
Init ==
    /\ session \in Users /\ files = {} /\ entries = {}
    /\ stack = <<"Other">> /\ list = {} /\ deleting = FALSE
    /\ chosen = NULL /\ sending = FALSE
    /\ calls = [c \in CallIds |-> NULL] /\ queue = <<>>
    /\ used = {} /\ left = {}

Resume(c) ==
    \/ LoadUserReturns(c)
    \/ LoadOnceReturns(c)
    \/ DelUserReturns(c)
    \/ DelFileReturns(c)
    \/ DelEntryReturns(c)
    \/ AddUserReturns(c)
    \/ AddFileReturns(c)
    \/ AddUrlReturns(c)
    \/ AddEntryReturns(c)

Next ==
    \/ MinhasFotos
    \/ \E e \in list : PhotoTapped(e)
    \/ ExcluirClicked
    \/ AddTapped
    \/ EnviarClicked
    \/ Back
    \/ Dispose
    \/ Replaced
    \/ SessionChanges
    \/ Relaunch
    \/ \E c \in CallIds : Serve(c) \/ Resume(c)

Spec == Init /\ [][Next]_vars

-----------------------------------------------------------------------------
(* Properties *)

(* A photo that was deleted does not stay in the list and does not come    *)
(* back to it, whatever loads overlap: _updatePhotosList clears the list   *)
(* before it loads, because the listener is not called for an empty album  *)
(* (PhotosController.dart:23).  The exception is a deletion that went on   *)
(* behind a page that was left: a new page may have read the entry before. *)
(* Such a photo is gone as soon as the list is loaded again.               *)
NoGhosts == ~deleting => \A e \in list \ entries : e[2] \in left

Stage(e) ==
    CASE e \in files /\ e \in entries -> "stored"
      [] e \in files /\ e \notin entries -> "uploaded"
      [] e \notin files /\ e \in entries -> "broken"
      [] OTHER -> "absent"

Abstract == INSTANCE Album WITH stage <- [e \in Items |-> Stage(e)]

(* The pages implement an album: an entry is stored below the account, and *)
(* only with the file, it was uploaded with; a file is deleted only with   *)
(* an entry that shows it; an entry is removed only after its file; and    *)
(* this although the session may change between any two awaits.            *)
AlbumLife == Abstract!Spec

-----------------------------------------------------------------------------
(* Why the pages implement an album *)

(* What a call means for its photo: the photo is being added, still        *)
(* without a file, or with it; or its file was deleted.                    *)
IsAdding(call) ==
    \/ call.op \in {"addFile", "addUrl"}
    \/ call.op = "addEntry" /\ call.answer = "pending"
NoFile(call) == call.op = "addFile" /\ call.answer = "pending"
HasFile(call) ==
    \/ call.op = "addUrl" /\ call.answer = "ok"
    \/ call.op = "addEntry" /\ call.answer = "pending"
FileGone(call) ==
    \/ call.op = "delEntry"
    \/ call.op = "delFile" /\ call.answer = "ok"

(* A key that the database or the app shows somewhere.                     *)
IsKnown(k) ==
    \/ \E e \in entries \cup list : e[2] = k
    \/ chosen # NULL /\ chosen[2] = k
    \/ \E c \in Outstanding :
          \/ IsDeletion(calls[c]) /\ calls[c].key = k
          \/ \E e \in calls[c].seen : e[2] = k

(* A file without its entry is one that nothing shows.                     *)
KeysOK ==
    /\ \A k \in Keys : IsKnown(k) => k \in used
    /\ \A e \in files : e[2] \in used
    /\ \A e \in files \ entries : ~IsKnown(e[2])

(* Nothing but the call itself has to do with a photo that it adds.        *)
AddingOK(c) ==
    IsAdding(calls[c]) =>
       /\ calls[c].key \in used /\ ~IsKnown(calls[c].key)
       /\ \A d \in Outstanding \ {c} :
             IsAdding(calls[d]) => calls[d].key # calls[c].key
       /\ \A e \in files : e[2] = calls[c].key => e = Item(calls[c])
       /\ NoFile(calls[c]) => Item(calls[c]) \notin files
       /\ HasFile(calls[c]) => Item(calls[c]) \in files

PhotosKept ==
    /\ KeysOK
    /\ \A c \in Outstanding :
          /\ AddingOK(c)
          /\ FileGone(calls[c]) => Item(calls[c]) \notin files

Shapes == {<<"Other">>, <<"Other", "Photos">>, <<"Other", "Photos", "Dialog">>,
           <<"Other", "Photos", "Add">>}

ServicesOK ==
    /\ session \in Users \cup {NULL}
    /\ files \in SUBSET Items /\ entries \in SUBSET Items
    /\ used \in SUBSET Keys

PagesOK ==
    /\ stack \in Shapes /\ list \in SUBSET Items
    /\ chosen \in Items \cup {NULL} /\ (Top = "Dialog" <=> chosen # NULL)

CallsOK ==
    /\ calls \in [CallIds -> Call \cup {NULL}]
    /\ \A c \in Outstanding :
          IsAdding(calls[c]) => Item(calls[c]) \in Items

(* The types of the state that AlbumLife depends on.                       *)
TypeOK == ServicesOK /\ PagesOK /\ CallsOK

(* The inductive invariant behind AlbumLife.                               *)
AlbumInv == TypeOK /\ PhotosKept

-----------------------------------------------------------------------------
(* Why deleted photos do not come back *)

DatabaseOps == {"loadOnce", "delEntry", "addEntry"}

(* The queue holds the calls of the database, each once, and those with an *)
(* answer come first.                                                      *)
QueueOK ==
    /\ queue \in Seq(CallIds)
    /\ \A m, n \in DOMAIN queue : queue[m] = queue[n] => m = n
    /\ \A n \in DOMAIN queue :
          calls[queue[n]] # NULL /\ calls[queue[n]].op \in DatabaseOps
    /\ \A c \in Outstanding :
          calls[c].op \in DatabaseOps => \E n \in DOMAIN queue : queue[n] = c
    /\ \A m, n \in DOMAIN queue :
          m < n /\ calls[queue[m]].answer = "pending" =>
             calls[queue[n]].answer = "pending"

(* A deletion whose page is there keeps the page from anything else, also  *)
(* from a second deletion; the others were left behind.                    *)
DeletionsOK ==
    /\ deleting \in BOOLEAN /\ (deleting => Top = "Photos")
    /\ \A c \in Outstanding :
          IsDeletion(calls[c]) =>
             IF calls[c].at = "on" THEN deleting ELSE calls[c].key \in left
    /\ \A c, d \in Outstanding :
          /\ IsDeletion(calls[c]) /\ calls[c].at = "on"
          /\ IsDeletion(calls[d]) /\ calls[d].at = "on"
          => c = d

(* Only an answer of once() has read something.                            *)
ReadsOK ==
    \A c \in Outstanding :
       calls[c].seen # {} => calls[c].op = "loadOnce" /\ calls[c].answer = "ok"

(* The deletion d has removed the entry with key k and is to resume; if    *)
(* its page is there, it then clears the list.                             *)
Removed(d, k) ==
    /\ calls[d] # NULL /\ calls[d].op = "delEntry" /\ calls[d].answer = "ok"
    /\ calls[d].key = k
Clears(d, k) == Removed(d, k) /\ calls[d].at = "on"

Before(c, d) ==
    \E m, n \in DOMAIN queue : m < n /\ queue[m] = c /\ queue[n] = d

(* A photo that is shown, and is not there any more, will be cleared away  *)
(* or was left behind; one that was read has a deletion that resumes after *)
(* the read.                                                               *)
GhostsCleared ==
    /\ \A e \in list \ entries :
          e[2] \in left \/ \E d \in CallIds : Clears(d, e[2])
    /\ \A c \in Outstanding : \A e \in calls[c].seen \ entries :
          \E d \in CallIds : Removed(d, e[2]) /\ Before(c, d)

(* The inductive invariant behind NoGhosts.                                *)
GhostInv == TypeOK /\ QueueOK /\ DeletionsOK /\ ReadsOK /\ GhostsCleared
=============================================================================
