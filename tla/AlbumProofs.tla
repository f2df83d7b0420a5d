---------------------------- MODULE AlbumProofs ----------------------------
(***************************************************************************)
(* The pages of the photos implement an album.  A photo that is being      *)
(* added has a key that nothing shows yet, so no deletion and no other     *)
(* upload can touch it; a photo that is being deleted is a shown one, and  *)
(* was therefore stored.                                                   *)
(***************************************************************************)
EXTENDS Photos, SequenceTheorems, TLAPS

(* The call x, instead of calls[c], adds and shows no other photo than     *)
(* before, and it agrees with the files F.                                 *)
Continues(x, c, F) ==
    /\ x \in Call
    /\ IsAdding(x) => /\ calls[c] # NULL /\ IsAdding(calls[c])
                      /\ Item(x) = Item(calls[c])
    /\ NoFile(x) => Item(x) \notin F
    /\ HasFile(x) => Item(x) \in F
    /\ FileGone(x) => Item(x) \notin F
    /\ IsDeletion(x) => IsKnown(x.key)
    /\ \A e \in x.seen : IsKnown(e[2])

(* So do the calls f, instead of calls.                                    *)
CallsContinue(f, F) ==
    /\ f \in [CallIds -> Call \cup {NULL}]
    /\ \A c \in CallIds : f[c] # NULL => Continues(f[c], c, F)

(* The step shows no photo that was not shown before.                      *)
ShowsKnown ==
    /\ \A e \in list' : IsKnown(e[2])
    /\ chosen' # NULL => IsKnown(chosen'[2])

(* The files F are those after a file was deleted, or uploaded by the call *)
(* c.                                                                      *)
FilesFollow(F, c) ==
    /\ \A e \in files \ F : IsKnown(e[2])
    /\ \A e \in F \ files :
          c \in Outstanding /\ IsAdding(calls[c]) /\ e = Item(calls[c])

(* A step that gives no key and stores no entry.                           *)
Quiet ==
    /\ UNCHANGED used
    /\ entries' \subseteq entries /\ \A e \in entries \ entries' : e \notin files'
    /\ \E c : FilesFollow(files', c)
    /\ ShowsKnown
    /\ CallsContinue(calls', files')

-----------------------------------------------------------------------------
(* What the invariant says of one call *)

LEMMA SameContinues ==
    ASSUME CallsOK, PhotosKept, NEW c \in CallIds, calls[c] # NULL,
           NEW b \in CallIds \ {c}, NEW F, FilesFollow(F, b)
    PROVE  Continues(calls[c], c, F)
<1>1. calls[c] \in Call /\ c \in Outstanding
  BY DEF CallsOK, Outstanding
<1>2. IsDeletion(calls[c]) => IsKnown(calls[c].key)
  BY <1>1 DEF IsKnown
<1>3. \A e \in calls[c].seen : IsKnown(e[2])
  BY <1>1 DEF IsKnown
<1>4. AddingOK(c) /\ (FileGone(calls[c]) => Item(calls[c]) \notin files)
  BY <1>1 DEF PhotosKept
<1>5. Item(calls[c])[2] = calls[c].key
  BY DEF Item
<1>6. HasFile(calls[c]) => Item(calls[c]) \in F
  BY <1>4, <1>5 DEF AddingOK, HasFile, IsAdding, FilesFollow
<1>7. ASSUME Item(calls[c]) \in F, Item(calls[c]) \notin files
      PROVE  /\ ~IsKnown(calls[c].key) /\ ~IsAdding(calls[c])
  <2>1. b \in Outstanding /\ IsAdding(calls[b]) /\ Item(calls[c]) = Item(calls[b])
    BY <1>7 DEF FilesFollow
  <2>2. calls[c].key = calls[b].key
    BY <2>1 DEF Item
  <2>3. AddingOK(b)
    BY <2>1 DEF PhotosKept
  <2>4. QED
    BY <1>1, <2>1, <2>2, <2>3 DEF AddingOK
<1>8. NoFile(calls[c]) => Item(calls[c]) \notin F
  BY <1>4, <1>7 DEF AddingOK, NoFile, IsAdding
<1>9. FileGone(calls[c]) => Item(calls[c]) \notin F
  BY <1>2, <1>4, <1>7 DEF FileGone, IsDeletion
<1>10. QED
  BY <1>1, <1>2, <1>3, <1>6, <1>8, <1>9 DEF Continues

(* The files that are left alone.                                          *)
LEMMA SameFiles == \A c : FilesFollow(files, c)
BY DEF FilesFollow

(* A call whose page is left.                                              *)
LEMMA AtContinues ==
    ASSUME NEW c, NEW F, NEW y, Continues(y, c, F),
           NEW at \in {"on", "leaving", "gone"}
    PROVE  Continues([y EXCEPT !.at = at], c, F)
<1> DEFINE x == [y EXCEPT !.at = at]
<1>1. y \in Call
  BY DEF Continues
<1>2. /\ x \in Call /\ x.op = y.op /\ x.answer = y.answer
      /\ x.user = y.user /\ x.key = y.key /\ x.seen = y.seen
  BY <1>1 DEF Call
<1> HIDE DEF x
<1>3. Continues(x, c, F)
  BY <1>2 DEF Continues, IsAdding, NoFile, HasFile, FileGone, IsDeletion, Item
<1>4. QED
  BY <1>3 DEF x

(* A new call is about no photo, unless it deletes a known one.            *)
LEMMA NewContinues ==
    ASSUME NEW c, NEW F, NEW op \in {"loadUser", "delUser", "addUser"},
           NEW key \in Keys \cup {NULL}, op = "delUser" => IsKnown(key)
    PROVE  Continues(NewCall(op, key), c, F)
<1> DEFINE x == NewCall(op, key)
<1>1. /\ x \in Call /\ x.op = op /\ x.key = key /\ x.seen = {}
      /\ x.answer = "pending"
  BY DEF NewCall, Call, Ops, PageOf
<1> HIDE DEF x
<1>2. Continues(x, c, F)
  BY <1>1 DEF Continues, IsAdding, NoFile, HasFile, FileGone, IsDeletion
<1>3. QED
  BY <1>2 DEF x

-----------------------------------------------------------------------------
(* Quiet steps keep the invariant *)

LEMMA QuietKnown ==
    ASSUME Quiet, NEW k, IsKnown(k)'
    PROVE  IsKnown(k)
<1>1. CASE \E e \in entries' : e[2] = k
  BY <1>1 DEF IsKnown, Quiet
<1>2. CASE \E e \in list' : e[2] = k
  BY <1>2 DEF Quiet, ShowsKnown
<1>3. CASE chosen' # NULL /\ chosen'[2] = k
  BY <1>3 DEF Quiet, ShowsKnown
<1>4. CASE \E c \in Outstanding' :
              \/ IsDeletion(calls'[c]) /\ calls'[c].key = k
              \/ \E e \in calls'[c].seen : e[2] = k
  BY <1>4 DEF Quiet, CallsContinue, Continues, Outstanding
<1>5. QED
  BY <1>1, <1>2, <1>3, <1>4 DEF IsKnown, IsDeletion

(* A file that was uploaded is one of a photo that is being added.         *)
LEMMA QuietFiles ==
    ASSUME PhotosKept, Quiet, NEW e \in files' \ files
    PROVE  \E c \in Outstanding :
              /\ IsAdding(calls[c]) /\ AddingOK(c)
              /\ e = Item(calls[c]) /\ e[2] = calls[c].key
<1>1. PICK c \in Outstanding : IsAdding(calls[c]) /\ e = Item(calls[c])
  BY DEF Quiet, FilesFollow
<1>2. QED
  BY <1>1 DEF PhotosKept, Item

LEMMA QuietKeys ==
    ASSUME PhotosKept, Quiet
    PROVE  KeysOK'
<1>1. \A k : IsKnown(k)' => IsKnown(k)
  BY QuietKnown
<1>2. \A k \in Keys : IsKnown(k)' => k \in used'
  BY <1>1 DEF PhotosKept, KeysOK, Quiet
<1>3. ASSUME NEW e \in files' \ files
      PROVE  e[2] \in used /\ ~IsKnown(e[2])
  BY QuietFiles DEF AddingOK
<1>4. \A e \in files' : e[2] \in used'
  BY <1>3 DEF PhotosKept, KeysOK, Quiet
<1>5. ASSUME NEW e \in files' \ entries'
      PROVE  ~IsKnown(e[2])'
  <2>1. ~IsKnown(e[2])
    BY <1>3 DEF PhotosKept, KeysOK, Quiet
  <2>2. QED
    BY <1>1, <2>1
<1>6. QED
  BY <1>2, <1>4, <1>5 DEF KeysOK

LEMMA QuietAdding ==
    ASSUME PhotosKept, Quiet, NEW c \in Outstanding'
    PROVE  AddingOK(c)'
<1> SUFFICES ASSUME IsAdding(calls'[c])
             PROVE  AddingOK(c)'
  BY DEF AddingOK, IsAdding
<1>1. c \in CallIds /\ calls'[c] # NULL
  BY DEF Outstanding
<1>2. Continues(calls'[c], c, files')
  BY <1>1 DEF Quiet, CallsContinue
<1>3. /\ c \in Outstanding /\ IsAdding(calls[c])
      /\ Item(calls'[c]) = Item(calls[c])
      /\ NoFile(calls'[c]) => Item(calls'[c]) \notin files'
      /\ HasFile(calls'[c]) => Item(calls'[c]) \in files'
  BY <1>1, <1>2 DEF Continues, Outstanding
<1>4. AddingOK(c)
  BY <1>3 DEF PhotosKept
<1>5. calls'[c].key = calls[c].key
  BY <1>3 DEF Item
<1>6. ~IsKnown(calls[c].key)'
  <2>1. PICK k : k = calls[c].key
    OBVIOUS
  <2>2. ~IsKnown(k)
    BY <1>3, <1>4, <2>1 DEF AddingOK
  <2>3. ~IsKnown(k)'
    BY <2>2, QuietKnown
  <2>4. k = calls'[c].key
    BY <1>5, <2>1
  <2>5. QED
    BY <2>3, <2>4 DEF IsKnown
<1>7. \A d \in Outstanding' \ {c} :
         IsAdding(calls'[d]) => calls'[d].key # calls'[c].key
  <2> SUFFICES ASSUME NEW d \in Outstanding' \ {c}, IsAdding(calls'[d])
               PROVE  calls'[d].key # calls'[c].key
    OBVIOUS
  <2>1. Continues(calls'[d], d, files') /\ d \in CallIds
    BY DEF Quiet, CallsContinue, Outstanding
  <2>2. d \in Outstanding /\ IsAdding(calls[d]) /\ Item(calls'[d]) = Item(calls[d])
    BY <2>1 DEF Continues, Outstanding
  <2>3. calls'[d].key = calls[d].key
    BY <2>2 DEF Item
  <2>4. QED
    BY <1>3, <1>4, <1>5, <2>2, <2>3 DEF AddingOK
<1>8. ASSUME NEW e \in files', e[2] = calls'[c].key
      PROVE  e = Item(calls'[c])
  <2>1. CASE e \in files
    BY <1>3, <1>4, <1>5, <1>8, <2>1 DEF AddingOK
  <2>2. CASE e \notin files
    <3>1. PICK d \in Outstanding :
             /\ IsAdding(calls[d]) /\ AddingOK(d)
             /\ e = Item(calls[d]) /\ e[2] = calls[d].key
      BY <2>2, QuietFiles
    <3>2. d = c
      BY <1>3, <1>4, <1>5, <1>8, <3>1 DEF AddingOK
    <3>3. QED
      BY <1>3, <3>1, <3>2
  <2>3. QED
    BY <2>1, <2>2
<1>9. calls'[c].key \in used'
  BY <1>3, <1>4, <1>5 DEF AddingOK, Quiet
<1>10. QED
  BY <1>3, <1>6, <1>7, <1>8, <1>9 DEF AddingOK, IsAdding, NoFile, HasFile, Item

LEMMA QuietKeeps ==
    ASSUME PhotosKept, Quiet
    PROVE  PhotosKept'
<1>1. KeysOK'
  BY QuietKeys
<1>2. \A c \in Outstanding' : AddingOK(c)'
  BY QuietAdding
<1>3. \A c \in Outstanding' : FileGone(calls'[c]) => Item(calls'[c]) \notin files'
  BY DEF Quiet, CallsContinue, Continues, Outstanding
<1>4. QED
  BY <1>1, <1>2, <1>3 DEF PhotosKept, FileGone, Item

LEMMA QuietTypes ==
    ASSUME CallsOK, Quiet
    PROVE  CallsOK'
<1>1. ASSUME NEW c \in Outstanding', IsAdding(calls'[c])
      PROVE  Item(calls'[c]) \in Items
  <2>1. Continues(calls'[c], c, files')
    BY DEF Quiet, CallsContinue, Outstanding
  <2>2. c \in Outstanding /\ IsAdding(calls[c]) /\ Item(calls'[c]) = Item(calls[c])
    BY <1>1, <2>1 DEF Continues, Outstanding
  <2>3. QED
    BY <2>2 DEF CallsOK
<1>2. QED
  BY <1>1 DEF CallsOK, Quiet, CallsContinue, IsAdding, Item

-----------------------------------------------------------------------------
(* The calls after a step *)

LEMMA CallsSet ==
    ASSUME NEW F, NEW f, CallsContinue(f, F), NEW c \in CallIds,
           NEW x, x = NULL \/ Continues(x, c, F)
    PROVE  CallsContinue([f EXCEPT ![c] = x], F)
BY DEF CallsContinue, Continues

(* The call c goes on as x, the others stay.                               *)
LEMMA CallContinues ==
    ASSUME CallsOK, PhotosKept, NEW c \in CallIds, NEW F, FilesFollow(F, c),
           NEW x, x = NULL \/ Continues(x, c, F)
    PROVE  CallsContinue([calls EXCEPT ![c] = x], F)
<1> DEFINE f == [calls EXCEPT ![c] = x]
<1>1. f \in [CallIds -> Call \cup {NULL}]
  BY DEF CallsOK, Continues
<1>2. \A d \in CallIds \ {c} : f[d] = calls[d]
  BY DEF CallsOK
<1>3. f[c] = x
  BY DEF CallsOK
<1> HIDE DEF f
<1>4. \A d \in CallIds \ {c} : f[d] # NULL => Continues(f[d], d, F)
  BY <1>2, SameContinues
<1>5. CallsContinue(f, F)
  BY <1>1, <1>3, <1>4 DEF CallsContinue
<1>6. QED
  BY <1>5 DEF f

LEMMA CallsSame ==
    ASSUME CallsOK, PhotosKept
    PROVE  CallsContinue(calls, files)
<1>1. ASSUME NEW c \in CallIds, calls[c] # NULL
      PROVE  Continues(calls[c], c, files)
  BY <1>1 DEF Continues, CallsOK, PhotosKept, AddingOK, HasFile, NoFile,
              FileGone, IsDeletion, IsKnown, Outstanding, IsAdding
<1>2. QED
  BY <1>1 DEF CallsContinue, CallsOK

LEMMA CallsFinished ==
    ASSUME CallsOK, PhotosKept, NEW c \in CallIds
    PROVE  CallsContinue(Finished(c), files)
BY CallContinues, SameFiles DEF Finished

LEMMA CallsLeft ==
    ASSUME NEW F, NEW f, CallsContinue(f, F), NEW page
    PROVE  CallsContinue(Left(f, page), F)
<1>1. \A c \in CallIds :
         \/ Left(f, page)[c] = f[c]
         \/ /\ f[c] # NULL
            /\ Left(f, page)[c] = [f[c] EXCEPT !.at = "leaving"]
  BY DEF Left
<1>2. \A c \in CallIds : f[c] # NULL => Continues(f[c], c, F)
  BY DEF CallsContinue
<1>3. \A c \in CallIds :
         f[c] # NULL => Continues([f[c] EXCEPT !.at = "leaving"], c, F)
  BY <1>2, AtContinues
<1>4. \A c \in CallIds :
         Left(f, page)[c] = NULL \/ Continues(Left(f, page)[c], c, F)
  BY <1>1, <1>2, <1>3
<1>5. Left(f, page) \in [CallIds -> Call \cup {NULL}]
  <2>1. \A c \in CallIds : Left(f, page)[c] \in Call \cup {NULL}
    BY <1>4 DEF Continues
  <2>2. Left(f, page) = [c \in CallIds |-> Left(f, page)[c]]
    BY DEF Left
  <2>3. QED
    BY <2>1, <2>2
<1>6. QED
  BY <1>4, <1>5 DEF CallsContinue

-----------------------------------------------------------------------------
(* The pages after a step *)

Pages == {"Other", "Photos", "Dialog", "Add"}

(* A route that is popped.                                                 *)
LEMMA Popped ==
    ASSUME NEW s \in Seq(Pages), NEW n \in {2, 3}, Len(s) = n
    PROVE  /\ n = 2 => SubSeq(s, 1, n - 1) = <<s[1]>>
           /\ n = 3 => SubSeq(s, 1, n - 1) = <<s[1], s[2]>>
<1> DEFINE t == SubSeq(s, 1, n - 1)
<1>1. \A i \in 1 .. n - 1 : s[i] \in Pages
  OBVIOUS
<1>2. /\ t \in Seq(Pages) /\ Len(t) = n - 1
      /\ \A i \in 1 .. n - 1 : t[i] = s[i]
  BY <1>1, SubSeqProperties
<1> HIDE DEF t
<1>3. ASSUME n = 2
      PROVE  t = <<s[1]>>
  <2>1. Len(t) = 1 /\ t[1] = s[1]
    BY <1>2, <1>3
  <2>2. QED
    BY <1>2, <2>1
<1>4. ASSUME n = 3
      PROVE  t = <<s[1], s[2]>>
  <2>1. Len(t) = 2 /\ t[1] = s[1] /\ t[2] = s[2]
    BY <1>2, <1>4
  <2>2. QED
    BY <1>2, <2>1
<1>5. QED
  BY <1>3, <1>4 DEF t

LEMMA TopFacts ==
    ASSUME PagesOK
    PROVE  /\ Top \in {"Other", "Photos", "Dialog", "Add"}
           /\ Top = "Other" => stack = <<"Other">>
           /\ Top = "Photos" =>
                 stack = <<"Other", "Photos">> /\ Below = <<"Other">>
           /\ Top \in {"Dialog", "Add"} => Below = <<"Other", "Photos">>
<1>1. CASE stack = <<"Other">>
  BY <1>1 DEF Top
<1>2. CASE stack = <<"Other", "Photos">>
  <2>1. Top = "Photos"
    BY <1>2 DEF Top
  <2>2. Below = <<"Other">>
    <3>1. stack \in Seq(Pages)
      BY <1>2 DEF Pages
    <3>2. Len(stack) = 2 /\ stack[1] = "Other"
      BY <1>2
    <3>3. SubSeq(stack, 1, 2 - 1) = <<stack[1]>>
      BY <3>1, <3>2, Popped
    <3>4. QED
      BY <3>2, <3>3 DEF Below
  <2>3. QED
    BY <1>2, <2>1, <2>2
<1>3. CASE \E page \in {"Dialog", "Add"} : stack = <<"Other", "Photos", page>>
  <2>1. PICK page \in {"Dialog", "Add"} : stack = <<"Other", "Photos", page>>
    BY <1>3
  <2>2. Top = page
    BY <2>1 DEF Top
  <2>3. Below = <<"Other", "Photos">>
    <3>1. stack \in Seq(Pages)
      BY <2>1 DEF Pages
    <3>2. Len(stack) = 3 /\ stack[1] = "Other" /\ stack[2] = "Photos"
      BY <2>1
    <3>3. SubSeq(stack, 1, 3 - 1) = <<stack[1], stack[2]>>
      BY <3>1, <3>2, Popped
    <3>4. QED
      BY <3>2, <3>3 DEF Below
  <2>4. QED
    BY <2>2, <2>3
<1>4. QED
  BY <1>1, <1>2, <1>3 DEF PagesOK, Shapes

LEMMA PagesSame ==
    ASSUME PagesOK, UNCHANGED <<stack, chosen>>, list' \in SUBSET Items
    PROVE  PagesOK'
BY DEF PagesOK, Top

(* The stack after a step, when no photo is chosen.                        *)
LEMMA PagesWithout ==
    ASSUME stack' \in Shapes \ {<<"Other", "Photos", "Dialog">>},
           list' \in SUBSET Items, chosen' = NULL
    PROVE  PagesOK'
BY DEF PagesOK, Top, Shapes

(* What the pages show is known.                                           *)
LEMMA ShownIsKnown ==
    /\ \A e \in list : IsKnown(e[2])
    /\ chosen # NULL => IsKnown(chosen[2])
BY DEF IsKnown

LEMMA PopQuiet ==
    ASSUME PagesOK, NEW f, CallsContinue(f, files), NEW d \in CallIds, pop(f, d)
    PROVE  PagesOK' /\ ShowsKnown /\ CallsContinue(calls', files)
<1>1. CASE Top = "Add"
  <2>1. stack' = <<"Other", "Photos">> /\ chosen' = NULL /\ list' = {}
    BY <1>1, TopFacts DEF pop, updatePhotosList, Cleared, PagesOK
  <2>2. CallsContinue(Left(f, "Add"), files)
    BY CallsLeft
  <2>3. Continues(NewCall("loadUser", NULL), d, files)
    BY NewContinues
  <2>4. calls' = [Left(f, "Add") EXCEPT ![d] = NewCall("loadUser", NULL)]
    BY <1>1 DEF pop, updatePhotosList
  <2>5. CallsContinue(calls', files)
    BY <2>2, <2>3, <2>4, CallsSet
  <2>6. QED
    BY <2>1, <2>5, PagesWithout DEF ShowsKnown, Shapes
<1>2. CASE Top = "Dialog"
  <2>1. stack' = <<"Other", "Photos">> /\ chosen' = NULL /\ list' = list
    BY <1>2, TopFacts DEF pop
  <2>2. calls' = f
    BY <1>2 DEF pop
  <2>3. QED
    BY <2>1, <2>2, PagesWithout, ShownIsKnown DEF ShowsKnown, Shapes, PagesOK
<1>3. CASE Top = "Photos"
  <2>1. stack' = <<"Other">> /\ chosen' = NULL /\ list' = {}
    BY <1>3, TopFacts DEF pop, Cleared, PagesOK
  <2>2. calls' = Left(f, "Photos")
    BY <1>3 DEF pop
  <2>3. QED
    BY <2>1, <2>2, PagesWithout, CallsLeft DEF ShowsKnown, Shapes
<1>4. CASE Top = "Other"
  <2>1. calls' = f /\ UNCHANGED <<stack, chosen, list>>
    BY <1>4 DEF pop, view
  <2>2. QED
    BY <2>1, PagesSame, ShownIsKnown DEF ShowsKnown, PagesOK
<1>5. QED
  BY <1>1, <1>2, <1>3, <1>4, TopFacts

-----------------------------------------------------------------------------
(* The call c after a step *)

(* The call x has the fields of calls[c], except for op and answer.        *)
Follows(x, c, op, answer) ==
    /\ x \in Call /\ x.op = op /\ x.answer = answer
    /\ x.user = calls[c].user /\ x.key = calls[c].key
    /\ x.seen = calls[c].seen

LEMMA AwaitingFacts ==
    ASSUME CallsOK, NEW c \in CallIds, calls[c] # NULL, NEW op \in Ops
    PROVE  \E x : /\ Awaiting(c, op) = [calls EXCEPT ![c] = x]
                  /\ Follows(x, c, op, "pending")
<1> DEFINE x == [calls[c] EXCEPT !.op = op, !.answer = "pending"]
<1>1. calls[c] \in Call
  BY DEF CallsOK
<1>2. Follows(x, c, op, "pending")
  BY <1>1 DEF Call, Follows
<1>3. Awaiting(c, op) = [calls EXCEPT ![c] = x]
  BY DEF Awaiting, CallsOK
<1>4. QED
  BY <1>2, <1>3

LEMMA ReplyFacts ==
    ASSUME CallsOK, NEW c \in CallIds, calls[c] # NULL,
           NEW answer \in {"pending", "ok", "error"}, Reply(c, answer)
    PROVE  \E x : /\ calls' = [calls EXCEPT ![c] = x]
                  /\ Follows(x, c, calls[c].op, answer)
<1> DEFINE x == [calls[c] EXCEPT !.answer = answer]
<1>1. calls[c] \in Call
  BY DEF CallsOK
<1>2. Follows(x, c, calls[c].op, answer)
  BY <1>1 DEF Call, Follows
<1>3. calls' = [calls EXCEPT ![c] = x]
  BY DEF Reply, CallsOK
<1>4. QED
  BY <1>2, <1>3

(* The call goes on with its photo.                                        *)
LEMMA FollowContinues ==
    ASSUME CallsOK, NEW c \in CallIds, calls[c] # NULL, NEW F,
           NEW x, NEW op \in Ops, NEW answer, Follows(x, c, op, answer),
           IsAdding(x) => IsAdding(calls[c]),
           IsDeletion(x) => IsDeletion(calls[c]),
           NoFile(x) => Item(calls[c]) \notin F,
           HasFile(x) => Item(calls[c]) \in F,
           FileGone(x) => Item(calls[c]) \notin F
    PROVE  Continues(x, c, F)
<1>1. c \in Outstanding
  BY DEF Outstanding
<1>2. Item(x) = Item(calls[c])
  BY DEF Follows, Item
<1>3. IsDeletion(x) => IsKnown(x.key)
  BY <1>1 DEF IsKnown, Follows
<1>4. \A e \in x.seen : IsKnown(e[2])
  BY <1>1 DEF IsKnown, Follows
<1>5. QED
  BY <1>2, <1>3, <1>4 DEF Continues, Follows

LEMMA QuietStep ==
    ASSUME UNCHANGED <<files, entries, used>>, ShowsKnown,
           CallsContinue(calls', files)
    PROVE  Quiet
BY SameFiles DEF Quiet

(* A step that leaves the photos on the pages alone.                       *)
LEMMA ViewStep ==
    ASSUME PagesOK, UNCHANGED <<stack, list, chosen>>
    PROVE  PagesOK' /\ ShowsKnown
BY PagesSame, ShownIsKnown DEF ShowsKnown, PagesOK

(* A continuation that awaits the next answer, or ends.                    *)
LEMMA ContinuationQuiet ==
    ASSUME AlbumInv, NEW c \in CallIds, UNCHANGED <<files, entries, used, view>>,
           NEW x, x = NULL \/ Continues(x, c, files),
           calls' = [calls EXCEPT ![c] = x]
    PROVE  PagesOK' /\ Quiet
<1>1. CallsContinue(calls', files)
  BY CallContinues, SameFiles DEF AlbumInv, TypeOK
<1>2. QED
  BY <1>1, ViewStep, QuietStep DEF AlbumInv, TypeOK, view

LEMMA EndsQuiet ==
    ASSUME AlbumInv, NEW c \in CallIds, UNCHANGED <<files, entries, used>>, Ends(c)
    PROVE  PagesOK' /\ Quiet
BY ContinuationQuiet DEF Ends, Finished
-----------------------------------------------------------------------------
(* The continuations *)

LEMMA LoadUserReturnsQuiet ==
    ASSUME AlbumInv, NEW c \in CallIds, LoadUserReturns(c)
    PROVE  PagesOK' /\ Quiet
<1>1. /\ c \in Outstanding /\ calls[c] # NULL /\ calls[c].op = "loadUser"
      /\ UNCHANGED <<files, entries, used>>
  BY DEF LoadUserReturns, Answered, Outstanding, services
<1>2. CASE Ends(c)
  BY <1>1, <1>2, EndsQuiet
<1>3. CASE calls' = Awaiting(c, "loadOnce") /\ UNCHANGED view
  <2>1. PICK x : /\ calls' = [calls EXCEPT ![c] = x]
                 /\ Follows(x, c, "loadOnce", "pending")
    BY <1>1, <1>3, AwaitingFacts DEF AlbumInv, TypeOK, Ops, PageOf
  <2>2. Continues(x, c, files)
    <3>1. AddingOK(c) /\ (FileGone(calls[c]) => Item(calls[c]) \notin files)
      BY <1>1 DEF AlbumInv, PhotosKept
    <3>2. QED
      BY <1>1, <1>3, <2>1, <3>1, FollowContinues
         DEF AlbumInv, TypeOK, Follows, IsAdding, IsDeletion, NoFile, HasFile,
             FileGone, AddingOK, Ops, PageOf, Succeeded
  <2>3. QED
    BY <1>1, <1>3, <2>1, <2>2, ContinuationQuiet
<1>4. QED
  BY <1>1, <1>2, <1>3 DEF LoadUserReturns

LEMMA DelUserReturnsQuiet ==
    ASSUME AlbumInv, NEW c \in CallIds, DelUserReturns(c)
    PROVE  PagesOK' /\ Quiet
<1>1. /\ c \in Outstanding /\ calls[c] # NULL /\ calls[c].op = "delUser"
      /\ UNCHANGED <<files, entries, used>>
  BY DEF DelUserReturns, Answered, Outstanding, services
<1>2. CASE Ends(c)
  BY <1>1, <1>2, EndsQuiet
<1>3. CASE calls' = Awaiting(c, "delFile") /\ UNCHANGED view
  <2>1. PICK x : /\ calls' = [calls EXCEPT ![c] = x]
                 /\ Follows(x, c, "delFile", "pending")
    BY <1>1, <1>3, AwaitingFacts DEF AlbumInv, TypeOK, Ops, PageOf
  <2>2. Continues(x, c, files)
    <3>1. AddingOK(c) /\ (FileGone(calls[c]) => Item(calls[c]) \notin files)
      BY <1>1 DEF AlbumInv, PhotosKept
    <3>2. QED
      BY <1>1, <1>3, <2>1, <3>1, FollowContinues
         DEF AlbumInv, TypeOK, Follows, IsAdding, IsDeletion, NoFile, HasFile,
             FileGone, AddingOK, Ops, PageOf, Succeeded
  <2>3. QED
    BY <1>1, <1>3, <2>1, <2>2, ContinuationQuiet
<1>4. QED
  BY <1>1, <1>2, <1>3 DEF DelUserReturns

LEMMA DelFileReturnsQuiet ==
    ASSUME AlbumInv, NEW c \in CallIds, DelFileReturns(c)
    PROVE  PagesOK' /\ Quiet
<1>1. /\ c \in Outstanding /\ calls[c] # NULL /\ calls[c].op = "delFile"
      /\ UNCHANGED <<files, entries, used>>
  BY DEF DelFileReturns, Answered, Outstanding, services
<1>2. CASE Ends(c)
  BY <1>1, <1>2, EndsQuiet
<1>3. CASE calls' = Awaiting(c, "delEntry") /\ UNCHANGED view /\ Succeeded(c)
  <2>1. PICK x : /\ calls' = [calls EXCEPT ![c] = x]
                 /\ Follows(x, c, "delEntry", "pending")
    BY <1>1, <1>3, AwaitingFacts DEF AlbumInv, TypeOK, Ops, PageOf
  <2>2. Continues(x, c, files)
    <3>1. AddingOK(c) /\ (FileGone(calls[c]) => Item(calls[c]) \notin files)
      BY <1>1 DEF AlbumInv, PhotosKept
    <3>2. QED
      BY <1>1, <1>3, <2>1, <3>1, FollowContinues
         DEF AlbumInv, TypeOK, Follows, IsAdding, IsDeletion, NoFile, HasFile,
             FileGone, AddingOK, Ops, PageOf, Succeeded
  <2>3. QED
    BY <1>1, <1>3, <2>1, <2>2, ContinuationQuiet
<1>4. QED
  BY <1>1, <1>2, <1>3 DEF DelFileReturns

LEMMA AddFileReturnsQuiet ==
    ASSUME AlbumInv, NEW c \in CallIds, AddFileReturns(c)
    PROVE  PagesOK' /\ Quiet
<1>1. /\ c \in Outstanding /\ calls[c] # NULL /\ calls[c].op = "addFile"
      /\ calls' = Awaiting(c, "addUrl") /\ UNCHANGED <<files, entries, used, view>>
  BY DEF AddFileReturns, Answered, Outstanding, services
<1>2. PICK x : /\ calls' = [calls EXCEPT ![c] = x]
               /\ Follows(x, c, "addUrl", "pending")
  BY <1>1, AwaitingFacts DEF AlbumInv, TypeOK, Ops, PageOf
<1>3. Continues(x, c, files)
  BY <1>1, <1>2, FollowContinues
     DEF AlbumInv, TypeOK, Follows, IsAdding, IsDeletion, NoFile, HasFile,
         FileGone, Ops, PageOf
<1>4. QED
  BY <1>1, <1>2, <1>3, ContinuationQuiet

LEMMA AddUrlReturnsQuiet ==
    ASSUME AlbumInv, NEW c \in CallIds, AddUrlReturns(c)
    PROVE  PagesOK' /\ Quiet
<1>1. /\ c \in Outstanding /\ calls[c] # NULL /\ calls[c].op = "addUrl"
      /\ UNCHANGED <<files, entries, used>>
  BY DEF AddUrlReturns, Answered, Outstanding, services
<1>2. CASE Ends(c)
  BY <1>1, <1>2, EndsQuiet
<1>3. CASE calls' = Awaiting(c, "addEntry") /\ UNCHANGED view /\ Succeeded(c)
  <2>1. PICK x : /\ calls' = [calls EXCEPT ![c] = x]
                 /\ Follows(x, c, "addEntry", "pending")
    BY <1>1, <1>3, AwaitingFacts DEF AlbumInv, TypeOK, Ops, PageOf
  <2>2. Continues(x, c, files)
    <3>1. AddingOK(c) /\ (FileGone(calls[c]) => Item(calls[c]) \notin files)
      BY <1>1 DEF AlbumInv, PhotosKept
    <3>2. QED
      BY <1>1, <1>3, <2>1, <3>1, FollowContinues
         DEF AlbumInv, TypeOK, Follows, IsAdding, IsDeletion, NoFile, HasFile,
             FileGone, AddingOK, Ops, PageOf, Succeeded
  <2>3. QED
    BY <1>1, <1>3, <2>1, <2>2, ContinuationQuiet
<1>4. QED
  BY <1>1, <1>2, <1>3 DEF AddUrlReturns

LEMMA LoadOnceReturnsQuiet ==
    ASSUME AlbumInv, NEW c \in CallIds, LoadOnceReturns(c)
    PROVE  PagesOK' /\ Quiet
<1>1. /\ c \in Outstanding /\ calls[c] \in Call /\ calls' = Finished(c)
      /\ UNCHANGED <<files, entries, used, stack, chosen>>
  BY DEF LoadOnceReturns, Answered, Outstanding, services, AlbumInv, TypeOK,
         CallsOK
<1>2. list' \in {list, calls[c].seen}
  BY DEF LoadOnceReturns
<1>3. list' \in SUBSET Items
  BY <1>1, <1>2 DEF AlbumInv, TypeOK, PagesOK, Call
<1>4. \A e \in calls[c].seen : IsKnown(e[2])
  BY <1>1 DEF IsKnown
<1>5. ShowsKnown
  BY <1>1, <1>2, <1>4, ShownIsKnown DEF ShowsKnown
<1>6. CallsContinue(calls', files)
  BY <1>1, CallsFinished DEF AlbumInv, TypeOK
<1>7. QED
  BY <1>1, <1>3, <1>5, <1>6, PagesSame, QuietStep DEF AlbumInv, TypeOK

LEMMA DelEntryReturnsQuiet ==
    ASSUME AlbumInv, NEW c \in CallIds, DelEntryReturns(c)
    PROVE  PagesOK' /\ Quiet
<1>1. UNCHANGED <<files, entries, used>>
  BY DEF DelEntryReturns, services
<1>2. CASE Ends(c)
  BY <1>1, <1>2, EndsQuiet
<1>3. CASE updatePhotosList(calls, c) /\ UNCHANGED <<stack, chosen, sending>>
  <2>1. /\ list' = {} /\ UNCHANGED <<stack, chosen>>
        /\ calls' = [calls EXCEPT ![c] = NewCall("loadUser", NULL)]
    BY <1>3 DEF updatePhotosList, Cleared
  <2>2. Continues(NewCall("loadUser", NULL), c, files)
    BY NewContinues
  <2>3. CallsContinue(calls', files)
    BY <2>1, <2>2, CallContinues, SameFiles DEF AlbumInv, TypeOK
  <2>4. ShowsKnown
    BY <2>1, ShownIsKnown DEF ShowsKnown
  <2>5. QED
    BY <1>1, <2>1, <2>3, <2>4, PagesSame, QuietStep DEF AlbumInv, TypeOK
<1>4. QED
  BY <1>2, <1>3 DEF DelEntryReturns

LEMMA AddEntryReturnsQuiet ==
    ASSUME AlbumInv, NEW c \in CallIds, AddEntryReturns(c)
    PROVE  PagesOK' /\ Quiet
<1>1. UNCHANGED <<files, entries, used>>
  BY DEF AddEntryReturns, services
<1>2. CASE Ends(c)
  BY <1>1, <1>2, EndsQuiet
<1>3. CASE pop(Finished(c), c)
  <2>1. CallsContinue(Finished(c), files)
    BY CallsFinished DEF AlbumInv, TypeOK
  <2>2. QED
    BY <1>1, <1>3, <2>1, PopQuiet, QuietStep DEF AlbumInv, TypeOK
<1>4. QED
  BY <1>2, <1>3 DEF AddEntryReturns
-----------------------------------------------------------------------------
(* The user, the platform and the rest of the app *)

LEMMA NewCallQuiet ==
    ASSUME AlbumInv, NEW d \in CallIds, NEW op \in {"loadUser", "delUser", "addUser"},
           NEW key \in Keys \cup {NULL}, op = "delUser" => IsKnown(key),
           calls' = [calls EXCEPT ![d] = NewCall(op, key)],
           UNCHANGED <<files, entries, used>>, ShowsKnown
    PROVE  Quiet
<1>1. Continues(NewCall(op, key), d, files)
  BY NewContinues
<1>2. CallsContinue(calls', files)
  BY <1>1, CallContinues, SameFiles DEF AlbumInv, TypeOK
<1>3. QED
  BY <1>2, QuietStep

(* A route that is pushed.                                                 *)
LEMMA Pushed ==
    ASSUME NEW s \in Seq(Pages), NEW p \in Pages, NEW n \in {1, 2}, Len(s) = n
    PROVE  /\ n = 1 => Append(s, p) = <<s[1], p>>
           /\ n = 2 => Append(s, p) = <<s[1], s[2], p>>
<1> DEFINE t == Append(s, p)
<1>1. /\ t \in Seq(Pages) /\ Len(t) = n + 1
      /\ \A i \in 1 .. n : t[i] = s[i]
      /\ t[n + 1] = p
  OBVIOUS
<1> HIDE DEF t
<1>2. ASSUME n = 1
      PROVE  t = <<s[1], p>>
  <2>1. Len(t) = 2 /\ t[1] = s[1] /\ t[2] = p
    BY <1>1, <1>2
  <2>2. QED
    BY <1>1, <2>1
<1>3. ASSUME n = 2
      PROVE  t = <<s[1], s[2], p>>
  <2>1. Len(t) = 3 /\ t[1] = s[1] /\ t[2] = s[2] /\ t[3] = p
    BY <1>1, <1>3
  <2>2. PICK u : u = <<s[1], s[2], p>>
    OBVIOUS
  <2>3. s[1] \in Pages /\ s[2] \in Pages
    <3>1. \A i \in 1 .. n : s[i] \in Pages
      OBVIOUS
    <3>2. QED
      BY <1>3, <3>1
  <2>4. u \in Seq(Pages)
    BY <2>2, <2>3
  <2>5. Len(u) = 3 /\ u[1] = s[1] /\ u[2] = s[2] /\ u[3] = p
    BY <2>2
  <2>6. \A i \in 1 .. 3 : t[i] = u[i]
    BY <2>1, <2>5
  <2>7. t = u
    BY <1>1, <2>1, <2>4, <2>5, <2>6, SeqEqual
  <2>8. QED
    BY <2>2, <2>7
<1>4. QED
  BY <1>2, <1>3 DEF t

LEMMA PushedPages ==
    ASSUME NEW p \in Pages
    PROVE  /\ stack = <<"Other">> => Append(stack, p) = <<"Other", p>>
           /\ stack = <<"Other", "Photos">> =>
                 Append(stack, p) = <<"Other", "Photos", p>>
<1>1. ASSUME stack = <<"Other">>
      PROVE  Append(stack, p) = <<"Other", p>>
  <2>1. stack \in Seq(Pages)
    BY <1>1 DEF Pages
  <2>2. Len(stack) = 1 /\ stack[1] = "Other"
    BY <1>1
  <2>3. Append(stack, p) = <<stack[1], p>>
    BY <2>1, <2>2, Pushed
  <2>4. QED
    BY <2>2, <2>3
<1>2. ASSUME stack = <<"Other", "Photos">>
      PROVE  Append(stack, p) = <<"Other", "Photos", p>>
  <2>1. stack \in Seq(Pages)
    BY <1>2 DEF Pages
  <2>2. Len(stack) = 2 /\ stack[1] = "Other" /\ stack[2] = "Photos"
    BY <1>2
  <2>3. Append(stack, p) = <<stack[1], stack[2], p>>
    BY <2>1, <2>2, Pushed
  <2>4. QED
    BY <2>2, <2>3
<1>3. QED
  BY <1>1, <1>2

LEMMA MinhasFotosQuiet ==
    ASSUME AlbumInv, MinhasFotos
    PROVE  PagesOK' /\ Quiet
<1>1. stack = <<"Other">> /\ chosen = NULL
  BY TopFacts DEF MinhasFotos, AlbumInv, TypeOK, PagesOK
<1>2. PICK d \in CallIds : updatePhotosList(calls, d)
  BY DEF MinhasFotos
<1>3. /\ stack' = <<"Other", "Photos">> /\ chosen' = NULL /\ list' = {}
      /\ calls' = [calls EXCEPT ![d] = NewCall("loadUser", NULL)]
      /\ UNCHANGED <<files, entries, used>>
  BY <1>1, <1>2, PushedPages DEF MinhasFotos, updatePhotosList, Cleared, services,
     Pages
<1>4. PagesOK' /\ ShowsKnown
  BY <1>3, PagesWithout DEF Shapes, ShowsKnown
<1>5. QED
  BY <1>3, <1>4, NewCallQuiet

LEMMA PhotoTappedQuiet ==
    ASSUME AlbumInv, NEW e \in list, PhotoTapped(e)
    PROVE  PagesOK' /\ Quiet
<1>1. stack = <<"Other", "Photos">>
  BY TopFacts DEF PhotoTapped, AlbumInv, TypeOK
<1>2. /\ stack' = <<"Other", "Photos", "Dialog">> /\ chosen' = e
      /\ UNCHANGED <<list, calls, files, entries, used>>
  BY <1>1, PushedPages DEF PhotoTapped, services, Pages
<1>3. e \in Items /\ e # NULL
  BY NullIsNoPhoto DEF AlbumInv, TypeOK, PagesOK
<1>4. PagesOK'
  BY <1>2, <1>3 DEF PagesOK, Shapes, Top, AlbumInv, TypeOK
<1>5. ShowsKnown
  BY <1>2, ShownIsKnown DEF ShowsKnown
<1>6. QED
  BY <1>2, <1>4, <1>5, CallsSame, QuietStep DEF AlbumInv, TypeOK

LEMMA ExcluirClickedQuiet ==
    ASSUME AlbumInv, ExcluirClicked
    PROVE  PagesOK' /\ Quiet
<1>1. Below = <<"Other", "Photos">> /\ chosen # NULL /\ chosen \in Items
  BY TopFacts DEF ExcluirClicked, AlbumInv, TypeOK, PagesOK
<1>2. PICK d \in CallIds : calls' = [calls EXCEPT ![d] = NewCall("delUser", chosen[2])]
  BY DEF ExcluirClicked
<1>3. /\ stack' = <<"Other", "Photos">> /\ chosen' = NULL /\ list' = list
      /\ UNCHANGED <<files, entries, used>>
  BY <1>1 DEF ExcluirClicked, services
<1>4. PagesOK' /\ ShowsKnown
  BY <1>3, PagesWithout, ShownIsKnown
     DEF Shapes, ShowsKnown, AlbumInv, TypeOK, PagesOK
<1>5. chosen[2] \in Keys /\ IsKnown(chosen[2])
  BY <1>1, ShownIsKnown DEF Items
<1>6. QED
  BY <1>2, <1>3, <1>4, <1>5, NewCallQuiet

LEMMA AddTappedQuiet ==
    ASSUME AlbumInv, AddTapped
    PROVE  PagesOK' /\ Quiet
<1>1. stack = <<"Other", "Photos">> /\ chosen = NULL
  BY TopFacts DEF AddTapped, AlbumInv, TypeOK, PagesOK
<1>2. /\ stack' = <<"Other", "Photos", "Add">> /\ chosen' = NULL
      /\ UNCHANGED <<list, calls, files, entries, used>>
  BY <1>1, PushedPages DEF AddTapped, services, Pages
<1>3. PagesOK' /\ ShowsKnown
  BY <1>2, PagesWithout, ShownIsKnown
     DEF Shapes, ShowsKnown, AlbumInv, TypeOK, PagesOK
<1>4. QED
  BY <1>2, <1>3, CallsSame, QuietStep DEF AlbumInv, TypeOK

LEMMA EnviarClickedQuiet ==
    ASSUME AlbumInv, EnviarClicked
    PROVE  PagesOK' /\ Quiet
<1>1. UNCHANGED <<files, entries, used, stack, list, chosen>>
  BY DEF EnviarClicked, services
<1>2. PICK d \in CallIds : calls' = [calls EXCEPT ![d] = NewCall("addUser", NULL)]
  BY DEF EnviarClicked
<1>3. QED
  BY <1>1, <1>2, ViewStep, NewCallQuiet DEF AlbumInv, TypeOK

LEMMA BackQuiet ==
    ASSUME AlbumInv, Back
    PROVE  PagesOK' /\ Quiet
<1>1. PICK d \in CallIds : pop(calls, d)
  BY DEF Back
<1>2. UNCHANGED <<files, entries, used>>
  BY DEF Back, services
<1>3. QED
  BY <1>1, <1>2, CallsSame, PopQuiet, QuietStep DEF AlbumInv, TypeOK

LEMMA DisposeQuiet ==
    ASSUME AlbumInv, Dispose
    PROVE  PagesOK' /\ Quiet
<1>1. UNCHANGED <<files, entries, used, stack, list, chosen>>
  BY DEF Dispose, services, view
<1>2. CallsContinue(calls, files)
  BY CallsSame DEF AlbumInv, TypeOK
<1>3. \A c \in CallIds :
         \/ calls'[c] = calls[c]
         \/ calls[c] # NULL /\ calls'[c] = [calls[c] EXCEPT !.at = "gone"]
  BY DEF Dispose, Outstanding
<1>4. \A c \in CallIds : calls[c] # NULL => Continues(calls[c], c, files)
  BY <1>2 DEF CallsContinue
<1>5. \A c \in CallIds :
         calls[c] # NULL => Continues([calls[c] EXCEPT !.at = "gone"], c, files)
  BY <1>4, AtContinues
<1>6. \A c \in CallIds : calls'[c] = NULL \/ Continues(calls'[c], c, files)
  BY <1>3, <1>4, <1>5
<1>7. calls' \in [CallIds -> Call \cup {NULL}]
  <2>1. \A c \in CallIds : calls'[c] \in Call \cup {NULL}
    BY <1>6 DEF Continues
  <2>2. calls' = [c \in CallIds |-> calls'[c]]
    BY DEF Dispose
  <2>3. QED
    BY <2>1, <2>2
<1>8. QED
  BY <1>1, <1>6, <1>7, ViewStep, QuietStep DEF CallsContinue, AlbumInv, TypeOK

LEMMA NoPagesShown ==
    ASSUME NoPages
    PROVE  PagesOK' /\ ShowsKnown
BY PagesWithout DEF NoPages, Cleared, Shapes, ShowsKnown

LEMMA ReplacedQuiet ==
    ASSUME AlbumInv, Replaced
    PROVE  PagesOK' /\ Quiet
<1>1. CallsContinue(Left(calls, "Photos"), files)
  BY CallsSame, CallsLeft DEF AlbumInv, TypeOK
<1>2. CallsContinue(Left(Left(calls, "Photos"), "Add"), files)
  BY <1>1, CallsLeft
<1>3. QED
  BY <1>2, NoPagesShown, QuietStep DEF Replaced, services

LEMMA SessionChangesQuiet ==
    ASSUME AlbumInv, SessionChanges
    PROVE  PagesOK' /\ Quiet
BY CallsSame, ViewStep, QuietStep DEF SessionChanges, view, AlbumInv, TypeOK

LEMMA RelaunchQuiet ==
    ASSUME AlbumInv, Relaunch
    PROVE  PagesOK' /\ Quiet
<1>1. CallsContinue(calls', files)
  BY DEF Relaunch, CallsContinue
<1>2. QED
  BY <1>1, NoPagesShown, QuietStep DEF Relaunch, services
-----------------------------------------------------------------------------
(* Firebase *)

LEMMA ServeQuiet ==
    ASSUME AlbumInv, NEW c \in CallIds, UNCHANGED <<view, used>>,
           entries' \subseteq entries, \A e \in entries \ entries' : e \notin files',
           FilesFollow(files', c),
           NEW x, Continues(x, c, files'), calls' = [calls EXCEPT ![c] = x]
    PROVE  PagesOK' /\ Quiet
<1>1. CallsContinue(calls', files')
  BY CallContinues DEF AlbumInv, TypeOK
<1>2. PagesOK' /\ ShowsKnown
  BY ViewStep DEF view, AlbumInv, TypeOK
<1>3. QED
  BY <1>1, <1>2 DEF Quiet

(* What is known of a call that is served.                                 *)
LEMMA ServedCall ==
    ASSUME AlbumInv, NEW c \in CallIds, NEW ops, Pending(c, ops)
    PROVE  /\ c \in Outstanding /\ calls[c] # NULL /\ calls[c] \in Call
           /\ calls[c].op \in ops /\ calls[c].answer = "pending"
           /\ AddingOK(c)
           /\ FileGone(calls[c]) => Item(calls[c]) \notin files
           /\ IsDeletion(calls[c]) => IsKnown(calls[c].key)
           /\ Item(calls[c])[2] = calls[c].key
<1>1. c \in Outstanding /\ calls[c] # NULL
  BY DEF Pending, Outstanding
<1>2. QED
  BY <1>1 DEF Pending, AlbumInv, TypeOK, CallsOK, PhotosKept, IsKnown, Item

LEMMA ServeCurrentUserQuiet ==
    ASSUME AlbumInv, NEW c \in CallIds, UNCHANGED <<view, used>>,
           ServeCurrentUser(c)
    PROVE  PagesOK' /\ Quiet
<1> DEFINE x == [calls[c] EXCEPT !.answer = "ok", !.user = session]
<1>1. /\ c \in Outstanding /\ calls[c] \in Call
      /\ calls[c].op \in {"loadUser", "delUser", "addUser"}
      /\ IsDeletion(calls[c]) => IsKnown(calls[c].key)
      /\ UNCHANGED <<files, entries>>
  BY ServedCall DEF ServeCurrentUser, services
<1>2. calls' = [calls EXCEPT ![c] = x]
  BY DEF ServeCurrentUser, AlbumInv, TypeOK, CallsOK
<1>3. /\ x \in Call /\ x.op = calls[c].op /\ x.answer = "ok"
      /\ x.key = calls[c].key /\ x.seen = calls[c].seen
  BY <1>1 DEF Call, AlbumInv, TypeOK, ServicesOK
<1> HIDE DEF x
<1>4. \A e \in x.seen : IsKnown(e[2])
  BY <1>1, <1>3 DEF IsKnown
<1>5. Continues(x, c, files)
  BY <1>1, <1>3, <1>4 DEF Continues, IsAdding, IsDeletion, NoFile, HasFile, FileGone
<1>6. QED
  BY <1>1, <1>2, <1>5, ServeQuiet, SameFiles

LEMMA ServeOnceQuiet ==
    ASSUME AlbumInv, NEW c \in CallIds, UNCHANGED <<view, used>>, ServeOnce(c)
    PROVE  PagesOK' /\ Quiet
<1>1. /\ c \in Outstanding /\ calls[c] \in Call /\ calls[c] # NULL
      /\ calls[c].op = "loadOnce" /\ UNCHANGED <<files, entries>>
  BY ServedCall DEF ServeOnce, services
<1>2. CASE Reply(c, "error")
  <2>1. PICK x : /\ calls' = [calls EXCEPT ![c] = x]
                 /\ Follows(x, c, "loadOnce", "error")
    BY <1>1, <1>2, ReplyFacts DEF AlbumInv, TypeOK
  <2>2. Continues(x, c, files)
    BY <1>1, <2>1, FollowContinues
       DEF AlbumInv, TypeOK, Follows, IsAdding, IsDeletion, NoFile, HasFile,
           FileGone, Ops, PageOf
  <2>3. QED
    BY <1>1, <2>1, <2>2, ServeQuiet, SameFiles
<1>3. CASE calls' = [calls EXCEPT
                        ![c].answer = "ok",
                        ![c].seen = {e \in entries : e[1] = calls[c].user}]
  <2> DEFINE read == {e \in entries : e[1] = calls[c].user}
             x == [calls[c] EXCEPT !.answer = "ok", !.seen = read]
  <2>1. calls' = [calls EXCEPT ![c] = x]
    BY <1>3 DEF AlbumInv, TypeOK, CallsOK
  <2>2. read \in SUBSET Items /\ \A e \in read : IsKnown(e[2])
    BY DEF AlbumInv, TypeOK, ServicesOK, IsKnown
  <2> HIDE DEF read
  <2>3. x \in Call /\ x.op = "loadOnce" /\ x.seen = read
    BY <1>1, <2>2 DEF Call
  <2> HIDE DEF x
  <2>4. Continues(x, c, files)
    BY <2>2, <2>3 DEF Continues, IsAdding, IsDeletion, NoFile, HasFile, FileGone
  <2>5. QED
    BY <1>1, <2>1, <2>4, ServeQuiet, SameFiles
<1>4. QED
  BY <1>2, <1>3 DEF ServeOnce

LEMMA ServeGetDownloadURLQuiet ==
    ASSUME AlbumInv, NEW c \in CallIds, UNCHANGED <<view, used>>,
           ServeGetDownloadURL(c)
    PROVE  PagesOK' /\ Quiet
<1>1. /\ calls[c] # NULL /\ calls[c].op = "addUrl" /\ UNCHANGED <<files, entries>>
  BY ServedCall DEF ServeGetDownloadURL, services
<1>2. PICK answer \in {"ok", "error"} :
         Reply(c, answer) /\ (answer = "ok" => Item(calls[c]) \in files)
  BY DEF ServeGetDownloadURL
<1>3. PICK x : /\ calls' = [calls EXCEPT ![c] = x]
               /\ Follows(x, c, "addUrl", answer)
  BY <1>1, <1>2, ReplyFacts DEF AlbumInv, TypeOK
<1>4. Continues(x, c, files)
  BY <1>1, <1>2, <1>3, FollowContinues
     DEF AlbumInv, TypeOK, Follows, IsAdding, IsDeletion, NoFile, HasFile,
         FileGone, Ops, PageOf
<1>5. QED
  BY <1>1, <1>3, <1>4, ServeQuiet, SameFiles

LEMMA ServeDeleteQuiet ==
    ASSUME AlbumInv, NEW c \in CallIds, UNCHANGED <<view, used>>, ServeDelete(c)
    PROVE  PagesOK' /\ Quiet
<1>1. /\ calls[c] # NULL /\ calls[c].op = "delFile" /\ IsKnown(calls[c].key)
      /\ Item(calls[c])[2] = calls[c].key /\ UNCHANGED entries
  BY ServedCall DEF ServeDelete, IsDeletion
<1>2. PICK answer \in {"ok", "error"} :
         /\ Reply(c, answer) /\ files' \in {files, files \ {Item(calls[c])}}
         /\ answer = "ok" => Item(calls[c]) \notin files'
  BY DEF ServeDelete
<1>3. FilesFollow(files', c)
  BY <1>1, <1>2 DEF FilesFollow
<1>4. PICK x : /\ calls' = [calls EXCEPT ![c] = x]
               /\ Follows(x, c, "delFile", answer)
  BY <1>1, <1>2, ReplyFacts DEF AlbumInv, TypeOK
<1>5. Continues(x, c, files')
  BY <1>1, <1>2, <1>4, FollowContinues
     DEF AlbumInv, TypeOK, Follows, IsAdding, IsDeletion, NoFile, HasFile,
         FileGone, Ops, PageOf
<1>6. QED
  BY <1>1, <1>3, <1>4, <1>5, ServeQuiet

LEMMA ServePutFileQuiet ==
    ASSUME AlbumInv, NEW c \in CallIds, UNCHANGED <<view, used>>, ServePutFile(c)
    PROVE  PagesOK' /\ Quiet
<1>1. /\ c \in Outstanding /\ calls[c] # NULL /\ calls[c].op = "addFile"
      /\ files' \in {files, files \cup {Item(calls[c])}}
      /\ Reply(c, "ok") /\ UNCHANGED entries
  BY ServedCall DEF ServePutFile
<1>2. FilesFollow(files', c)
  BY <1>1 DEF FilesFollow, IsAdding
<1>3. PICK x : /\ calls' = [calls EXCEPT ![c] = x]
               /\ Follows(x, c, "addFile", "ok")
  BY <1>1, ReplyFacts DEF AlbumInv, TypeOK
<1>4. Continues(x, c, files')
  BY <1>1, <1>3, FollowContinues
     DEF AlbumInv, TypeOK, Follows, IsAdding, IsDeletion, NoFile, HasFile,
         FileGone, Ops, PageOf
<1>5. QED
  BY <1>1, <1>2, <1>3, <1>4, ServeQuiet

LEMMA ServeRemoveQuiet ==
    ASSUME AlbumInv, NEW c \in CallIds, UNCHANGED <<view, used>>, ServeRemove(c)
    PROVE  PagesOK' /\ Quiet
<1>1. /\ calls[c] # NULL /\ calls[c].op = "delEntry" /\ UNCHANGED files
      /\ Item(calls[c]) \notin files
  BY ServedCall DEF ServeRemove, FileGone
<1>2. PICK answer \in {"ok", "error"} :
         Reply(c, answer) /\ entries' \in {entries, entries \ {Item(calls[c])}}
  BY DEF ServeRemove
<1>3. PICK x : /\ calls' = [calls EXCEPT ![c] = x]
               /\ Follows(x, c, "delEntry", answer)
  BY <1>1, <1>2, ReplyFacts DEF AlbumInv, TypeOK
<1>4. Continues(x, c, files)
  BY <1>1, <1>3, FollowContinues
     DEF AlbumInv, TypeOK, Follows, IsAdding, IsDeletion, NoFile, HasFile,
         FileGone, Ops, PageOf
<1>5. QED
  BY <1>1, <1>2, <1>3, <1>4, ServeQuiet, SameFiles
-----------------------------------------------------------------------------
(* An entry is stored *)

LEMMA ServeSendKeeps ==
    ASSUME AlbumInv, NEW c \in CallIds, UNCHANGED <<view, used>>, ServeSend(c)
    PROVE  PagesOK' /\ CallsOK' /\ PhotosKept'
<1>1. /\ c \in Outstanding /\ calls[c] # NULL /\ calls[c].op = "addEntry"
      /\ calls[c].answer = "pending" /\ AddingOK(c) /\ UNCHANGED files
      /\ Item(calls[c])[2] = calls[c].key
  BY ServedCall DEF ServeSend
<1>2. CASE Reply(c, "error") /\ UNCHANGED entries
  <2>1. PICK x : /\ calls' = [calls EXCEPT ![c] = x]
                 /\ Follows(x, c, "addEntry", "error")
    BY <1>1, <1>2, ReplyFacts DEF AlbumInv, TypeOK
  <2>2. Continues(x, c, files)
    BY <1>1, <2>1, FollowContinues
       DEF AlbumInv, TypeOK, Follows, IsAdding, IsDeletion, NoFile, HasFile,
           FileGone, Ops, PageOf
  <2>3. PagesOK' /\ Quiet
    BY <1>1, <1>2, <2>1, <2>2, ServeQuiet, SameFiles
  <2>4. QED
    BY <2>3, QuietKeeps, QuietTypes DEF AlbumInv, TypeOK
<1>3. CASE Reply(c, "ok") /\ entries' = entries \cup {Item(calls[c])}
  <2>1. PICK x : /\ calls' = [calls EXCEPT ![c] = x]
                 /\ Follows(x, c, "addEntry", "ok")
    BY <1>1, <1>3, ReplyFacts DEF AlbumInv, TypeOK
  <2>2. /\ calls' \in [CallIds -> Call \cup {NULL}] /\ calls'[c] = x
        /\ \A d \in CallIds \ {c} : calls'[d] = calls[d]
    BY <2>1 DEF AlbumInv, TypeOK, CallsOK, Follows
  <2>3. /\ ~IsAdding(x) /\ ~IsDeletion(x) /\ ~FileGone(x) /\ IsAdding(calls[c])
        /\ x.seen = calls[c].seen
    BY <1>1, <2>1 DEF Follows, IsAdding, IsDeletion, FileGone
  <2>4. Outstanding' \subseteq Outstanding
    BY <1>1, <2>2 DEF Outstanding
  <2>5. UNCHANGED <<stack, list, chosen, used, files>>
    BY <1>1 DEF view
  <2>6. ASSUME NEW k, IsKnown(k)', k # calls[c].key
        PROVE  IsKnown(k)
    <3>1. CASE \E e \in entries' \cup list' : e[2] = k
      BY <1>1, <1>3, <2>5, <2>6, <3>1 DEF IsKnown
    <3>2. CASE chosen' # NULL /\ chosen'[2] = k
      BY <2>5, <3>2 DEF IsKnown
    <3>3. CASE \E d \in Outstanding' :
                  \/ IsDeletion(calls'[d]) /\ calls'[d].key = k
                  \/ \E e \in calls'[d].seen : e[2] = k
      <4>1. PICK d \in Outstanding' :
               \/ IsDeletion(calls'[d]) /\ calls'[d].key = k
               \/ \E e \in calls'[d].seen : e[2] = k
        BY <3>3
      <4>2. d \in Outstanding /\ d \in CallIds
        BY <2>4 DEF Outstanding
      <4>3. \/ IsDeletion(calls[d]) /\ calls[d].key = k
            \/ \E e \in calls[d].seen : e[2] = k
        BY <2>2, <2>3, <4>1, <4>2
      <4>4. QED
        BY <4>2, <4>3 DEF IsKnown
    <3>4. QED
      BY <2>6, <3>1, <3>2, <3>3 DEF IsKnown, IsDeletion
  <2>7. KeysOK'
    <3>1. \A k \in Keys : IsKnown(k)' => k \in used'
      BY <1>1, <2>3, <2>5, <2>6 DEF AlbumInv, PhotosKept, KeysOK, AddingOK
    <3>2. \A e \in files' : e[2] \in used'
      BY <2>5 DEF AlbumInv, PhotosKept, KeysOK
    <3>3. ASSUME NEW e \in files' \ entries'
          PROVE  ~IsKnown(e[2])'
      <4>1. e \in files \ entries /\ e # Item(calls[c])
        BY <1>3, <2>5
      <4>2. ~IsKnown(e[2]) /\ e[2] # calls[c].key
        BY <1>1, <2>3, <4>1 DEF AlbumInv, PhotosKept, KeysOK, AddingOK
      <4>3. QED
        BY <2>6, <4>2
    <3>4. QED
      BY <3>1, <3>2, <3>3 DEF KeysOK
  <2>8. ASSUME NEW d \in Outstanding', IsAdding(calls'[d])
        PROVE  /\ d \in Outstanding \ {c} /\ calls'[d] = calls[d] /\ IsAdding(calls[d])
               /\ AddingOK(d) /\ calls[d].key # calls[c].key
    <3>1. d \in Outstanding \ {c}
      BY <2>2, <2>3, <2>4, <2>8
    <3>2. calls'[d] = calls[d]
      BY <2>2, <3>1 DEF Outstanding
    <3>3. AddingOK(d)
      BY <3>1 DEF AlbumInv, PhotosKept
    <3>4. QED
      BY <1>1, <2>3, <2>8, <3>1, <3>2, <3>3 DEF AddingOK
  <2>9. ASSUME NEW d \in Outstanding'
        PROVE  AddingOK(d)'
    <3> SUFFICES ASSUME IsAdding(calls'[d])
                 PROVE  AddingOK(d)'
      BY DEF AddingOK, IsAdding
    <3>1. PICK k : k = calls[d].key
      OBVIOUS
    <3>2. /\ k = calls'[d].key /\ k # calls[c].key /\ AddingOK(d)
          /\ d \in Outstanding \ {c} /\ calls'[d] = calls[d] /\ IsAdding(calls[d])
      BY <2>8, <3>1
    <3>3. ~IsKnown(k)'
      BY <2>6, <3>1, <3>2 DEF AddingOK
    <3>4. ~IsKnown(calls[d].key)'
      BY <3>2, <3>3 DEF IsKnown
    <3>5. \A b \in Outstanding' \ {d} :
             IsAdding(calls'[b]) => calls'[b].key # calls'[d].key
      BY <2>8, <3>2 DEF AddingOK
    <3>6. QED
      BY <2>5, <3>2, <3>4, <3>5 DEF AddingOK, IsAdding, NoFile, HasFile, Item
  <2>10. ASSUME NEW d \in Outstanding', FileGone(calls'[d])
         PROVE  Item(calls'[d]) \notin files'
    <3>1. d \in Outstanding /\ calls'[d] = calls[d]
      BY <2>2, <2>3, <2>4, <2>10 DEF Outstanding
    <3>2. QED
      BY <2>5, <2>10, <3>1 DEF AlbumInv, PhotosKept
  <2>11. PhotosKept'
    BY <2>7, <2>9, <2>10 DEF PhotosKept, FileGone, Item
  <2>12. CallsOK'
    BY <2>2, <2>8 DEF AlbumInv, TypeOK, CallsOK, IsAdding, Item
  <2>13. PagesOK'
    BY <2>5, ViewStep DEF AlbumInv, TypeOK
  <2>14. QED
    BY <2>11, <2>12, <2>13
<1>4. QED
  BY <1>2, <1>3 DEF ServeSend
-----------------------------------------------------------------------------
(* A key is given *)

LEMMA AddUserReturnsKeeps ==
    ASSUME AlbumInv, NEW c \in CallIds, AddUserReturns(c)
    PROVE  PagesOK' /\ CallsOK' /\ PhotosKept' /\ used' \in SUBSET Keys
<1>1. /\ c \in Outstanding /\ calls[c] # NULL /\ calls[c] \in Call
      /\ UNCHANGED <<files, entries>>
  BY DEF AddUserReturns, Answered, Outstanding, services, AlbumInv, TypeOK,
         CallsOK
<1>2. CASE Ends(c) /\ UNCHANGED used
  BY <1>1, <1>2, EndsQuiet, QuietKeeps, QuietTypes
     DEF AlbumInv, TypeOK, ServicesOK
<1>3. CASE /\ calls[c].user # NULL /\ UNCHANGED view
           /\ \E key \in Keys \ used :
                 /\ used' = used \cup {key}
                 /\ calls' = [Awaiting(c, "addFile") EXCEPT ![c].key = key]
  <2>1. PICK key \in Keys \ used :
           /\ used' = used \cup {key}
           /\ calls' = [Awaiting(c, "addFile") EXCEPT ![c].key = key]
    BY <1>3
  <2>2. PICK y : /\ Awaiting(c, "addFile") = [calls EXCEPT ![c] = y]
                 /\ Follows(y, c, "addFile", "pending")
    BY <1>1, AwaitingFacts DEF AlbumInv, TypeOK, Ops, PageOf
  <2> DEFINE x == [y EXCEPT !.key = key]
  <2>3. calls' = [calls EXCEPT ![c] = x]
    BY <2>1, <2>2 DEF AlbumInv, TypeOK, CallsOK
  <2>4. /\ x \in Call /\ x.op = "addFile" /\ x.user = calls[c].user
        /\ x.key = key /\ x.seen = calls[c].seen
    BY <2>2 DEF Follows, Call
  <2> HIDE DEF x
  <2>5. /\ calls' \in [CallIds -> Call \cup {NULL}] /\ calls'[c] = x
        /\ \A d \in CallIds \ {c} : calls'[d] = calls[d]
    BY <2>3, <2>4 DEF AlbumInv, TypeOK, CallsOK
  <2>6. Outstanding' \subseteq Outstanding
    BY <1>1, <2>5 DEF Outstanding
  <2>7. UNCHANGED <<stack, list, chosen, files, entries>>
    BY <1>1, <1>3 DEF view
  <2>8. /\ ~IsDeletion(x) /\ ~FileGone(x) /\ ~HasFile(x)
        /\ Item(x) \in Items /\ Item(x)[2] = key
    BY <1>1, <1>3, <2>4
       DEF IsDeletion, FileGone, HasFile, Item, Items, Call
  <2>9. ASSUME NEW k, IsKnown(k)'
        PROVE  IsKnown(k)
    <3>1. CASE \E e \in entries' \cup list' : e[2] = k
      BY <2>7, <3>1 DEF IsKnown
    <3>2. CASE chosen' # NULL /\ chosen'[2] = k
      BY <2>7, <3>2 DEF IsKnown
    <3>3. CASE \E d \in Outstanding' :
                  \/ IsDeletion(calls'[d]) /\ calls'[d].key = k
                  \/ \E e \in calls'[d].seen : e[2] = k
      <4>1. PICK d \in Outstanding' :
               \/ IsDeletion(calls'[d]) /\ calls'[d].key = k
               \/ \E e \in calls'[d].seen : e[2] = k
        BY <3>3
      <4>2. d \in Outstanding /\ d \in CallIds
        BY <2>6 DEF Outstanding
      <4>3. \/ IsDeletion(calls[d]) /\ calls[d].key = k
            \/ \E e \in calls[d].seen : e[2] = k
        BY <2>4, <2>5, <2>8, <4>1, <4>2
      <4>4. QED
        BY <4>2, <4>3 DEF IsKnown
    <3>4. QED
      BY <2>9, <3>1, <3>2, <3>3 DEF IsKnown, IsDeletion
  <2>10. KeysOK'
    <3>1. \A k \in Keys : IsKnown(k)' => k \in used'
      BY <2>1, <2>9 DEF AlbumInv, PhotosKept, KeysOK
    <3>2. \A e \in files' : e[2] \in used'
      BY <2>1, <2>7 DEF AlbumInv, PhotosKept, KeysOK
    <3>3. ASSUME NEW e \in files' \ entries'
          PROVE  ~IsKnown(e[2])'
      BY <2>7, <2>9 DEF AlbumInv, PhotosKept, KeysOK
    <3>4. QED
      BY <3>1, <3>2, <3>3 DEF KeysOK
  <2>11. ASSUME NEW d \in Outstanding' \ {c}, IsAdding(calls'[d])
         PROVE  /\ d \in Outstanding /\ calls'[d] = calls[d] /\ IsAdding(calls[d])
                /\ AddingOK(d) /\ calls[d].key \in used
    <3>1. d \in Outstanding /\ calls'[d] = calls[d]
      BY <2>5, <2>6 DEF Outstanding
    <3>2. AddingOK(d)
      BY <3>1 DEF AlbumInv, PhotosKept
    <3>3. QED
      BY <2>11, <3>1, <3>2 DEF AddingOK
  <2>12. AddingOK(c)'
    <3>1. ~IsKnown(key)'
      BY <2>9 DEF AlbumInv, PhotosKept, KeysOK
    <3>2. ~IsKnown(calls[c].key)'
      BY <2>4, <2>5, <3>1 DEF IsKnown
    <3>3. \A b \in Outstanding' \ {c} :
             IsAdding(calls'[b]) => calls'[b].key # calls'[c].key
      BY <2>4, <2>5, <2>11
    <3>4. \A e \in files' : e[2] # key
      BY <2>7 DEF AlbumInv, PhotosKept, KeysOK
    <3>5. calls'[c].key = key /\ key \in used' /\ Item(calls'[c]) \notin files'
          /\ ~HasFile(calls'[c])
      BY <2>1, <2>4, <2>5, <2>8, <3>4
    <3>6. QED
      BY <3>2, <3>3, <3>4, <3>5 DEF AddingOK, IsAdding, NoFile, HasFile, Item
  <2>13. ASSUME NEW d \in Outstanding' \ {c}
         PROVE  AddingOK(d)'
    <3> SUFFICES ASSUME IsAdding(calls'[d])
                 PROVE  AddingOK(d)'
      BY DEF AddingOK, IsAdding
    <3>1. PICK k : k = calls[d].key
      OBVIOUS
    <3>2. /\ k = calls'[d].key /\ k \in used /\ AddingOK(d)
          /\ d \in Outstanding /\ calls'[d] = calls[d] /\ IsAdding(calls[d])
      BY <2>11, <3>1
    <3>3. ~IsKnown(k)'
      BY <2>9, <3>1, <3>2 DEF AddingOK
    <3>4. ~IsKnown(calls[d].key)'
      BY <3>2, <3>3 DEF IsKnown
    <3>5. \A b \in Outstanding' \ {d} :
             IsAdding(calls'[b]) => calls'[b].key # calls'[d].key
      BY <2>4, <2>5, <2>11, <3>2 DEF AddingOK
    <3>6. calls'[d].key \in used'
      BY <2>1, <3>2
    <3>7. QED
      BY <2>7, <3>2, <3>4, <3>5, <3>6 DEF AddingOK, IsAdding, NoFile, HasFile, Item
  <2>14. ASSUME NEW d \in Outstanding', FileGone(calls'[d])
         PROVE  Item(calls'[d]) \notin files'
    <3>1. d \in Outstanding /\ calls'[d] = calls[d]
      BY <2>5, <2>6, <2>8, <2>14 DEF Outstanding
    <3>2. QED
      BY <2>7, <2>14, <3>1 DEF AlbumInv, PhotosKept
  <2>15. PhotosKept'
    BY <2>10, <2>12, <2>13, <2>14 DEF PhotosKept, FileGone, Item
  <2>16. CallsOK'
    <3>1. ASSUME NEW d \in Outstanding', IsAdding(calls'[d])
          PROVE  Item(calls'[d]) \in Items
      <4>1. CASE d = c
        BY <2>5, <2>8, <4>1
      <4>2. CASE d # c
        BY <2>11, <3>1, <4>2 DEF AlbumInv, TypeOK, CallsOK
      <4>3. QED
        BY <4>1, <4>2
    <3>2. QED
      BY <2>5, <3>1 DEF CallsOK, IsAdding, Item
  <2>17. PagesOK' /\ used' \in SUBSET Keys
    BY <2>1, <2>7, ViewStep DEF AlbumInv, TypeOK, ServicesOK
  <2>18. QED
    BY <2>15, <2>16, <2>17
<1>4. QED
  BY <1>2, <1>3 DEF AddUserReturns
-----------------------------------------------------------------------------
(* The inductive invariant *)

LEMMA AlbumInit == Init => AlbumInv
<1> SUFFICES ASSUME Init
             PROVE  AlbumInv
  OBVIOUS
<1>1. Outstanding = {}
  BY DEF Init, Outstanding
<1>2. PagesOK
  BY DEF Init, PagesOK, Shapes, Top
<1>3. \A k : ~IsKnown(k)
  BY <1>1 DEF Init, IsKnown
<1>4. QED
  BY <1>1, <1>2, <1>3
     DEF Init, AlbumInv, TypeOK, ServicesOK, CallsOK, PhotosKept, KeysOK

(* Serving a call keeps the invariant.                                     *)
LEMMA ServeKeeps ==
    ASSUME AlbumInv, NEW c \in CallIds, Serve(c)
    PROVE  PagesOK' /\ CallsOK' /\ PhotosKept'
<1>1. UNCHANGED <<view, used>>
  BY DEF Serve
<1>2. CASE ServeSend(c)
  BY <1>1, <1>2, ServeSendKeeps
<1>3. CASE PagesOK' /\ Quiet
  BY <1>3, QuietKeeps, QuietTypes DEF AlbumInv, TypeOK
<1>4. QED
  BY <1>1, <1>2, <1>3, ServeCurrentUserQuiet, ServeDeleteQuiet, ServePutFileQuiet,
     ServeGetDownloadURLQuiet, ServeOnceQuiet, ServeRemoveQuiet DEF Serve

(* What the services are given is of their type.                           *)
LEMMA ServeServices ==
    ASSUME AlbumInv, NEW c \in CallIds, Serve(c)
    PROVE  ServicesOK'
<1>1. UNCHANGED <<session, used>>
  BY DEF Serve, ServeCurrentUser, ServeDelete, ServePutFile, ServeOnce,
         ServeGetDownloadURL, ServeRemove, ServeSend, services
<1>2. CASE ServePutFile(c) \/ ServeSend(c)
  <2>1. c \in Outstanding /\ IsAdding(calls[c])
    BY <1>2, ServedCall DEF ServePutFile, ServeSend, IsAdding
  <2>2. Item(calls[c]) \in Items
    BY <2>1 DEF AlbumInv, TypeOK, CallsOK
  <2>3. QED
    BY <1>1, <1>2, <2>2
       DEF ServePutFile, ServeSend, AlbumInv, TypeOK, ServicesOK
<1>3. CASE files' \subseteq files /\ entries' \subseteq entries
  BY <1>1, <1>3 DEF AlbumInv, TypeOK, ServicesOK
<1>4. QED
  BY <1>2, <1>3
     DEF Serve, ServeCurrentUser, ServeDelete, ServeOnce, ServeGetDownloadURL,
         ServeRemove, services

(* The app gives keys, signs in or out, and leaves the services alone      *)
(* otherwise.                                                              *)
LEMMA AppLeavesFiles ==
    ASSUME Next, ~ \E c \in CallIds : Serve(c)
    PROVE  UNCHANGED <<files, entries>>
<1>1. CASE \E c \in CallIds : Resume(c)
  BY <1>1 DEF Resume, LoadUserReturns, LoadOnceReturns, DelUserReturns,
              DelFileReturns, DelEntryReturns, AddUserReturns, AddFileReturns,
              AddUrlReturns, AddEntryReturns, services
<1>2. CASE ~ \E c \in CallIds : Resume(c)
  BY <1>2 DEF Next, MinhasFotos, PhotoTapped, ExcluirClicked, AddTapped,
              EnviarClicked, Back, Dispose, Replaced, SessionChanges, Relaunch,
              services
<1>3. QED
  BY <1>1, <1>2

LEMMA AppSession ==
    ASSUME AlbumInv, Next, ~ \E c \in CallIds : Serve(c)
    PROVE  session' \in Users \cup {NULL}
<1>1. CASE SessionChanges
  BY <1>1 DEF SessionChanges
<1>2. CASE \E c \in CallIds : Resume(c)
  <2>1. UNCHANGED session
    BY <1>2 DEF Resume, LoadUserReturns, LoadOnceReturns, DelUserReturns,
              DelFileReturns, DelEntryReturns, AddUserReturns, AddFileReturns,
              AddUrlReturns, AddEntryReturns, services
  <2>2. QED
    BY <2>1 DEF AlbumInv, TypeOK, ServicesOK
<1>3. CASE ~SessionChanges /\ ~ \E c \in CallIds : Resume(c)
  <2>1. UNCHANGED session
    BY <1>3 DEF Next, MinhasFotos, PhotoTapped, ExcluirClicked, AddTapped,
              EnviarClicked, Back, Dispose, Replaced, Relaunch, services
  <2>2. QED
    BY <2>1 DEF AlbumInv, TypeOK, ServicesOK
<1>4. QED
  BY <1>1, <1>2, <1>3

LEMMA ResumeKeeps ==
    ASSUME AlbumInv, NEW c \in CallIds, Resume(c)
    PROVE  PagesOK' /\ CallsOK' /\ PhotosKept' /\ used' \in SUBSET Keys
<1>1. CASE AddUserReturns(c)
  BY <1>1, AddUserReturnsKeeps
<1>2. CASE PagesOK' /\ Quiet
  <2>1. UNCHANGED used
    BY <1>2 DEF Quiet
  <2>2. QED
    BY <1>2, <2>1, QuietKeeps, QuietTypes DEF AlbumInv, TypeOK, ServicesOK
<1>3. QED
  BY <1>1, <1>2, LoadUserReturnsQuiet, LoadOnceReturnsQuiet, DelUserReturnsQuiet,
     DelFileReturnsQuiet, DelEntryReturnsQuiet, AddFileReturnsQuiet,
     AddUrlReturnsQuiet, AddEntryReturnsQuiet DEF Resume

LEMMA AlbumNext ==
    ASSUME AlbumInv, [Next]_vars
    PROVE  AlbumInv'
<1>1. CASE UNCHANGED vars
  <2>1. UNCHANGED <<files, entries, used, stack, list, chosen, calls, session>>
    BY <1>1 DEF vars
  <2>2. PagesOK' /\ Quiet
    BY <2>1, ViewStep, CallsSame, QuietStep DEF AlbumInv, TypeOK
  <2>3. QED
    BY <2>1, <2>2, QuietKeeps, QuietTypes DEF AlbumInv, TypeOK, ServicesOK
<1>2. CASE \E c \in CallIds : Serve(c)
  BY <1>2, ServeKeeps, ServeServices DEF AlbumInv, TypeOK
<1>3. CASE Next /\ ~ \E c \in CallIds : Serve(c)
  <2>1. UNCHANGED <<files, entries>> /\ session' \in Users \cup {NULL}
    BY <1>3, AppLeavesFiles, AppSession
  <2>2. PagesOK' /\ CallsOK' /\ PhotosKept' /\ used' \in SUBSET Keys
    <3>1. CASE \E c \in CallIds : Resume(c)
      BY <3>1, ResumeKeeps
    <3>2. CASE PagesOK' /\ Quiet
      <4>1. UNCHANGED used
        BY <3>2 DEF Quiet
      <4>2. QED
        BY <3>2, <4>1, QuietKeeps, QuietTypes DEF AlbumInv, TypeOK, ServicesOK
    <3>3. QED
      BY <1>3, <3>1, <3>2, MinhasFotosQuiet, PhotoTappedQuiet, ExcluirClickedQuiet,
         AddTappedQuiet, EnviarClickedQuiet, BackQuiet, DisposeQuiet, ReplacedQuiet,
         SessionChangesQuiet, RelaunchQuiet DEF Next
  <2>3. QED
    BY <2>1, <2>2 DEF AlbumInv, TypeOK, ServicesOK
<1>4. QED
  BY <1>1, <1>2, <1>3

(* The invariant behind AlbumLife holds: nothing shows a photo while it is *)
(* being added, and a deletion is always about a photo that was shown      *)
(* (PhotosController.addPicture and deletePicture).                        *)
THEOREM PhotosAlwaysKept == Spec => []AlbumInv
<1>1. Init => AlbumInv
  BY AlbumInit
<1>2. AlbumInv /\ [Next]_vars => AlbumInv'
  BY AlbumNext
<1>3. QED
  BY <1>1, <1>2, PTL DEF Spec

-----------------------------------------------------------------------------
(* The pages implement an album *)

LEMMA StageChanges ==
    ASSUME NEW e \in Items, \A f \in Items \ {e} : Stage(f)' = Stage(f)
    PROVE  [f \in Items |-> Stage(f)]'
              = [[f \in Items |-> Stage(f)] EXCEPT ![e] = Stage(e)']
OBVIOUS

LEMMA ServeIsAlbumStep ==
    ASSUME AlbumInv, NEW c \in CallIds, Serve(c)
    PROVE  [Abstract!Next]_(Abstract!vars)
<1>1. CASE UNCHANGED <<files, entries>>
  BY <1>1 DEF Stage, Abstract!vars
<1>2. CASE ServeDelete(c) /\ files' # files
  <2>1. PICK e \in Items :
           e = Item(calls[c]) /\ e \in files /\ files' = files \ {e}
    BY <1>2 DEF ServeDelete, AlbumInv, TypeOK, ServicesOK
  <2>2. IsKnown(e[2]) /\ UNCHANGED entries
    BY <1>2, <2>1, ServedCall DEF ServeDelete, IsDeletion
  <2>3. e \in entries
    BY <2>1, <2>2 DEF AlbumInv, PhotosKept, KeysOK
  <2>4. Stage(e) = "stored" /\ Stage(e)' = "broken"
    BY <2>1, <2>2, <2>3 DEF Stage
  <2>5. \A f \in Items \ {e} : Stage(f)' = Stage(f)
    BY <2>1, <2>2 DEF Stage
  <2>6. Abstract!DeleteFile(e)
    BY <2>1, <2>4, <2>5, StageChanges
       DEF Abstract!DeleteFile, Abstract!Becomes
  <2>7. QED
    BY <2>6 DEF Abstract!Next
<1>3. CASE ServePutFile(c) /\ files' # files
  <2>1. /\ c \in Outstanding /\ IsAdding(calls[c]) /\ NoFile(calls[c])
        /\ AddingOK(c) /\ Item(calls[c])[2] = calls[c].key
    BY <1>3, ServedCall DEF ServePutFile, IsAdding, NoFile
  <2>2. PICK e \in Items :
           /\ e = Item(calls[c]) /\ e \notin files /\ files' = files \cup {e}
           /\ UNCHANGED entries
    BY <1>3, <2>1 DEF ServePutFile, AlbumInv, TypeOK, CallsOK
  <2>3. e \notin entries
    BY <2>1, <2>2 DEF AddingOK, IsKnown
  <2>4. Stage(e) = "absent" /\ Stage(e)' = "uploaded"
    BY <2>2, <2>3 DEF Stage
  <2>5. \A f \in Items \ {e} : Stage(f)' = Stage(f)
    BY <2>2 DEF Stage
  <2>6. Abstract!Upload(e)
    BY <2>4, <2>5, StageChanges DEF Abstract!Upload, Abstract!Becomes
  <2>7. QED
    BY <2>6 DEF Abstract!Next
<1>4. CASE ServeRemove(c) /\ entries' # entries
  <2>1. PICK e \in Items :
           /\ e = Item(calls[c]) /\ e \in entries /\ entries' = entries \ {e}
           /\ UNCHANGED files
    BY <1>4 DEF ServeRemove, AlbumInv, TypeOK, ServicesOK
  <2>2. e \notin files
    BY <1>4, <2>1, ServedCall DEF ServeRemove, FileGone
  <2>3. Stage(e) = "broken" /\ Stage(e)' = "absent"
    BY <2>1, <2>2 DEF Stage
  <2>4. \A f \in Items \ {e} : Stage(f)' = Stage(f)
    BY <2>1 DEF Stage
  <2>5. Abstract!RemoveEntry(e)
    BY <2>3, <2>4, StageChanges DEF Abstract!RemoveEntry, Abstract!Becomes
  <2>6. QED
    BY <2>5 DEF Abstract!Next
<1>5. CASE ServeSend(c) /\ entries' # entries
  <2>1. /\ c \in Outstanding /\ IsAdding(calls[c]) /\ HasFile(calls[c])
        /\ AddingOK(c)
    BY <1>5, ServedCall DEF ServeSend, IsAdding, HasFile
  <2>2. PICK e \in Items :
           /\ e = Item(calls[c]) /\ e \notin entries /\ entries' = entries \cup {e}
           /\ UNCHANGED files
    BY <1>5, <2>1 DEF ServeSend, AlbumInv, TypeOK, CallsOK
  <2>3. e \in files
    BY <2>1, <2>2 DEF AddingOK
  <2>4. Stage(e) = "uploaded" /\ Stage(e)' = "stored"
    BY <2>2, <2>3 DEF Stage
  <2>5. \A f \in Items \ {e} : Stage(f)' = Stage(f)
    BY <2>2 DEF Stage
  <2>6. Abstract!Store(e)
    BY <2>4, <2>5, StageChanges DEF Abstract!Store, Abstract!Becomes
  <2>7. QED
    BY <2>6 DEF Abstract!Next
<1>6. QED
  BY <1>1, <1>2, <1>3, <1>4, <1>5
     DEF Serve, ServeCurrentUser, ServeDelete, ServePutFile, ServeOnce,
         ServeGetDownloadURL, ServeRemove, ServeSend, services

LEMMA AlbumStep ==
    ASSUME AlbumInv, [Next]_vars
    PROVE  [Abstract!Next]_(Abstract!vars)
<1>1. CASE \E c \in CallIds : Serve(c)
  BY <1>1, ServeIsAlbumStep
<1>2. CASE UNCHANGED <<files, entries>>
  BY <1>2 DEF Stage, Abstract!vars
<1>3. QED
  BY <1>1, <1>2, AppLeavesFiles DEF vars

(* For every number of accounts, photos and outstanding calls, the pages   *)
(* of the photos implement an album: every answer of Firebase to           *)
(* addPicture or deletePicture moves one photo one stage on, and nothing   *)
(* else changes what is stored (PhotosController.dart).                    *)
THEOREM ImplementsAlbum == Spec => AlbumLife
<1>1. Init => Abstract!Init
  BY DEF Init, Abstract!Init, Stage
<1>2. AlbumInv /\ [Next]_vars => [Abstract!Next]_(Abstract!vars)
  BY AlbumStep
<1>3. QED
  BY <1>1, <1>2, PhotosAlwaysKept, PTL DEF Spec, AlbumLife, Abstract!Spec

=============================================================================
