---------------------------- MODULE GhostProofs ----------------------------
(***************************************************************************)
(* A photo that was deleted does not come back to the list.  The database  *)
(* answers in the order of the requests: what was read before an entry was *)
(* removed is shown before the deletion resumes and clears the list.       *)
(***************************************************************************)
EXTENDS AlbumProofs

-----------------------------------------------------------------------------
(* The calls of a step *)

(* The call d waits on, but its page may be left; a deletion that is left  *)
(* is noted.                                                               *)
Kept(d) ==
    IF calls[d] = NULL THEN calls'[d] = NULL
    ELSE /\ calls'[d] # NULL
         /\ calls'[d].op = calls[d].op /\ calls'[d].answer = calls[d].answer
         /\ calls'[d].key = calls[d].key /\ calls'[d].seen = calls[d].seen
         /\ calls'[d].at = "on" => calls[d].at = "on"
         /\ IsDeletion(calls[d]) /\ calls[d].at = "on" /\ calls'[d].at # "on" =>
               calls[d].key \in left'

(* What was noted stays so, or the list is cleared.                        *)
LeftFollows ==
    \/ left \subseteq left'
    \/ list' = {} /\ left' = LeftBehind(calls')

(* All calls but those in S.                                               *)
OthersKept(S) == \A d \in CallIds \ S : Kept(d)

(* The call c has read nothing, or just now.                               *)
Fresh(c) ==
    calls'[c] # NULL /\ calls'[c].seen # {} =>
       /\ calls'[c].op = "loadOnce" /\ calls'[c].answer = "ok"
       /\ calls'[c].seen \subseteq entries'

(* It is not a deletion, or the same one as before.                        *)
NoNewDeletion(c) ==
    calls'[c] # NULL /\ IsDeletion(calls'[c]) =>
       /\ calls[c] # NULL /\ IsDeletion(calls[c])
       /\ calls'[c].at = calls[c].at /\ calls'[c].key = calls[c].key

(* The order of the requests of other calls than those in S stays.         *)
OrderKept(S) == \A a, b \in CallIds \ S : Before(a, b) => Before(a, b)'

LEMMA OneCall ==
    ASSUME CallsOK, NEW c \in CallIds, NEW x, calls' = [calls EXCEPT ![c] = x]
    PROVE  calls'[c] = x /\ OthersKept({c})
<1>1. calls'[c] = x /\ \A d \in CallIds \ {c} : calls'[d] = calls[d]
  BY DEF CallsOK
<1>2. QED
  BY <1>1 DEF OthersKept, Kept

(* A deletion behind a page that was left is noted when the list is        *)
(* cleared.                                                                *)
LEMMA NotedBehind ==
    ASSUME NEW d \in CallIds, calls'[d] # NULL, IsDeletion(calls'[d]),
           calls'[d].at # "on", left' = LeftBehind(calls')
    PROVE  calls'[d].key \in left'
BY DEF LeftBehind

LEMMA SameCalls ==
    ASSUME UNCHANGED calls
    PROVE  OthersKept({})
BY DEF OthersKept, Kept

(* The call c goes on as op, with the given answer.                        *)
Goes(c, op, answer) ==
    /\ calls'[c] # NULL /\ OthersKept({c})
    /\ calls'[c].op = op /\ calls'[c].answer = answer
    /\ calls'[c].at = calls[c].at /\ calls'[c].seen = calls[c].seen
    /\ IsDeletion(calls'[c]) => calls'[c].key = calls[c].key

LEMMA AwaitingGoes ==
    ASSUME CallsOK, NEW c \in CallIds, calls[c] # NULL, NEW op \in Ops,
           calls' = Awaiting(c, op)
    PROVE  Goes(c, op, "pending")
<1> DEFINE x == [calls[c] EXCEPT !.op = op, !.answer = "pending"]
<1>1. calls[c] \in Call
  BY DEF CallsOK
<1>2. /\ x \in Call /\ x.op = op /\ x.answer = "pending" /\ x.at = calls[c].at
      /\ x.seen = calls[c].seen /\ x.key = calls[c].key
  BY <1>1 DEF Call
<1>3. calls' = [calls EXCEPT ![c] = x]
  BY DEF Awaiting, CallsOK
<1> HIDE DEF x
<1>4. QED
  BY <1>2, <1>3, OneCall, NullIsNoCall DEF Goes

LEMMA ReplyGoes ==
    ASSUME CallsOK, NEW c \in CallIds, calls[c] # NULL,
           NEW answer \in {"pending", "ok", "error"}, Reply(c, answer)
    PROVE  Goes(c, calls[c].op, answer) /\ calls'[c].key = calls[c].key
<1> DEFINE x == [calls[c] EXCEPT !.answer = answer]
<1>1. calls[c] \in Call
  BY DEF CallsOK
<1>2. /\ x \in Call /\ x.op = calls[c].op /\ x.answer = answer
      /\ x.at = calls[c].at /\ x.seen = calls[c].seen /\ x.key = calls[c].key
  BY <1>1 DEF Call
<1>3. calls' = [calls EXCEPT ![c] = x]
  BY DEF Reply, CallsOK
<1> HIDE DEF x
<1>4. QED
  BY <1>2, <1>3, OneCall, NullIsNoCall DEF Goes

(* A call that is made.                                                    *)
LEMMA NewCallFacts ==
    ASSUME NEW op \in Ops, NEW key \in Keys \cup {NULL}
    PROVE  /\ NewCall(op, key) # NULL /\ NewCall(op, key).op = op
           /\ NewCall(op, key).at = "on" /\ NewCall(op, key).key = key
           /\ NewCall(op, key).seen = {}
<1>1. NewCall(op, key) \in Call
  BY DEF NewCall, Call
<1>2. QED
  BY <1>1, NullIsNoCall DEF NewCall

LEMMA NewCallStep ==
    ASSUME CallsOK, NEW c \in CallIds, NEW op \in Ops, NEW key \in Keys \cup {NULL},
           calls' = [calls EXCEPT ![c] = NewCall(op, key)]
    PROVE  /\ calls'[c] # NULL /\ calls'[c].op = op /\ calls'[c].at = "on"
           /\ calls'[c].key = key /\ calls'[c].seen = {} /\ OthersKept({c})
<1>1. PICK x : x = NewCall(op, key)
  OBVIOUS
<1>2. calls'[c] = x /\ OthersKept({c})
  BY <1>1, OneCall
<1>3. QED
  BY <1>1, <1>2, NewCallFacts

(* The calls of a page that is left, as the list is cleared.               *)
LEMMA LeftKept ==
    ASSUME NEW f \in [CallIds -> Call \cup {NULL}], NEW d \in CallIds,
           f[d] = calls[d], NEW page, calls'[d] = Left(f, page)[d],
           left' = LeftBehind(calls')
    PROVE  /\ Kept(d)
           /\ calls'[d] # NULL /\ calls'[d].at = "on" =>
                 PageOf[calls'[d].op] # page
<1>1. CASE calls'[d] = calls[d] /\ ~(/\ calls[d] # NULL /\ calls[d].at = "on"
                                     /\ PageOf[calls[d].op] = page)
  BY <1>1 DEF Kept
<1>2. CASE /\ calls[d] # NULL /\ calls[d].at = "on" /\ PageOf[calls[d].op] = page
           /\ calls'[d] = [calls[d] EXCEPT !.at = "leaving"]
  <2> DEFINE x == [calls[d] EXCEPT !.at = "leaving"]
  <2>1. calls[d] \in Call
    BY <1>2
  <2>2. /\ x \in Call /\ x.op = calls[d].op /\ x.answer = calls[d].answer
        /\ x.at = "leaving" /\ x.seen = calls[d].seen /\ x.key = calls[d].key
    BY <2>1 DEF Call
  <2> HIDE DEF x
  <2>3. calls'[d] = x
    BY <1>2 DEF x
  <2>4. IsDeletion(x) => x.key \in left'
    BY <2>2, <2>3, NotedBehind, NullIsNoCall
  <2>5. QED
    BY <1>2, <2>2, <2>3, <2>4, NullIsNoCall DEF Kept, IsDeletion
<1>3. QED
  BY <1>1, <1>2 DEF Left

-----------------------------------------------------------------------------
(* The queue of the connection *)

InDatabase(call) == call # NULL /\ call.op \in DatabaseOps

(* The requests of other calls than those in S stay as they are.           *)
RequestsKept(S) ==
    \A d \in CallIds \ S :
       /\ InDatabase(calls'[d]) <=> InDatabase(calls[d])
       /\ InDatabase(calls[d]) => calls'[d].answer = calls[d].answer

LEMMA KeptRequests ==
    ASSUME NEW S, OthersKept(S)
    PROVE  RequestsKept(S)
BY DEF OthersKept, Kept, RequestsKept, InDatabase

LEMMA QueueFacts ==
    ASSUME QueueOK
    PROVE  /\ queue \in Seq(CallIds) /\ Len(queue) \in Nat
           /\ DOMAIN queue = 1 .. Len(queue)
           /\ \A n \in DOMAIN queue :
                 queue[n] \in CallIds /\ InDatabase(calls[queue[n]])
           /\ \A c \in CallIds :
                 InDatabase(calls[c]) => \E n \in DOMAIN queue : queue[n] = c
BY DEF QueueOK, InDatabase, Outstanding

(* No request is sent or received.                                         *)
LEMMA QueueSame ==
    ASSUME QueueOK, UNCHANGED queue, NEW S \in SUBSET CallIds, OthersKept(S),
           \A c \in S : ~InDatabase(calls[c]) /\ ~InDatabase(calls'[c])
    PROVE  QueueOK' /\ OrderKept({})
<1>1. RequestsKept({})
  BY KeptRequests DEF RequestsKept
<1>2. \A n \in DOMAIN queue :
         /\ InDatabase(calls'[queue[n]])
         /\ calls'[queue[n]].answer = calls[queue[n]].answer
  BY <1>1, QueueFacts DEF RequestsKept
<1>3. \A c \in Outstanding' :
         calls'[c].op \in DatabaseOps => \E n \in DOMAIN queue : queue[n] = c
  BY <1>1, QueueFacts DEF RequestsKept, InDatabase, Outstanding
<1>4. QueueOK'
  BY <1>2, <1>3 DEF QueueOK, InDatabase
<1>5. QED
  BY <1>4 DEF OrderKept, Before

(* The database answers the oldest request without an answer.              *)
LEMMA QueueServed ==
    ASSUME QueueOK, UNCHANGED queue, NEW c \in CallIds, OthersKept({c}),
           InDatabase(calls[c]), ItsTurn(c), InDatabase(calls'[c]),
           calls'[c].answer # "pending"
    PROVE  QueueOK' /\ OrderKept({})
<1>1. RequestsKept({c})
  BY KeptRequests
<1>2. \A n \in DOMAIN queue : InDatabase(calls'[queue[n]])
  BY <1>1, QueueFacts DEF RequestsKept
<1>3. \A d \in Outstanding' :
         calls'[d].op \in DatabaseOps => \E n \in DOMAIN queue : queue[n] = d
  BY <1>1, QueueFacts DEF RequestsKept, InDatabase, Outstanding
<1>4. ASSUME NEW m \in DOMAIN queue, NEW n \in DOMAIN queue, m < n,
             calls'[queue[m]].answer = "pending"
      PROVE  calls'[queue[n]].answer = "pending"
  <2>1. queue[m] # c
    BY <1>4
  <2>2. calls[queue[m]].answer = "pending"
    BY <1>1, <1>4, <2>1, QueueFacts DEF RequestsKept
  <2>3. PICK k \in DOMAIN queue :
           queue[k] = c /\ \A i \in 1 .. k - 1 : calls[queue[i]].answer # "pending"
    BY DEF ItsTurn
  <2>4. ~(m < k)
    BY <2>2, <2>3, QueueFacts
  <2>5. queue[n] # c
    BY <1>4, <2>1, <2>3, <2>4, QueueFacts DEF QueueOK
  <2>6. calls[queue[n]].answer = "pending"
    BY <1>4, <2>2 DEF QueueOK
  <2>7. QED
    BY <1>1, <2>5, <2>6, QueueFacts DEF RequestsKept
<1>5. QueueOK'
  BY <1>2, <1>3, <1>4 DEF QueueOK, InDatabase
<1>6. QED
  BY <1>5 DEF OrderKept, Before

(* A request is sent.                                                      *)
LEMMA QueueSent ==
    ASSUME QueueOK, NEW c \in CallIds, Sent(c), OthersKept({c}),
           ~InDatabase(calls[c]), InDatabase(calls'[c]),
           calls'[c].answer = "pending"
    PROVE  QueueOK' /\ OrderKept({c})
<1>1. RequestsKept({c})
  BY KeptRequests
<1>2. /\ queue' \in Seq(CallIds) /\ Len(queue') = Len(queue) + 1
      /\ queue'[Len(queue) + 1] = c
      /\ \A n \in 1 .. Len(queue) : queue'[n] = queue[n]
      /\ DOMAIN queue' = 1 .. Len(queue) + 1
  BY QueueFacts DEF Sent
<1>3. \A n \in DOMAIN queue : queue[n] # c
  BY QueueFacts
<1>4. \A n \in DOMAIN queue' :
         \/ n = Len(queue) + 1
         \/ n \in DOMAIN queue /\ queue'[n] = queue[n] /\ n < Len(queue) + 1
  BY <1>2, QueueFacts
<1>5. \A m, n \in DOMAIN queue' : queue'[m] = queue'[n] => m = n
  BY <1>2, <1>3, <1>4 DEF QueueOK
<1>6. \A n \in DOMAIN queue' : InDatabase(calls'[queue'[n]])
  BY <1>1, <1>2, <1>3, <1>4, QueueFacts DEF RequestsKept
<1>7. ASSUME NEW d \in Outstanding', calls'[d].op \in DatabaseOps
      PROVE  \E n \in DOMAIN queue' : queue'[n] = d
  <2>1. CASE d = c
    BY <1>2, <2>1, QueueFacts
  <2>2. CASE d # c
    <3>1. InDatabase(calls[d])
      BY <1>1, <1>7, <2>2 DEF RequestsKept, InDatabase, Outstanding
    <3>2. PICK n \in DOMAIN queue : queue[n] = d
      BY <3>1, QueueFacts DEF Outstanding
    <3>3. QED
      BY <1>2, <3>2, QueueFacts
  <2>3. QED
    BY <2>1, <2>2
<1>8. ASSUME NEW m \in DOMAIN queue', NEW n \in DOMAIN queue', m < n,
             calls'[queue'[m]].answer = "pending"
      PROVE  calls'[queue'[n]].answer = "pending"
  <2>1. CASE n = Len(queue) + 1
    BY <1>2, <2>1
  <2>2. CASE n \in DOMAIN queue /\ queue'[n] = queue[n]
    <3>1. m \in DOMAIN queue /\ queue'[m] = queue[m]
      BY <1>2, <1>4, <1>8, <2>2, QueueFacts
    <3>2. calls[queue[m]].answer = "pending"
      BY <1>1, <1>3, <1>8, <3>1, QueueFacts DEF RequestsKept
    <3>3. calls[queue[n]].answer = "pending"
      BY <1>8, <2>2, <3>1, <3>2 DEF QueueOK
    <3>4. QED
      BY <1>1, <1>3, <2>2, <3>3, QueueFacts DEF RequestsKept
  <2>3. QED
    BY <1>4, <2>1, <2>2
<1>9. QueueOK'
  BY <1>2, <1>5, <1>6, <1>7, <1>8 DEF QueueOK, InDatabase
<1>10. \A n \in DOMAIN queue : n \in DOMAIN queue' /\ queue'[n] = queue[n]
  BY <1>2, QueueFacts
<1>11. QED
  BY <1>9, <1>10 DEF OrderKept, Before

(* The oldest request has its answer.                                      *)
LEMMA Oldest ==
    ASSUME QueueOK, NEW c \in CallIds, InDatabase(calls[c]),
           \A n \in DOMAIN queue : queue[n] = c => n = 1
    PROVE  1 \in DOMAIN queue /\ queue[1] = c
BY QueueFacts

(* The answer to it is received.                                           *)
LEMMA QueueReceived ==
    ASSUME QueueOK, NEW c \in CallIds, Received, OthersKept({c}),
           InDatabase(calls[c]), \A n \in DOMAIN queue : queue[n] = c => n = 1,
           ~InDatabase(calls'[c])
    PROVE  QueueOK' /\ OrderKept({c})
<1>1. RequestsKept({c})
  BY KeptRequests
<1>2. 1 \in DOMAIN queue /\ queue[1] = c
  BY Oldest
<1>3. /\ queue' \in Seq(CallIds)
      /\ DOMAIN queue' = 1 .. Len(queue) - 1
      /\ \A n \in 1 .. Len(queue) - 1 : queue'[n] = queue[n + 1]
  BY <1>2, QueueFacts DEF Received
<1>4. \A n \in DOMAIN queue' :
         /\ n \in Nat /\ n + 1 \in DOMAIN queue
         /\ queue'[n] = queue[n + 1] /\ queue[n + 1] # c
  BY <1>3, QueueFacts
<1>5. \A m, n \in DOMAIN queue' : queue'[m] = queue'[n] => m = n
  BY <1>4 DEF QueueOK
<1>6. \A n \in DOMAIN queue' : InDatabase(calls'[queue'[n]])
  BY <1>1, <1>4, QueueFacts DEF RequestsKept
<1>7. ASSUME NEW n \in DOMAIN queue, queue[n] # c
      PROVE  n - 1 \in DOMAIN queue' /\ queue'[n - 1] = queue[n] /\ n \in Nat
  BY <1>2, <1>3, <1>7, QueueFacts
<1>8. ASSUME NEW d \in Outstanding', calls'[d].op \in DatabaseOps
      PROVE  \E n \in DOMAIN queue' : queue'[n] = d
  <2>1. d # c /\ d \in CallIds
    BY <1>8 DEF InDatabase, Outstanding
  <2>2. InDatabase(calls[d])
    BY <1>1, <1>8, <2>1 DEF RequestsKept, InDatabase, Outstanding
  <2>3. PICK n \in DOMAIN queue : queue[n] = d
    BY <2>1, <2>2, QueueFacts
  <2>4. QED
    BY <1>7, <2>1, <2>3
<1>9. ASSUME NEW m \in DOMAIN queue', NEW n \in DOMAIN queue', m < n,
             calls'[queue'[m]].answer = "pending"
      PROVE  calls'[queue'[n]].answer = "pending"
  <2>1. calls[queue[m + 1]].answer = "pending"
    BY <1>1, <1>4, <1>9, QueueFacts DEF RequestsKept
  <2>2. m + 1 < n + 1
    BY <1>4, <1>9
  <2>3. calls[queue[n + 1]].answer = "pending"
    BY <1>4, <2>1, <2>2 DEF QueueOK
  <2>4. QED
    BY <1>1, <1>4, <2>3, QueueFacts DEF RequestsKept
<1>10. QueueOK'
  BY <1>3, <1>5, <1>6, <1>8, <1>9 DEF QueueOK, InDatabase
<1>11. ASSUME NEW a \in CallIds \ {c}, NEW b \in CallIds \ {c}, Before(a, b)
       PROVE  Before(a, b)'
  <2>1. PICK m, n \in DOMAIN queue : m < n /\ queue[m] = a /\ queue[n] = b
    BY <1>11 DEF Before
  <2>2. /\ m - 1 \in DOMAIN queue' /\ queue'[m - 1] = a
        /\ n - 1 \in DOMAIN queue' /\ queue'[n - 1] = b
        /\ m - 1 < n - 1
    BY <1>7, <2>1
  <2>3. QED
    BY <2>2 DEF Before
<1>12. QED
  BY <1>10, <1>11 DEF OrderKept

-----------------------------------------------------------------------------
(* Steps that remove no entry and read nothing *)

(* The page follows its deletions.                                         *)
PageFollows ==
    /\ deleting' \in BOOLEAN /\ (deleting' => Top' = "Photos")
    /\ \A d \in CallIds :
          calls'[d] # NULL /\ IsDeletion(calls'[d]) /\ calls'[d].at = "on" =>
             deleting'

(* The list stays, or is cleared: by a deletion in S that resumes.         *)
ListFollows(S) ==
    \/ list' = {}
    \/ list' \subseteq list /\ \A c \in S : \A k : ~Clears(c, k)

(* No read is answered before such a deletion.                             *)
NoneWaits(S) ==
    \A a \in CallIds \ S : \A c \in S : \A k : ~(Removed(c, k) /\ Before(a, c))

(* The call c has removed no entry that is shown or was read before.       *)
Settled(c) ==
    \A k : ~Clears(c, k) /\ \A a : ~(Removed(c, k) /\ Before(a, c))

LEMMA ReadsKept ==
    ASSUME ReadsOK, NEW S \in SUBSET CallIds, OthersKept(S), \A c \in S : Fresh(c)
    PROVE  ReadsOK'
<1> SUFFICES ASSUME NEW c \in Outstanding', calls'[c].seen # {}
             PROVE  calls'[c].op = "loadOnce" /\ calls'[c].answer = "ok"
  BY DEF ReadsOK
<1>1. CASE c \in S
  BY <1>1 DEF Fresh, Outstanding
<1>2. CASE c \notin S
  BY <1>2 DEF OthersKept, Kept, ReadsOK, Outstanding
<1>3. QED
  BY <1>1, <1>2

LEMMA DeletionsKept ==
    ASSUME DeletionsOK, NEW S \in SUBSET CallIds, OthersKept(S),
           \A c \in S : NoNewDeletion(c), LeftFollows, PageFollows
    PROVE  DeletionsOK'
<1>1. ASSUME NEW c \in Outstanding', IsDeletion(calls'[c])
      PROVE  /\ c \in Outstanding /\ IsDeletion(calls[c])
             /\ calls'[c].key = calls[c].key
             /\ calls'[c].at = "on" => calls[c].at = "on"
             /\ calls[c].at = "on" /\ calls'[c].at # "on" => calls[c].key \in left'
  <2>1. c \in CallIds /\ calls'[c] # NULL
    BY DEF Outstanding
  <2>2. CASE c \in S
    BY <1>1, <2>1, <2>2 DEF NoNewDeletion, Outstanding
  <2>3. CASE c \notin S
    BY <1>1, <2>1, <2>3 DEF OthersKept, Kept, IsDeletion, Outstanding
  <2>4. QED
    BY <2>2, <2>3
<1>2. ASSUME NEW c \in Outstanding', IsDeletion(calls'[c])
      PROVE  IF calls'[c].at = "on" THEN deleting' ELSE calls'[c].key \in left'
  <2>1. CASE left \subseteq left'
    BY <1>1, <1>2, <2>1 DEF DeletionsOK, PageFollows, Outstanding
  <2>2. CASE left' = LeftBehind(calls')
    BY <1>2, <2>2, NotedBehind DEF PageFollows, Outstanding
  <2>3. QED
    BY <2>1, <2>2 DEF LeftFollows
<1>3. \A c, d \in Outstanding' :
         /\ IsDeletion(calls'[c]) /\ calls'[c].at = "on"
         /\ IsDeletion(calls'[d]) /\ calls'[d].at = "on"
         => c = d
  BY <1>1 DEF DeletionsOK
<1>4. QED
  BY <1>2, <1>3 DEF DeletionsOK, PageFollows, IsDeletion

(* A deletion that will clear the list does so after the step as well, if  *)
(* its page was not left.                                                  *)
LEMMA StillClears ==
    ASSUME NEW S, OthersKept(S), NEW d \in CallIds \ S, NEW k, Clears(d, k)
    PROVE  k \in left' \/ Clears(d, k)'
BY DEF OthersKept, Kept, Clears, Removed, IsDeletion

LEMMA StillRemoved ==
    ASSUME NEW S, OthersKept(S), NEW d \in CallIds \ S, NEW k, Removed(d, k)
    PROVE  Removed(d, k)'
BY DEF OthersKept, Kept, Removed

(* The photos that were deleted before the step, in the list.              *)
LEMMA ListStays ==
    ASSUME GhostsCleared, NEW S \in SUBSET CallIds, OthersKept(S),
           LeftFollows, ListFollows(S), NEW e \in list' \ entries
    PROVE  e[2] \in left' \/ \E d \in CallIds : Clears(d, e[2])'
<1>1. /\ e \in list \ entries /\ \A c \in S : ~Clears(c, e[2])
      /\ left \subseteq left'
  BY DEF ListFollows, LeftFollows
<1>2. CASE e[2] \in left
  BY <1>1, <1>2
<1>3. CASE \E d \in CallIds : Clears(d, e[2])
  <2>1. PICK d \in CallIds \ S : Clears(d, e[2])
    BY <1>1, <1>3
  <2>2. QED
    BY <2>1, StillClears
<1>4. QED
  BY <1>1, <1>2, <1>3 DEF GhostsCleared

(* And in what a call has read.                                            *)
LEMMA SeenStays ==
    ASSUME GhostsCleared, NEW S \in SUBSET CallIds, OthersKept(S),
           OrderKept(S), NoneWaits(S),
           NEW c \in Outstanding' \ S, NEW e \in calls'[c].seen \ entries
    PROVE  \E d \in CallIds : Removed(d, e[2])' /\ Before(c, d)'
<1>1. c \in CallIds \ S /\ calls'[c] # NULL
  BY DEF Outstanding
<1>2. c \in Outstanding /\ e \in calls[c].seen \ entries
  BY <1>1 DEF OthersKept, Kept, Outstanding
<1>3. PICK d \in CallIds : Removed(d, e[2]) /\ Before(c, d)
  BY <1>2 DEF GhostsCleared
<1>4. d \notin S
  BY <1>1, <1>3 DEF NoneWaits
<1>5. QED
  BY <1>1, <1>3, <1>4, StillRemoved DEF OrderKept

LEMMA GhostsKept ==
    ASSUME GhostsCleared, NEW S \in SUBSET CallIds, OthersKept(S),
           \A c \in S : Fresh(c), LeftFollows, entries \subseteq entries',
           OrderKept(S), ListFollows(S), NoneWaits(S)
    PROVE  GhostsCleared'
<1>1. \A c \in Outstanding' : \A e \in calls'[c].seen \ entries' : c \notin S
  BY DEF Fresh, Outstanding
<1>2. QED
  BY <1>1, ListStays, SeenStays DEF GhostsCleared

(* What has to be kept besides the types.                                  *)
Orderly == QueueOK /\ DeletionsOK /\ ReadsOK /\ GhostsCleared

LEMMA StepKeeps ==
    ASSUME Orderly, QueueOK', NEW S \in SUBSET CallIds, OthersKept(S),
           \A c \in S : Fresh(c) /\ NoNewDeletion(c),
           LeftFollows, entries \subseteq entries',
           OrderKept(S), PageFollows, ListFollows(S), NoneWaits(S)
    PROVE  Orderly'
BY ReadsKept, DeletionsKept, GhostsKept DEF Orderly

(* A step that leaves the page with the list alone.                        *)
LEMMA PageSame ==
    ASSUME DeletionsOK, UNCHANGED <<stack, deleting>>,
           NEW S \in SUBSET CallIds, OthersKept(S), \A c \in S : NoNewDeletion(c)
    PROVE  PageFollows
<1>1. ASSUME NEW d \in CallIds, calls'[d] # NULL, IsDeletion(calls'[d]),
             calls'[d].at = "on"
      PROVE  d \in Outstanding /\ IsDeletion(calls[d]) /\ calls[d].at = "on"
  BY <1>1 DEF OthersKept, Kept, NoNewDeletion, IsDeletion, Outstanding
<1>2. QED
  BY <1>1 DEF DeletionsOK, PageFollows, Top

(* The call c ends or goes on, and no other step is part of it.            *)
LEMMA CallStep ==
    ASSUME Orderly, QueueOK', NEW c \in CallIds, OthersKept({c}), OrderKept({c}),
           Fresh(c), NoNewDeletion(c), entries \subseteq entries',
           UNCHANGED <<stack, list, deleting, left>>, Settled(c)
    PROVE  Orderly'
<1>1. PageFollows
  BY PageSame DEF Orderly
<1>2. ListFollows({c}) /\ NoneWaits({c}) /\ LeftFollows
  BY DEF ListFollows, NoneWaits, LeftFollows, Settled
<1>3. QED
  BY <1>1, <1>2, StepKeeps

(* No call ends or goes on.                                                *)
LEMMA ViewStepKeeps ==
    ASSUME Orderly, QueueOK', OthersKept({}), OrderKept({}),
           LeftFollows, UNCHANGED entries,
           list' = {} \/ list' = list, PageFollows
    PROVE  Orderly'
<1>1. ListFollows({}) /\ NoneWaits({})
  BY DEF ListFollows, NoneWaits
<1>2. QED
  BY <1>1, StepKeeps

-----------------------------------------------------------------------------
(* The service *)

(* A call that goes on has read nothing, and is the same deletion if it is *)
(* one.                                                                    *)
LEMMA GoesFacts ==
    ASSUME ReadsOK, NEW c \in CallIds, calls[c] # NULL,
           calls[c].op # "loadOnce" \/ calls[c].answer # "ok",
           NEW op, NEW answer, Goes(c, op, answer)
    PROVE  /\ Fresh(c) /\ OthersKept({c})
           /\ (op \in {"delUser", "delFile", "delEntry"} => IsDeletion(calls[c]))
                 => NoNewDeletion(c)
BY DEF Goes, ReadsOK, Outstanding, Fresh, NoNewDeletion, IsDeletion

LEMMA FewerExcluded ==
    ASSUME NEW S, OrderKept({})
    PROVE  OrderKept(S)
BY DEF OrderKept

(* The other services answer.                                              *)
LEMMA ServedOutside ==
    ASSUME Orderly, NEW c \in CallIds, calls[c] # NULL,
           calls[c].op \notin DatabaseOps, calls[c].answer = "pending",
           NEW answer, Goes(c, calls[c].op, answer),
           UNCHANGED <<entries, view, queue, left>>
    PROVE  Orderly'
<1>1. Fresh(c) /\ OthersKept({c}) /\ NoNewDeletion(c)
  BY GoesFacts DEF Orderly, IsDeletion
<1>2. ~InDatabase(calls[c]) /\ ~InDatabase(calls'[c])
  BY DEF InDatabase, Goes
<1>3. QueueOK' /\ OrderKept({})
  BY <1>1, <1>2, QueueSame DEF Orderly
<1>4. Settled(c)
  BY DEF Settled, Clears, Removed
<1>5. QED
  BY <1>1, <1>3, <1>4, CallStep, FewerExcluded DEF view

LEMMA ServeCurrentUserOrderly ==
    ASSUME TypeOK, Orderly, NEW c \in CallIds, ServeCurrentUser(c),
           UNCHANGED <<view, queue, left>>
    PROVE  Orderly'
<1>1. /\ calls[c] # NULL /\ calls[c].op \in {"loadUser", "delUser", "addUser"}
      /\ calls[c].answer = "pending" /\ UNCHANGED entries
  BY DEF ServeCurrentUser, Pending, services
<1> DEFINE x == [calls[c] EXCEPT !.answer = "ok", !.user = session]
<1>2. calls[c] \in Call
  BY <1>1 DEF TypeOK, CallsOK
<1>3. /\ x \in Call /\ x.op = calls[c].op /\ x.answer = "ok" /\ x.at = calls[c].at
      /\ x.seen = calls[c].seen /\ x.key = calls[c].key
  BY <1>2 DEF Call, TypeOK, ServicesOK
<1>4. calls' = [calls EXCEPT ![c] = x]
  BY DEF ServeCurrentUser, TypeOK, CallsOK
<1> HIDE DEF x
<1>5. Goes(c, calls[c].op, "ok")
  BY <1>3, <1>4, OneCall, NullIsNoCall DEF Goes, TypeOK
<1>6. calls[c].op \notin DatabaseOps
  BY <1>1 DEF DatabaseOps
<1>7. QED
  BY <1>1, <1>5, <1>6, ServedOutside

LEMMA ServeFilesOrderly ==
    ASSUME CallsOK, Orderly, NEW c \in CallIds,
           ServeDelete(c) \/ ServePutFile(c) \/ ServeGetDownloadURL(c),
           UNCHANGED <<view, queue, left>>
    PROVE  Orderly'
<1>1. /\ calls[c] # NULL /\ calls[c].op \in {"delFile", "addFile", "addUrl"}
      /\ calls[c].answer = "pending" /\ UNCHANGED entries
      /\ \E answer \in {"ok", "error"} : Reply(c, answer)
  BY DEF ServeDelete, ServePutFile, ServeGetDownloadURL, Pending, services
<1>2. PICK answer \in {"ok", "error"} : Goes(c, calls[c].op, answer)
  BY <1>1, ReplyGoes
<1>3. calls[c].op \notin DatabaseOps
  BY <1>1 DEF DatabaseOps
<1>4. QED
  BY <1>1, <1>2, <1>3, ServedOutside

(* The database gives an answer that neither reads nor removes anything.   *)
LEMMA ServedInside ==
    ASSUME CallsOK, Orderly, NEW c \in CallIds, InDatabase(calls[c]),
           calls[c].answer = "pending", ItsTurn(c),
           NEW answer \in {"ok", "error"}, Reply(c, answer),
           entries \subseteq entries', UNCHANGED <<view, queue, left>>
    PROVE  Orderly'
<1>1. calls[c] # NULL /\ Goes(c, calls[c].op, answer)
  BY ReplyGoes DEF InDatabase
<1>2. Fresh(c) /\ OthersKept({c}) /\ NoNewDeletion(c)
  BY <1>1, GoesFacts DEF Orderly, IsDeletion
<1>3. InDatabase(calls'[c]) /\ calls'[c].answer # "pending"
  BY <1>1 DEF InDatabase, Goes
<1>4. QueueOK' /\ OrderKept({})
  BY <1>2, <1>3, QueueServed DEF Orderly
<1>5. Settled(c)
  BY DEF Settled, Clears, Removed
<1>6. QED
  BY <1>2, <1>4, <1>5, CallStep, FewerExcluded DEF view

LEMMA ServeSendOrderly ==
    ASSUME CallsOK, Orderly, NEW c \in CallIds, ServeSend(c),
           UNCHANGED <<view, queue, left>>
    PROVE  Orderly'
<1>1. /\ InDatabase(calls[c]) /\ calls[c].answer = "pending" /\ ItsTurn(c)
      /\ entries \subseteq entries'
      /\ \E answer \in {"ok", "error"} : Reply(c, answer)
  BY DEF ServeSend, Pending, InDatabase, DatabaseOps
<1>2. QED
  BY <1>1, ServedInside

(* once() reads what is in the database.                                   *)
LEMMA ServeOnceOrderly ==
    ASSUME TypeOK, Orderly, NEW c \in CallIds, ServeOnce(c),
           UNCHANGED <<view, queue, left>>
    PROVE  Orderly'
<1>1. /\ calls[c] # NULL /\ calls[c].op = "loadOnce" /\ InDatabase(calls[c])
      /\ calls[c].answer = "pending" /\ ItsTurn(c) /\ UNCHANGED entries
  BY DEF ServeOnce, Pending, InDatabase, DatabaseOps, services
<1>2. CASE Reply(c, "error")
  BY <1>1, <1>2, ServedInside DEF TypeOK
<1>3. CASE calls' = [calls EXCEPT ![c].answer = "ok",
                        ![c].seen = {e \in entries : e[1] = calls[c].user}]
  <2> DEFINE read == {e \in entries : e[1] = calls[c].user}
             x == [calls[c] EXCEPT !.answer = "ok", !.seen = read]
  <2>1. calls[c] \in Call /\ read \in SUBSET Items /\ read \subseteq entries
    BY <1>1 DEF TypeOK, CallsOK, ServicesOK
  <2>2. calls' = [calls EXCEPT ![c] = x]
    BY <1>3 DEF TypeOK, CallsOK
  <2> HIDE DEF read
  <2>3. /\ x \in Call /\ x.op = calls[c].op /\ x.answer = "ok"
        /\ x.at = calls[c].at /\ x.seen = read
    BY <2>1 DEF Call
  <2> HIDE DEF x
  <2>4. calls'[c] = x /\ x # NULL /\ OthersKept({c})
    BY <2>2, <2>3, OneCall, NullIsNoCall DEF TypeOK
  <2>5. Fresh(c) /\ NoNewDeletion(c)
    BY <1>1, <2>1, <2>3, <2>4 DEF Fresh, NoNewDeletion, IsDeletion
  <2>6. InDatabase(calls'[c]) /\ calls'[c].answer # "pending"
    BY <1>1, <2>3, <2>4 DEF InDatabase, DatabaseOps
  <2>7. QueueOK' /\ OrderKept({})
    BY <1>1, <2>4, <2>6, QueueServed DEF Orderly
  <2>8. Settled(c)
    BY <1>1 DEF Settled, Clears, Removed
  <2>9. QED
    BY <1>1, <2>4, <2>5, <2>7, <2>8, CallStep, FewerExcluded DEF view
<1>4. QED
  BY <1>2, <1>3 DEF ServeOnce

(* The database answers what was asked before an open request before it.   *)
LEMMA AnsweredFirst ==
    ASSUME QueueOK, NEW a \in CallIds, InDatabase(calls[a]),
           calls[a].answer # "pending", NEW c \in CallIds, InDatabase(calls[c]),
           calls[c].answer = "pending"
    PROVE  Before(a, c)
<1>1. PICK m \in DOMAIN queue : queue[m] = a
  BY QueueFacts
<1>2. PICK n \in DOMAIN queue : queue[n] = c
  BY QueueFacts
<1>3. m \in Nat /\ n \in Nat /\ m # n
  BY <1>1, <1>2, QueueFacts
<1>4. ~(n < m)
  BY <1>1, <1>2 DEF QueueOK
<1>5. QED
  BY <1>1, <1>2, <1>3, <1>4 DEF Before

(* The entry is removed: the deletion itself will clear the list, and it   *)
(* resumes after every read that has seen the entry.                       *)
LEMMA ServeRemoveOrderly ==
    ASSUME CallsOK, Orderly, NEW c \in CallIds, ServeRemove(c),
           UNCHANGED <<view, queue, left>>
    PROVE  Orderly'
<1>1. /\ calls[c] # NULL /\ calls[c].op = "delEntry" /\ InDatabase(calls[c])
      /\ calls[c].answer = "pending" /\ ItsTurn(c) /\ c \in Outstanding
  BY DEF ServeRemove, Pending, InDatabase, DatabaseOps, Outstanding
<1>2. CASE UNCHANGED entries /\ Reply(c, "error")
  BY <1>1, <1>2, ServedInside
<1>3. CASE entries' = entries \ {Item(calls[c])} /\ Reply(c, "ok")
  <2>1. Goes(c, "delEntry", "ok") /\ calls'[c].key = calls[c].key
    BY <1>1, <1>3, ReplyGoes
  <2>2. OthersKept({c}) /\ Fresh(c) /\ NoNewDeletion(c)
    BY <1>1, <2>1, GoesFacts DEF Orderly, IsDeletion
  <2>3. QueueOK' /\ OrderKept({}) /\ OrderKept({c})
    <3>1. InDatabase(calls'[c]) /\ calls'[c].answer # "pending"
      BY <2>1 DEF Goes, InDatabase, DatabaseOps
    <3>2. QED
      BY <1>1, <2>2, <3>1, QueueServed, FewerExcluded DEF Orderly
  <2>4. ReadsOK' /\ DeletionsOK'
    <3>1. PageFollows
      BY <2>2, PageSame DEF Orderly, view
    <3>2. QED
      BY <2>2, <3>1, ReadsKept, DeletionsKept DEF Orderly, LeftFollows
  <2>5. PICK k : k = calls[c].key
    OBVIOUS
  <2>6. Removed(c, k)' /\ (k \in left' \/ Clears(c, k)')
    <3>1. Removed(c, k)'
      BY <2>1, <2>5 DEF Removed, Goes
    <3>2. calls[c].at = "on" => Clears(c, k)'
      BY <2>1, <3>1 DEF Clears, Goes
    <3>3. calls[c].at # "on" => k \in left'
      BY <1>1, <2>5 DEF Orderly, DeletionsOK, IsDeletion
    <3>4. QED
      BY <3>1, <3>2, <3>3
  <2>7. \A e \in entries \ entries' : e[2] = k
    BY <1>3, <2>5 DEF Item
  <2>8. /\ \A e \in list' \ entries :
              e[2] \in left' \/ \E d \in CallIds : Clears(d, e[2])'
        /\ \A a \in Outstanding' \ {c} : \A e \in calls'[a].seen \ entries :
              \E d \in CallIds : Removed(d, e[2])' /\ Before(a, d)'
    <3>1. ListFollows({c}) /\ NoneWaits({c}) /\ LeftFollows
      BY <1>1 DEF ListFollows, NoneWaits, LeftFollows, Clears, Removed, view
    <3>2. QED
      BY <2>2, <2>3, <3>1, ListStays, SeenStays DEF Orderly
  <2>9. ASSUME NEW e \in list' \ entries'
        PROVE  e[2] \in left' \/ \E d \in CallIds : Clears(d, e[2])'
    <3>1. CASE e \in entries
      BY <2>6, <2>7, <2>9, <3>1
    <3>2. CASE e \notin entries
      BY <2>8, <2>9, <3>2
    <3>3. QED
      BY <3>1, <3>2
  <2>10. ASSUME NEW a \in Outstanding', NEW e \in calls'[a].seen \ entries'
         PROVE  \E d \in CallIds : Removed(d, e[2])' /\ Before(a, d)'
    <3>1. a # c
      BY <2>1, <2>4, <2>10 DEF Goes, ReadsOK
    <3>2. /\ a \in CallIds /\ calls[a] # NULL /\ calls[a].op = "loadOnce"
          /\ calls[a].answer = "ok"
      BY <2>2, <2>4, <2>10, <3>1 DEF OthersKept, Kept, ReadsOK, Outstanding
    <3>3. Before(a, c)'
      <4>1. Before(a, c)
        BY <1>1, <3>2, AnsweredFirst DEF Orderly, InDatabase, DatabaseOps
      <4>2. QED
        BY <2>3, <3>2, <4>1 DEF OrderKept
    <3>4. CASE e \in entries
      BY <2>6, <2>7, <2>10, <3>3, <3>4
    <3>5. CASE e \notin entries
      BY <2>8, <2>10, <3>1, <3>5
    <3>6. QED
      BY <3>4, <3>5
  <2>11. GhostsCleared'
    BY <2>9, <2>10 DEF GhostsCleared
  <2>12. QED
    BY <2>3, <2>4, <2>11 DEF Orderly
<1>4. QED
  BY <1>2, <1>3 DEF ServeRemove

LEMMA ServeOrderly ==
    ASSUME TypeOK, Orderly, NEW c \in CallIds, Serve(c)
    PROVE  Orderly'
<1>1. UNCHANGED <<view, queue, left>>
  BY DEF Serve
<1>2. QED
  BY <1>1, ServeCurrentUserOrderly, ServeFilesOrderly, ServeOnceOrderly,
     ServeRemoveOrderly, ServeSendOrderly DEF Serve, TypeOK

-----------------------------------------------------------------------------
(* The continuations *)

(* The call c is no request of the database, before or after the step, or  *)
(* it was one and its answer is received.                                  *)
RequestEnds(c) ==
    /\ ~InDatabase(calls'[c])
    /\ \/ UNCHANGED queue /\ ~InDatabase(calls[c])
       \/ /\ Received /\ InDatabase(calls[c])
          /\ \A n \in DOMAIN queue : queue[n] = c => n = 1

LEMMA QueueEnds ==
    ASSUME QueueOK, NEW c \in CallIds, OthersKept({c}), RequestEnds(c)
    PROVE  QueueOK' /\ OrderKept({c})
<1>1. CASE UNCHANGED queue /\ ~InDatabase(calls[c])
  BY <1>1, QueueSame, FewerExcluded DEF RequestEnds
<1>2. CASE Received /\ InDatabase(calls[c])
  BY <1>2, QueueReceived DEF RequestEnds
<1>3. QED
  BY <1>1, <1>2 DEF RequestEnds

LEMMA FinishedFacts ==
    ASSUME CallsOK, NEW c \in CallIds, calls' = Finished(c)
    PROVE  calls'[c] = NULL /\ OthersKept({c}) /\ Fresh(c) /\ NoNewDeletion(c)
BY OneCall DEF Finished, Fresh, NoNewDeletion

LEMMA EndsOrderly ==
    ASSUME CallsOK, Orderly, NEW c \in CallIds, Ends(c), RequestEnds(c),
           UNCHANGED <<entries, left>>, Settled(c)
    PROVE  Orderly'
<1>1. OthersKept({c}) /\ Fresh(c) /\ NoNewDeletion(c)
  BY FinishedFacts DEF Ends
<1>2. QueueOK' /\ OrderKept({c})
  BY <1>1, QueueEnds DEF Orderly
<1>3. QED
  BY <1>1, <1>2, CallStep DEF Ends, view

(* The next await is for the answer of another service.                    *)
LEMMA AwaitOutside ==
    ASSUME Orderly, NEW c \in CallIds, calls[c] # NULL,
           calls[c].op \notin DatabaseOps, NEW op, op \notin DatabaseOps,
           op \in {"delUser", "delFile", "delEntry"} => IsDeletion(calls[c]),
           Goes(c, op, "pending"), UNCHANGED <<entries, view, queue, left>>
    PROVE  Orderly'
<1>1. Fresh(c) /\ OthersKept({c}) /\ NoNewDeletion(c)
  BY GoesFacts DEF Orderly, DatabaseOps
<1>2. RequestEnds(c)
  BY DEF RequestEnds, InDatabase, Goes
<1>3. QueueOK' /\ OrderKept({c})
  BY <1>1, <1>2, QueueEnds DEF Orderly
<1>4. Settled(c)
  BY DEF Settled, Clears, Removed, DatabaseOps
<1>5. QED
  BY <1>1, <1>3, <1>4, CallStep DEF view

(* It is for the answer of the database.                                   *)
LEMMA AwaitInside ==
    ASSUME CallsOK, Orderly, NEW c \in CallIds, calls[c] # NULL,
           calls[c].op \notin DatabaseOps, NEW op \in DatabaseOps,
           op = "delEntry" => IsDeletion(calls[c]),
           calls' = Awaiting(c, op), Sent(c), UNCHANGED <<entries, view, left>>
    PROVE  Orderly'
<1>1. Goes(c, op, "pending")
  BY AwaitingGoes DEF DatabaseOps, Ops, PageOf
<1>2. Fresh(c) /\ OthersKept({c}) /\ NoNewDeletion(c)
  BY <1>1, GoesFacts DEF Orderly, DatabaseOps
<1>3. /\ ~InDatabase(calls[c]) /\ InDatabase(calls'[c])
      /\ calls'[c].answer = "pending"
  BY <1>1 DEF InDatabase, Goes
<1>4. QueueOK' /\ OrderKept({c})
  BY <1>2, <1>3, QueueSent DEF Orderly
<1>5. Settled(c)
  BY DEF Settled, Clears, Removed, DatabaseOps
<1>6. QED
  BY <1>2, <1>4, <1>5, CallStep DEF view

(* A continuation that no request of the database is part of ends.         *)
LEMMA EndsOutside ==
    ASSUME CallsOK, Orderly, NEW c \in CallIds, calls[c] # NULL,
           calls[c].op \notin DatabaseOps, Ends(c), UNCHANGED <<entries, queue, left>>
    PROVE  Orderly'
<1>1. RequestEnds(c)
  BY FinishedFacts DEF RequestEnds, InDatabase, Ends
<1>2. Settled(c)
  BY DEF Settled, Clears, Removed, DatabaseOps
<1>3. QED
  BY <1>1, <1>2, EndsOrderly

LEMMA LoadUserReturnsOrderly ==
    ASSUME CallsOK, Orderly, NEW c \in CallIds, LoadUserReturns(c)
    PROVE  Orderly'
<1>1. /\ calls[c] # NULL /\ calls[c].op = "loadUser"
      /\ calls[c].op \notin DatabaseOps /\ UNCHANGED <<entries, left>>
  BY DEF LoadUserReturns, Answered, services, DatabaseOps
<1>2. CASE Ends(c) /\ UNCHANGED queue
  BY <1>1, <1>2, EndsOutside
<1>3. CASE calls' = Awaiting(c, "loadOnce") /\ Sent(c) /\ UNCHANGED view
  BY <1>1, <1>3, AwaitInside DEF DatabaseOps
<1>4. QED
  BY <1>2, <1>3 DEF LoadUserReturns

LEMMA DelUserReturnsOrderly ==
    ASSUME CallsOK, Orderly, NEW c \in CallIds, DelUserReturns(c)
    PROVE  Orderly'
<1>1. /\ calls[c] # NULL /\ calls[c].op = "delUser" /\ IsDeletion(calls[c])
      /\ calls[c].op \notin DatabaseOps /\ UNCHANGED <<entries, queue, left>>
  BY DEF DelUserReturns, Answered, services, DatabaseOps, IsDeletion
<1>2. CASE Ends(c)
  BY <1>1, <1>2, EndsOutside
<1>3. CASE calls' = Awaiting(c, "delFile") /\ UNCHANGED view
  <2>1. Goes(c, "delFile", "pending")
    BY <1>1, <1>3, AwaitingGoes DEF Ops, PageOf
  <2>2. QED
    BY <1>1, <1>3, <2>1, AwaitOutside DEF DatabaseOps
<1>4. QED
  BY <1>2, <1>3 DEF DelUserReturns

LEMMA DelFileReturnsOrderly ==
    ASSUME CallsOK, Orderly, NEW c \in CallIds, DelFileReturns(c)
    PROVE  Orderly'
<1>1. /\ calls[c] # NULL /\ calls[c].op = "delFile" /\ IsDeletion(calls[c])
      /\ calls[c].op \notin DatabaseOps /\ UNCHANGED <<entries, left>>
  BY DEF DelFileReturns, Answered, services, DatabaseOps, IsDeletion
<1>2. CASE Ends(c) /\ UNCHANGED queue
  BY <1>1, <1>2, EndsOutside
<1>3. CASE calls' = Awaiting(c, "delEntry") /\ Sent(c) /\ UNCHANGED view
  BY <1>1, <1>3, AwaitInside DEF DatabaseOps
<1>4. QED
  BY <1>2, <1>3 DEF DelFileReturns

LEMMA AddUserReturnsOrderly ==
    ASSUME CallsOK, Orderly, NEW c \in CallIds, AddUserReturns(c)
    PROVE  Orderly'
<1>1. /\ calls[c] # NULL /\ calls[c].op = "addUser"
      /\ calls[c].op \notin DatabaseOps /\ UNCHANGED <<entries, queue, left>>
  BY DEF AddUserReturns, Answered, services, DatabaseOps
<1>2. CASE Ends(c)
  BY <1>1, <1>2, EndsOutside
<1>3. ASSUME NEW key \in Keys, UNCHANGED view,
             calls' = [Awaiting(c, "addFile") EXCEPT ![c].key = key]
      PROVE  Orderly'
  <2> DEFINE x == [calls[c] EXCEPT !.op = "addFile", !.answer = "pending",
                                   !.key = key]
  <2>1. calls[c] \in Call
    BY <1>1 DEF CallsOK
  <2>2. /\ x \in Call /\ x.op = "addFile" /\ x.answer = "pending"
        /\ x.at = calls[c].at /\ x.seen = calls[c].seen
    BY <2>1 DEF Call, Ops, PageOf
  <2>3. calls' = [calls EXCEPT ![c] = x]
    BY <1>3, <2>1 DEF Awaiting, CallsOK
  <2> HIDE DEF x
  <2>4. Goes(c, "addFile", "pending")
    BY <2>2, <2>3, OneCall, NullIsNoCall DEF Goes, IsDeletion
  <2>5. QED
    BY <1>1, <1>3, <2>4, AwaitOutside DEF DatabaseOps
<1>4. QED
  BY <1>2, <1>3 DEF AddUserReturns

LEMMA AddFileReturnsOrderly ==
    ASSUME CallsOK, Orderly, NEW c \in CallIds, AddFileReturns(c)
    PROVE  Orderly'
<1>1. /\ calls[c] # NULL /\ calls[c].op \notin DatabaseOps
      /\ calls' = Awaiting(c, "addUrl") /\ UNCHANGED <<entries, view, queue, left>>
  BY DEF AddFileReturns, Answered, services, DatabaseOps
<1>2. Goes(c, "addUrl", "pending")
  BY <1>1, AwaitingGoes DEF Ops, PageOf
<1>3. QED
  BY <1>1, <1>2, AwaitOutside DEF DatabaseOps

LEMMA AddUrlReturnsOrderly ==
    ASSUME CallsOK, Orderly, NEW c \in CallIds, AddUrlReturns(c)
    PROVE  Orderly'
<1>1. /\ calls[c] # NULL /\ calls[c].op \notin DatabaseOps
      /\ UNCHANGED <<entries, left>>
  BY DEF AddUrlReturns, Answered, services, DatabaseOps
<1>2. CASE Ends(c) /\ UNCHANGED queue
  BY <1>1, <1>2, EndsOutside
<1>3. CASE calls' = Awaiting(c, "addEntry") /\ Sent(c) /\ UNCHANGED view
  BY <1>1, <1>3, AwaitInside DEF DatabaseOps
<1>4. QED
  BY <1>2, <1>3 DEF AddUrlReturns

(* What was read is shown: the deletions of what has gone in the meantime  *)
(* are still to resume.                                                    *)
LEMMA LoadOnceReturnsOrderly ==
    ASSUME CallsOK, Orderly, NEW c \in CallIds, LoadOnceReturns(c)
    PROVE  Orderly'
<1>1. /\ calls[c] # NULL /\ calls[c].op = "loadOnce" /\ InDatabase(calls[c])
      /\ Received /\ \A n \in DOMAIN queue : queue[n] = c => n = 1
      /\ UNCHANGED <<entries, stack, deleting, left>>
  BY DEF LoadOnceReturns, Answered, InDatabase, DatabaseOps, services
<1>2. calls'[c] = NULL /\ OthersKept({c}) /\ Fresh(c) /\ NoNewDeletion(c)
  BY FinishedFacts DEF LoadOnceReturns
<1>3. QueueOK' /\ OrderKept({c})
  BY <1>1, <1>2, QueueReceived DEF Orderly, InDatabase
<1>4. Settled(c) /\ LeftFollows /\ \A k : ~Removed(c, k)
  BY <1>1 DEF Settled, Clears, Removed, LeftFollows
<1>5. CASE list' = list
  BY <1>1, <1>2, <1>3, <1>4, <1>5, CallStep
<1>6. CASE list' = calls[c].seen
  <2>1. PageFollows
    BY <1>1, <1>2, PageSame DEF Orderly
  <2>2. DeletionsOK' /\ ReadsOK'
    BY <1>1, <1>2, <1>4, <2>1, DeletionsKept, ReadsKept DEF Orderly
  <2>3. ASSUME NEW e \in list' \ entries'
        PROVE  e[2] \in left' \/ \E d \in CallIds : Clears(d, e[2])'
    <3>1. e \in calls[c].seen \ entries /\ c \in Outstanding
      BY <1>1, <1>6, <2>3 DEF Outstanding
    <3>2. PICK d \in CallIds \ {c} : Removed(d, e[2])
      BY <1>4, <3>1 DEF Orderly, GhostsCleared
    <3>3. CASE calls[d].at = "on"
      BY <1>2, <3>2, <3>3, StillClears DEF Clears
    <3>4. CASE calls[d].at # "on"
      BY <1>1, <3>2, <3>4 DEF Removed, Orderly, DeletionsOK, IsDeletion, Outstanding
    <3>5. QED
      BY <3>3, <3>4
  <2>4. ASSUME NEW a \in Outstanding', NEW e \in calls'[a].seen \ entries'
        PROVE  \E d \in CallIds : Removed(d, e[2])' /\ Before(a, d)'
    <3>1. a # c /\ e \notin entries
      BY <1>1, <1>2, <2>4 DEF Outstanding
    <3>2. NoneWaits({c})
      BY <1>4 DEF NoneWaits, Settled
    <3>3. QED
      BY <1>1, <1>2, <1>3, <2>4, <3>1, <3>2, SeenStays DEF Orderly
  <2>5. GhostsCleared'
    BY <2>3, <2>4 DEF GhostsCleared
  <2>6. QED
    BY <1>3, <2>2, <2>5 DEF Orderly
<1>7. QED
  BY <1>5, <1>6 DEF LoadOnceReturns

(* Nothing is before the oldest request.                                   *)
LEMMA NothingBefore ==
    ASSUME QueueOK, NEW c, \A n \in DOMAIN queue : queue[n] = c => n = 1
    PROVE  \A a : ~Before(a, c)
BY QueueFacts DEF Before

(* The deletion clears the list, and loads what is left.                   *)
LEMMA DelEntryReturnsOrderly ==
    ASSUME CallsOK, Orderly, NEW c \in CallIds, DelEntryReturns(c)
    PROVE  Orderly'
<1>1. /\ calls[c] # NULL /\ IsDeletion(calls[c]) /\ InDatabase(calls[c])
      /\ Received /\ \A n \in DOMAIN queue : queue[n] = c => n = 1
      /\ UNCHANGED entries /\ c \in Outstanding
  BY DEF DelEntryReturns, Answered, InDatabase, DatabaseOps, services, IsDeletion,
         Outstanding
<1>2. CASE Ends(c) /\ UNCHANGED left /\ ~(Succeeded(c) /\ calls[c].at = "on")
  <2>1. RequestEnds(c)
    BY <1>1, <1>2, FinishedFacts DEF RequestEnds, InDatabase, Ends
  <2>2. Settled(c)
    BY <1>1, <1>2, NothingBefore DEF Settled, Clears, Removed, Succeeded, Orderly
  <2>3. QED
    BY <1>1, <1>2, <2>1, <2>2, EndsOrderly
<1>3. CASE /\ updatePhotosList(calls, c) /\ UNCHANGED <<stack, chosen, sending>>
           /\ calls[c].at = "on"
  <2>1. /\ list' = {} /\ deleting' = FALSE /\ LeftFollows
        /\ calls' = [calls EXCEPT ![c] = NewCall("loadUser", NULL)]
    BY <1>3 DEF updatePhotosList, Cleared, LeftFollows
  <2>2. /\ calls'[c] # NULL /\ calls'[c].op = "loadUser" /\ calls'[c].seen = {}
        /\ OthersKept({c})
    BY <2>1, NewCallStep DEF Ops, PageOf
  <2>3. Fresh(c) /\ NoNewDeletion(c) /\ ~InDatabase(calls'[c])
    BY <2>2 DEF Fresh, NoNewDeletion, IsDeletion, InDatabase, DatabaseOps
  <2>4. QueueOK' /\ OrderKept({c})
    BY <1>1, <2>2, <2>3, QueueReceived DEF Orderly
  <2>5. PageFollows
    <3>1. ASSUME NEW d \in CallIds, calls'[d] # NULL, IsDeletion(calls'[d]),
                 calls'[d].at = "on"
          PROVE  FALSE
      <4>1. d # c
        BY <2>2, <3>1 DEF IsDeletion
      <4>2. d \in Outstanding /\ IsDeletion(calls[d]) /\ calls[d].at = "on"
        BY <2>2, <3>1, <4>1 DEF OthersKept, Kept, IsDeletion, Outstanding
      <4>3. QED
        BY <1>1, <1>3, <4>1, <4>2 DEF Orderly, DeletionsOK
    <3>2. QED
      BY <2>1, <3>1 DEF PageFollows
  <2>6. ListFollows({c}) /\ NoneWaits({c})
    BY <1>1, <2>1, NothingBefore DEF ListFollows, NoneWaits, Orderly
  <2>7. QED
    BY <1>1, <2>1, <2>2, <2>3, <2>4, <2>5, <2>6, StepKeeps
<1>4. QED
  BY <1>2, <1>3 DEF DelEntryReturns

-----------------------------------------------------------------------------
(* Navigation *)

(* Without a deletion, and without PhotosWorker on top, there is nothing   *)
(* to follow.                                                              *)
LEMMA NoDeletion ==
    ASSUME DeletionsOK, ~deleting \/ Top # "Photos", deleting' = FALSE,
           NEW S \in SUBSET CallIds, OthersKept(S), \A c \in S : NoNewDeletion(c)
    PROVE  PageFollows
<1>1. ASSUME NEW d \in CallIds, calls'[d] # NULL, IsDeletion(calls'[d]),
             calls'[d].at = "on"
      PROVE  d \in Outstanding /\ IsDeletion(calls[d]) /\ calls[d].at = "on"
  BY <1>1 DEF OthersKept, Kept, NoNewDeletion, IsDeletion, Outstanding
<1>2. QED
  BY <1>1 DEF DeletionsOK, PageFollows

LEMMA DeletionPage ==
    ASSUME NEW call, IsDeletion(call)
    PROVE  PageOf[call.op] = "Photos"
BY DEF IsDeletion, PageOf

LEMMA PopFacts ==
    ASSUME PagesOK, CallsOK, DeletionsOK, NEW d \in CallIds,
           NEW f \in [CallIds -> Call \cup {NULL}], f[d] = NULL,
           \A e \in CallIds \ {d} : f[e] = calls[e], pop(f, d)
    PROVE  /\ OthersKept({d}) /\ Fresh(d) /\ NoNewDeletion(d)
           /\ ~InDatabase(calls'[d])
           /\ LeftFollows /\ PageFollows /\ (list' = {} \/ list' = list)
<1>1. CASE Top = "Add"
  <2>1. /\ list' = {} /\ deleting' = FALSE /\ left' = LeftBehind(calls')
        /\ calls' = [Left(f, "Add") EXCEPT ![d] = NewCall("loadUser", NULL)]
    BY <1>1 DEF pop, updatePhotosList, Cleared
  <2>2. /\ calls'[d] = NewCall("loadUser", NULL)
        /\ \A e \in CallIds \ {d} : calls'[e] = Left(f, "Add")[e]
    BY <2>1 DEF Left
  <2>3. OthersKept({d})
    BY <2>1, <2>2, LeftKept DEF OthersKept
  <2>4. PICK x : x = NewCall("loadUser", NULL)
    OBVIOUS
  <2>5. x # NULL /\ x.op = "loadUser" /\ x.seen = {}
    BY <2>4, NewCallFacts DEF Ops, PageOf
  <2>6. Fresh(d) /\ NoNewDeletion(d) /\ ~InDatabase(calls'[d])
    BY <2>2, <2>4, <2>5 DEF Fresh, NoNewDeletion, IsDeletion, InDatabase, DatabaseOps
  <2>7. PageFollows
    BY <1>1, <2>1, <2>3, <2>6, NoDeletion
  <2>8. QED
    BY <2>1, <2>3, <2>6, <2>7 DEF LeftFollows
<1>2. CASE Top = "Dialog" \/ Top = "Other"
  <2>1. /\ list' = list /\ deleting' = deleting /\ left' = left /\ calls' = f
    BY <1>2 DEF pop, view
  <2>2. OthersKept({d}) /\ Fresh(d) /\ NoNewDeletion(d) /\ ~InDatabase(calls'[d])
    BY <2>1 DEF OthersKept, Kept, Fresh, NoNewDeletion, InDatabase
  <2>3. deleting' = FALSE
    BY <1>2, <2>1 DEF DeletionsOK
  <2>4. PageFollows
    BY <1>2, <2>2, <2>3, NoDeletion
  <2>5. QED
    BY <2>1, <2>2, <2>4 DEF LeftFollows
<1>3. CASE Top = "Photos"
  <2>1. /\ list' = {} /\ deleting' = FALSE /\ left' = LeftBehind(calls')
        /\ calls' = Left(f, "Photos")
    BY <1>3 DEF pop, Cleared
  <2>2. calls'[d] = NULL
    BY <2>1 DEF Left
  <2>3. \A e \in CallIds \ {d} :
           /\ Kept(e)
           /\ calls'[e] # NULL /\ calls'[e].at = "on" =>
                 PageOf[calls'[e].op] # "Photos"
    BY <2>1, LeftKept
  <2>4. OthersKept({d}) /\ Fresh(d) /\ NoNewDeletion(d) /\ ~InDatabase(calls'[d])
    BY <2>2, <2>3 DEF OthersKept, Fresh, NoNewDeletion, InDatabase
  <2>5. PageFollows
    BY <2>1, <2>2, <2>3, DeletionPage DEF PageFollows
  <2>6. QED
    BY <2>1, <2>4, <2>5 DEF LeftFollows
<1>4. QED
  BY <1>1, <1>2, <1>3, TopFacts

LEMMA PopOrderly ==
    ASSUME PagesOK, CallsOK, Orderly, NEW d \in CallIds,
           NEW f \in [CallIds -> Call \cup {NULL}], f[d] = NULL,
           \A e \in CallIds \ {d} : f[e] = calls[e], pop(f, d),
           ~InDatabase(calls'[d]) => RequestEnds(d),
           UNCHANGED entries, Settled(d)
    PROVE  Orderly'
<1>1. /\ OthersKept({d}) /\ Fresh(d) /\ NoNewDeletion(d) /\ ~InDatabase(calls'[d])
      /\ LeftFollows /\ PageFollows /\ (list' = {} \/ list' = list)
  BY PopFacts DEF Orderly
<1>2. QueueOK' /\ OrderKept({d})
  BY <1>1, QueueEnds DEF Orderly
<1>3. ListFollows({d}) /\ NoneWaits({d})
  BY <1>1 DEF ListFollows, NoneWaits, Settled
<1>4. QED
  BY <1>1, <1>2, <1>3, StepKeeps

LEMMA AddEntryReturnsOrderly ==
    ASSUME TypeOK, Orderly, NEW c \in CallIds, AddEntryReturns(c)
    PROVE  Orderly'
<1>1. /\ calls[c] # NULL /\ calls[c].op = "addEntry" /\ InDatabase(calls[c])
      /\ Received /\ \A n \in DOMAIN queue : queue[n] = c => n = 1
      /\ UNCHANGED entries
  BY DEF AddEntryReturns, Answered, InDatabase, DatabaseOps, services
<1>2. Settled(c)
  BY <1>1 DEF Settled, Clears, Removed
<1>3. ~InDatabase(calls'[c]) => RequestEnds(c)
  BY <1>1 DEF RequestEnds
<1>4. CASE Ends(c) /\ UNCHANGED left
  <2>1. ~InDatabase(calls'[c])
    BY <1>4, FinishedFacts DEF Ends, InDatabase, TypeOK
  <2>2. QED
    BY <1>1, <1>2, <1>3, <1>4, <2>1, EndsOrderly DEF TypeOK
<1>5. CASE pop(Finished(c), c)
  <2>1. /\ Finished(c) \in [CallIds -> Call \cup {NULL}] /\ Finished(c)[c] = NULL
        /\ \A e \in CallIds \ {c} : Finished(c)[e] = calls[e]
    BY DEF Finished, TypeOK, CallsOK
  <2>2. QED
    BY <1>1, <1>2, <1>3, <1>5, <2>1, PopOrderly DEF TypeOK
<1>6. QED
  BY <1>4, <1>5 DEF AddEntryReturns

LEMMA BackOrderly ==
    ASSUME TypeOK, Orderly, Back
    PROVE  Orderly'
<1>1. PICK d \in CallIds : IsFree(d) /\ pop(calls, d)
  BY DEF Back
<1>2. calls[d] = NULL /\ ~InDatabase(calls[d]) /\ Settled(d)
  BY <1>1 DEF IsFree, InDatabase, Settled, Clears, Removed
<1>3. UNCHANGED <<queue, entries>> /\ (~InDatabase(calls'[d]) => RequestEnds(d))
  BY <1>2 DEF Back, services, RequestEnds
<1>4. QED
  BY <1>1, <1>2, <1>3, PopOrderly DEF TypeOK, CallsOK

LEMMA MinhasFotosOrderly ==
    ASSUME CallsOK, Orderly, MinhasFotos
    PROVE  Orderly'
<1>1. PICK d \in CallIds : IsFree(d) /\ updatePhotosList(calls, d)
  BY DEF MinhasFotos
<1>2. /\ list' = {} /\ deleting' = FALSE
      /\ calls' = [calls EXCEPT ![d] = NewCall("loadUser", NULL)]
      /\ UNCHANGED <<entries, queue>> /\ Top # "Photos" /\ LeftFollows
  BY <1>1 DEF MinhasFotos, updatePhotosList, Cleared, LeftFollows, services
<1>3. /\ calls'[d] # NULL /\ calls'[d].op = "loadUser" /\ calls'[d].seen = {}
      /\ OthersKept({d})
  BY <1>2, NewCallStep DEF Ops, PageOf
<1>4. Fresh(d) /\ NoNewDeletion(d)
  BY <1>3 DEF Fresh, NoNewDeletion, IsDeletion
<1>5. RequestEnds(d)
  BY <1>1, <1>2, <1>3 DEF RequestEnds, InDatabase, DatabaseOps, IsFree
<1>6. QueueOK' /\ OrderKept({d})
  BY <1>3, <1>5, QueueEnds DEF Orderly
<1>7. PageFollows
  BY <1>2, <1>3, <1>4, NoDeletion DEF Orderly
<1>8. ListFollows({d}) /\ NoneWaits({d})
  BY <1>1, <1>2 DEF ListFollows, NoneWaits, Clears, Removed, IsFree
<1>9. QED
  BY <1>2, <1>3, <1>4, <1>6, <1>7, <1>8, StepKeeps

(* A dialog or AddPhoto is opened, only while nothing is being deleted.    *)
LEMMA OpenedOrderly ==
    ASSUME Orderly, AddTapped \/ \E e \in list : PhotoTapped(e)
    PROVE  Orderly'
<1>1. /\ ~deleting /\ UNCHANGED <<entries, list, deleting, calls, queue, left>>
  BY DEF AddTapped, PhotoTapped, services
<1>2. OthersKept({}) /\ deleting' = FALSE
  BY <1>1, SameCalls DEF Orderly, DeletionsOK
<1>3. PageFollows
  BY <1>1, <1>2, NoDeletion DEF Orderly
<1>4. QueueOK' /\ OrderKept({})
  BY <1>1, <1>2, QueueSame DEF Orderly
<1>5. QED
  BY <1>1, <1>2, <1>3, <1>4, ViewStepKeeps DEF LeftFollows

(* The dialog was opened while nothing was being deleted.                  *)
LEMMA ExcluirClickedOrderly ==
    ASSUME PagesOK, CallsOK, Orderly, ExcluirClicked
    PROVE  Orderly'
<1>1. /\ Top = "Dialog" /\ ~deleting /\ deleting' = TRUE
      /\ UNCHANGED <<entries, list, queue, left>>
  BY DEF ExcluirClicked, Orderly, DeletionsOK, services
<1>2. PICK key \in Keys : key = chosen[2]
  BY <1>1 DEF PagesOK, Items
<1>3. PICK d \in CallIds :
         IsFree(d) /\ calls' = [calls EXCEPT ![d] = NewCall("delUser", key)]
  BY <1>2 DEF ExcluirClicked
<1>4. /\ calls'[d] # NULL /\ calls'[d].op = "delUser" /\ calls'[d].at = "on"
      /\ calls'[d].seen = {} /\ OthersKept({d})
  BY <1>3, NewCallStep DEF Ops, PageOf
<1>5. Fresh(d)
  BY <1>4 DEF Fresh
<1>6. RequestEnds(d)
  BY <1>1, <1>3, <1>4 DEF RequestEnds, InDatabase, DatabaseOps, IsFree
<1>7. QueueOK' /\ OrderKept({d})
  BY <1>4, <1>6, QueueEnds DEF Orderly
<1>8. ListFollows({d}) /\ NoneWaits({d})
  BY <1>1, <1>3 DEF ListFollows, NoneWaits, Clears, Removed, IsFree
<1>9. ReadsOK' /\ GhostsCleared'
  BY <1>1, <1>4, <1>5, <1>7, <1>8, ReadsKept, GhostsKept DEF Orderly, LeftFollows
<1>10. Top' = "Photos"
  <2>1. stack' = <<"Other", "Photos">>
    BY <1>1, TopFacts DEF ExcluirClicked
  <2>2. QED
    BY <2>1 DEF Top
<1>11. ASSUME NEW c \in Outstanding', IsDeletion(calls'[c]), c # d
       PROVE  calls'[c].at # "on" /\ calls'[c].key \in left'
  <2>1. /\ c \in Outstanding /\ IsDeletion(calls[c]) /\ calls'[c].key = calls[c].key
        /\ calls'[c].at = "on" => calls[c].at = "on"
    BY <1>4, <1>11 DEF OthersKept, Kept, IsDeletion, Outstanding
  <2>2. QED
    BY <1>1, <2>1 DEF Orderly, DeletionsOK
<1>12. DeletionsOK'
  BY <1>1, <1>4, <1>10, <1>11 DEF DeletionsOK, IsDeletion
<1>13. QED
  BY <1>7, <1>9, <1>12 DEF Orderly

LEMMA EnviarClickedOrderly ==
    ASSUME CallsOK, Orderly, EnviarClicked
    PROVE  Orderly'
<1>1. UNCHANGED <<entries, stack, list, deleting, queue, left>>
  BY DEF EnviarClicked, services
<1>2. PICK d \in CallIds :
         IsFree(d) /\ calls' = [calls EXCEPT ![d] = NewCall("addUser", NULL)]
  BY DEF EnviarClicked
<1>3. /\ calls'[d] # NULL /\ calls'[d].op = "addUser" /\ calls'[d].seen = {}
      /\ OthersKept({d})
  BY <1>2, NewCallStep DEF Ops, PageOf
<1>4. Fresh(d) /\ NoNewDeletion(d)
  BY <1>3 DEF Fresh, NoNewDeletion, IsDeletion
<1>5. RequestEnds(d)
  BY <1>1, <1>2, <1>3 DEF RequestEnds, InDatabase, DatabaseOps, IsFree
<1>6. QueueOK' /\ OrderKept({d})
  BY <1>3, <1>5, QueueEnds DEF Orderly
<1>7. Settled(d)
  BY <1>2 DEF Settled, Clears, Removed, IsFree
<1>8. QED
  BY <1>1, <1>3, <1>4, <1>6, <1>7, CallStep

LEMMA DisposeOrderly ==
    ASSUME CallsOK, Orderly, Dispose
    PROVE  Orderly'
<1>1. UNCHANGED <<entries, stack, list, deleting, queue, left>>
  BY DEF Dispose, services, view
<1>2. ASSUME NEW d \in CallIds
      PROVE  Kept(d)
  <2>1. CASE calls'[d] = calls[d]
    BY <2>1 DEF Kept
  <2>2. CASE /\ calls[d] # NULL /\ calls[d].at = "leaving"
             /\ calls'[d] = [calls[d] EXCEPT !.at = "gone"]
    <3> DEFINE x == [calls[d] EXCEPT !.at = "gone"]
    <3>1. calls[d] \in Call
      BY <2>2 DEF CallsOK
    <3>2. /\ x \in Call /\ x.op = calls[d].op /\ x.answer = calls[d].answer
          /\ x.at = "gone" /\ x.seen = calls[d].seen /\ x.key = calls[d].key
      BY <3>1 DEF Call
    <3>3. calls'[d] = x
      BY <2>2
    <3> HIDE DEF x
    <3>4. QED
      BY <2>2, <3>2, <3>3, NullIsNoCall DEF Kept
  <2>3. QED
    BY <2>1, <2>2 DEF Dispose, Outstanding
<1>3. OthersKept({})
  BY <1>2 DEF OthersKept
<1>4. PageFollows
  BY <1>1, <1>3, PageSame DEF Orderly
<1>5. QueueOK' /\ OrderKept({})
  BY <1>1, <1>3, QueueSame DEF Orderly
<1>6. QED
  BY <1>1, <1>3, <1>4, <1>5, ViewStepKeeps DEF LeftFollows

(* Every page of the photos is left at once.                               *)
LEMMA LeftBoth ==
    ASSUME CallsOK, NEW d \in CallIds, calls[d] # NULL,
           calls' = Left(Left(calls, "Photos"), "Add"), left' = LeftBehind(calls')
    PROVE  Kept(d) /\ calls'[d] # NULL /\ calls'[d].at # "on"
<1>1. calls[d] \in Call /\ PageOf[calls[d].op] \in {"Photos", "Add"}
  BY DEF CallsOK, Call, Ops, PageOf
<1> DEFINE x == [calls[d] EXCEPT !.at = "leaving"]
<1>2. /\ x \in Call /\ x.op = calls[d].op /\ x.answer = calls[d].answer
      /\ x.at = "leaving" /\ x.seen = calls[d].seen /\ x.key = calls[d].key
  BY <1>1 DEF Call
<1> HIDE DEF x
<1>3. PICK g : g = Left(calls, "Photos")
  OBVIOUS
<1>4. g[d] = IF calls[d].at = "on" /\ PageOf[calls[d].op] = "Photos"
             THEN x ELSE calls[d]
  BY <1>3 DEF Left, x
<1>5. calls'[d] = IF g[d] # NULL /\ g[d].at = "on" /\ PageOf[g[d].op] = "Add"
                  THEN [g[d] EXCEPT !.at = "leaving"] ELSE g[d]
  BY <1>3 DEF Left
<1>6. calls'[d] = IF calls[d].at = "on" THEN x ELSE calls[d]
  BY <1>1, <1>2, <1>4, <1>5 DEF x
<1>7. calls'[d] # NULL /\ calls'[d].at # "on"
  BY <1>2, <1>6, NullIsNoCall
<1>8. IsDeletion(calls'[d]) => calls'[d].key \in left'
  BY <1>7, NotedBehind
<1>9. QED
  BY <1>2, <1>6, <1>7, <1>8 DEF Kept, IsDeletion

LEMMA ReplacedOrderly ==
    ASSUME CallsOK, Orderly, Replaced
    PROVE  Orderly'
<1>1. /\ list' = {} /\ deleting' = FALSE /\ left' = LeftBehind(calls')
      /\ calls' = Left(Left(calls, "Photos"), "Add")
      /\ UNCHANGED <<entries, queue>>
  BY DEF Replaced, NoPages, Cleared, services
<1>2. ASSUME NEW d \in CallIds
      PROVE  Kept(d) /\ (calls'[d] # NULL => calls'[d].at # "on")
  <2>1. CASE calls[d] = NULL
    BY <1>1, <2>1 DEF Left, Kept
  <2>2. CASE calls[d] # NULL
    BY <1>1, <2>2, LeftBoth
  <2>3. QED
    BY <2>1, <2>2
<1>3. OthersKept({})
  BY <1>2 DEF OthersKept
<1>4. PageFollows
  BY <1>1, <1>2 DEF PageFollows
<1>5. QueueOK' /\ OrderKept({})
  BY <1>1, <1>3, QueueSame DEF Orderly
<1>6. QED
  BY <1>1, <1>3, <1>4, <1>5, ViewStepKeeps DEF LeftFollows

LEMMA RelaunchOrderly ==
    ASSUME Relaunch
    PROVE  Orderly'
<1>1. list' = {} /\ deleting' = FALSE /\ queue' = <<>> /\ Outstanding' = {}
  BY DEF Relaunch, NoPages, Cleared, Outstanding
<1>2. QueueOK'
  <2>1. queue' \in Seq(CallIds) /\ DOMAIN queue' = {}
    BY <1>1
  <2>2. QED
    BY <1>1, <2>1 DEF QueueOK
<1>3. DeletionsOK' /\ ReadsOK' /\ GhostsCleared'
  BY <1>1 DEF DeletionsOK, ReadsOK, GhostsCleared
<1>4. QED
  BY <1>2, <1>3 DEF Orderly

(* Steps that have nothing to do with the photos.                          *)
LEMMA SameOrderly ==
    ASSUME Orderly, UNCHANGED <<entries, stack, list, deleting, calls, queue, left>>
    PROVE  Orderly'
<1>1. OthersKept({})
  BY SameCalls
<1>2. PageFollows
  BY <1>1, PageSame DEF Orderly
<1>3. QueueOK' /\ OrderKept({})
  BY <1>1, QueueSame DEF Orderly
<1>4. QED
  BY <1>1, <1>2, <1>3, ViewStepKeeps DEF LeftFollows

-----------------------------------------------------------------------------
(* The theorems *)

LEMMA ResumeOrderly ==
    ASSUME TypeOK, Orderly, NEW c \in CallIds, Resume(c)
    PROVE  Orderly'
BY LoadUserReturnsOrderly, LoadOnceReturnsOrderly, DelUserReturnsOrderly,
   DelFileReturnsOrderly, DelEntryReturnsOrderly, AddUserReturnsOrderly,
   AddFileReturnsOrderly, AddUrlReturnsOrderly, AddEntryReturnsOrderly
   DEF Resume, TypeOK

LEMMA OrderlyNext ==
    ASSUME TypeOK, Orderly, [Next]_vars
    PROVE  Orderly'
<1>1. CASE UNCHANGED vars \/ SessionChanges
  BY <1>1, SameOrderly DEF vars, SessionChanges, view
<1>2. CASE \E c \in CallIds : Serve(c) \/ Resume(c)
  BY <1>2, ServeOrderly, ResumeOrderly
<1>3. CASE MinhasFotos \/ ExcluirClicked \/ EnviarClicked \/ Back
  BY <1>3, MinhasFotosOrderly, ExcluirClickedOrderly, EnviarClickedOrderly,
     BackOrderly DEF TypeOK
<1>4. CASE AddTapped \/ \E e \in list : PhotoTapped(e)
  BY <1>4, OpenedOrderly
<1>5. CASE Dispose \/ Replaced \/ Relaunch
  BY <1>5, DisposeOrderly, ReplacedOrderly, RelaunchOrderly DEF TypeOK
<1>6. QED
  BY <1>1, <1>2, <1>3, <1>4, <1>5 DEF Next

LEMMA OrderlyInit == Init => Orderly
<1> SUFFICES ASSUME Init
             PROVE  Orderly
  OBVIOUS
<1>1. Outstanding = {} /\ queue = <<>> /\ list = {} /\ deleting = FALSE
  BY DEF Init, Outstanding
<1>2. QueueOK
  <2>1. queue \in Seq(CallIds) /\ DOMAIN queue = {}
    BY <1>1
  <2>2. QED
    BY <1>1, <2>1 DEF QueueOK
<1>3. DeletionsOK /\ ReadsOK /\ GhostsCleared
  BY <1>1 DEF DeletionsOK, ReadsOK, GhostsCleared
<1>4. QED
  BY <1>2, <1>3 DEF Orderly

(* The invariant behind NoGhosts holds, for every number of accounts,      *)
(* photos and outstanding calls: as the database answers in order, a photo *)
(* that is shown and is not there any more has a deletion that will clear  *)
(* the list, or one that went on behind a page that was left; one that was *)
(* read has a deletion that resumes after the read                         *)
(* (PhotosController.loadPictures, deletePicture, _updatePhotosList).      *)
THEOREM DeletionsAlwaysClear == Spec => []GhostInv
<1>1. Init => Orderly
  BY OrderlyInit
<1>2. AlbumInv /\ Orderly /\ [Next]_vars => Orderly'
  BY OrderlyNext DEF AlbumInv
<1>3. AlbumInv /\ Orderly => GhostInv
  BY DEF AlbumInv, Orderly, GhostInv
<1>4. QED
  BY <1>1, <1>2, <1>3, PhotosAlwaysKept, PTL DEF Spec

(* A photo that was deleted does not stay in the list and does not come    *)
(* back to it, whatever loads, uploads and deletions overlap; the          *)
(* exception is a deletion that went on behind a page that was left, until *)
(* the list is cleared again (PhotosWorker._updatePhotosList).             *)
THEOREM DeletedPhotosStayAway == Spec => []NoGhosts
<1>1. GhostInv => NoGhosts
  <2> SUFFICES ASSUME GhostInv, ~deleting, NEW e \in list \ entries
               PROVE  e[2] \in left
    BY DEF NoGhosts
  <2>1. ASSUME NEW d \in CallIds, Clears(d, e[2])
        PROVE  FALSE
    BY <2>1 DEF GhostInv, DeletionsOK, Clears, Removed, IsDeletion, Outstanding
  <2>2. QED
    BY <2>1 DEF GhostInv, GhostsCleared
<1>2. QED
  BY <1>1, DeletionsAlwaysClear, PTL
=============================================================================
