-------------------------- MODULE ComplementProofs --------------------------
(***************************************************************************)
(* Overlapping complements of one worker, for any number of them: the      *)
(* profile and the listings agree when all of them reported success.       *)
(***************************************************************************)
EXTENDS Complement, TLAPS

-----------------------------------------------------------------------------
(* The queue of the connection *)

(* A request is sent by a call that was not outstanding.                   *)
LEMMA Sending ==
    ASSUME QueueOK, NEW c \in CallIds, calls[c] = NULL,
           Sent(c), NEW call \in Call, TypeOK,
           calls' = [calls EXCEPT ![c] = call]
    PROVE  /\ QueueOK'
           /\ Len(queue') = Len(queue) + 1 /\ queue'[Len(queue')] = c
           /\ \A n \in DOMAIN queue : n \in DOMAIN queue' /\ queue'[n] = queue[n]
           /\ DOMAIN queue' = 1 .. Len(queue)'
<1>1. queue \in Seq(CallIds) /\ Len(queue) \in Nat
  BY DEF QueueOK
<1>2. /\ queue' \in Seq(CallIds) /\ Len(queue') = Len(queue) + 1
      /\ queue'[Len(queue')] = c
      /\ \A n \in 1 .. Len(queue) : queue'[n] = queue[n]
      /\ DOMAIN queue = 1 .. Len(queue) /\ DOMAIN queue' = 1 .. Len(queue')
  BY <1>1 DEF Sent
<1>3. \A n \in DOMAIN queue : queue[n] # c
  BY DEF QueueOK
<1>4. \A m, n \in DOMAIN queue' : queue'[m] = queue'[n] => m = n
  BY <1>1, <1>2, <1>3 DEF QueueOK
<1>5. \A d \in CallIds : calls'[d] # NULL <=> d = c \/ calls[d] # NULL
  BY NullIsNoCall DEF TypeOK
<1>6. \A d \in CallIds :
         (\E n \in DOMAIN queue' : queue'[n] = d)
            <=> d = c \/ \E n \in DOMAIN queue : queue[n] = d
  BY <1>1, <1>2
<1>7. QED
  BY <1>1, <1>2, <1>4, <1>5, <1>6 DEF QueueOK

(* The answer to the oldest request is received.                           *)
LEMMA Receiving ==
    ASSUME QueueOK, NEW c \in CallIds, calls[c] # NULL,
           \A n \in DOMAIN queue : queue[n] = c => n = 1
    PROVE  /\ queue # <<>> /\ queue[1] = c
           /\ Tail(queue) \in Seq(CallIds)
           /\ Len(Tail(queue)) = Len(queue) - 1
           /\ DOMAIN Tail(queue) = 1 .. Len(queue) - 1
           /\ \A n \in 1 .. Len(queue) - 1 : Tail(queue)[n] = queue[n + 1]
           /\ \A d \in CallIds :
                 (\E n \in DOMAIN Tail(queue) : Tail(queue)[n] = d)
                    <=> calls[d] # NULL /\ d # c
<1>1. queue \in Seq(CallIds) /\ Len(queue) \in Nat /\ DOMAIN queue = 1 .. Len(queue)
  BY DEF QueueOK
<1>2. PICK k \in DOMAIN queue : queue[k] = c
  BY DEF QueueOK
<1>3. queue # <<>> /\ queue[1] = c /\ Len(queue) >= 1
  BY <1>1, <1>2
<1>4. /\ Tail(queue) \in Seq(CallIds)
      /\ Len(Tail(queue)) = Len(queue) - 1
      /\ DOMAIN Tail(queue) = 1 .. Len(queue) - 1
      /\ \A n \in 1 .. Len(queue) - 1 : Tail(queue)[n] = queue[n + 1]
  BY <1>1, <1>3
<1>5. ASSUME NEW d \in CallIds
      PROVE  (\E n \in DOMAIN Tail(queue) : Tail(queue)[n] = d)
                <=> calls[d] # NULL /\ d # c
  <2>1. ASSUME NEW n \in DOMAIN Tail(queue), Tail(queue)[n] = d
        PROVE  calls[d] # NULL /\ d # c
    <3>1. n + 1 \in DOMAIN queue /\ queue[n + 1] = d
      BY <2>1, <1>1, <1>4
    <3>2. QED
      BY <3>1, <1>1, <1>3, <1>4, <2>1 DEF QueueOK
  <2>2. ASSUME calls[d] # NULL, d # c
        PROVE  \E n \in DOMAIN Tail(queue) : Tail(queue)[n] = d
    <3>1. PICK m \in DOMAIN queue : queue[m] = d
      BY <2>2 DEF QueueOK
    <3>2. m # 1 /\ m - 1 \in 1 .. Len(queue) - 1 /\ Tail(queue)[m - 1] = queue[m]
      BY <3>1, <2>2, <1>1, <1>3, <1>4
    <3>3. QED
      BY <3>1, <3>2, <1>4
  <2>3. QED
    BY <2>1, <2>2
<1>6. QED
  BY <1>3, <1>4, <1>5

-----------------------------------------------------------------------------
(* Types *)

LEMMA TypeStep == TypeOK /\ QueueOK /\ [Next]_vars => TypeOK'
<1> SUFFICES ASSUME TypeOK, QueueOK, [Next]_vars PROVE TypeOK'
  OBVIOUS
<1> USE NullIsNoCall, NullIsNoArea
<1>1. CASE Registered \/ OtherUser \/ OtherChoice \/ FormLeft \/ UNCHANGED vars
  BY <1>1 DEF TypeOK, Registered, OtherUser, OtherChoice, FormLeft, vars, Complementing,
              Outstanding
<1>2. CASE ChoiceClicked
  <2>1. PICK c \in CallIds :
           calls' = [calls EXCEPT ![c] = NewCall("choice", NULL, NULL)]
    BY <1>2 DEF ChoiceClicked
  <2>2. /\ NewCall("choice", NULL, NULL) \in Call
        /\ ~IsComplement(NewCall("choice", NULL, NULL))
    BY DEF NewCall, Call, IsComplement
  <2>3. QED
    BY <1>2, <2>1, <2>2 DEF ChoiceClicked, TypeOK, Complementing, Outstanding
<1>3. ASSUME NEW a \in Areas, ConcluirClicked(a) PROVE TypeOK'
  <2>1. CASE current = NULL
    BY <1>3, <2>1 DEF ConcluirClicked, TypeOK, Complementing, Outstanding
  <2>2. CASE current # NULL
    <3>1. PICK c \in CallIds :
             calls' = [calls EXCEPT ![c] = NewCall("sendWorker", current, a)]
      BY <1>3, <2>2 DEF ConcluirClicked
    <3>2. /\ current \in Objects
          /\ NewCall("sendWorker", current, a) \in Call
          /\ NewCall("sendWorker", current, a).worker = current
      BY <2>2 DEF NewCall, Call, TypeOK
    <3>3. calls' \in [CallIds -> Call \cup {NULL}]
      BY <3>1, <3>2 DEF TypeOK
    <3>4. \A d \in Complementing' : calls'[d].worker \in Objects
      BY <3>1, <3>2 DEF TypeOK, Complementing, Outstanding
    <3>5. QED
      BY <1>3, <2>2, <3>2, <3>3, <3>4 DEF ConcluirClicked, TypeOK
  <2>3. QED
    BY <2>1, <2>2
<1>4. CASE Relaunch
  BY <1>4 DEF Relaunch, TypeOK, Complementing, Outstanding
<1>5. ASSUME NEW c \in CallIds, Serve(c) PROVE TypeOK'
  <2>1. calls[c] # NULL /\ calls[c] \in Call
    BY <1>5 DEF Serve, ServeOnce, ServeSendWorker, ServeSendReference, Pending,
                TypeOK
  <2>2. /\ calls'[c] \in Call /\ calls' = [calls EXCEPT ![c] = calls'[c]]
        /\ calls'[c].op = calls[c].op /\ calls'[c].worker = calls[c].worker
    BY <1>5, <2>1 DEF Serve, ServeOnce, ServeSendWorker, ServeSendReference,
                      Reply, TypeOK, Call
  <2>3. /\ calls' \in [CallIds -> Call \cup {NULL}]
        /\ \A d \in Complementing' : calls'[d].worker \in Objects
    BY <2>1, <2>2 DEF TypeOK, Complementing, Outstanding, IsComplement
  <2>4. profile' \in Areas \cup {NULL} /\ listed' \in SUBSET (Areas \cup {NULL})
    BY <1>5, <2>1 DEF Serve, ServeOnce, ServeSendWorker, ServeSendReference,
                      TypeOK, Call
  <2>5. QED
    BY <1>5, <2>3, <2>4 DEF Serve, TypeOK
<1>6. ASSUME NEW c \in CallIds, ChoiceReturns(c) PROVE TypeOK'
  <2>1. calls[c] # NULL /\ calls[c] \in Call
    BY <1>6 DEF ChoiceReturns, Answered, TypeOK
  <2>2. QED
    BY <1>6, <2>1 DEF ChoiceReturns, Finished, TypeOK, Complementing,
                      Outstanding, Call
<1>7. ASSUME NEW c \in CallIds, SendWorkerReturns(c) PROVE TypeOK'
  <2>1. calls[c] # NULL /\ calls[c] \in Call /\ calls[c].worker \in Objects
    BY <1>7 DEF SendWorkerReturns, Answered, TypeOK, Complementing,
                Outstanding, IsComplement
  <2>2. /\ calls'[c] \in Call /\ calls' = [calls EXCEPT ![c] = calls'[c]]
        /\ calls'[c].worker = calls[c].worker
    BY <1>7, <2>1 DEF SendWorkerReturns, Awaiting, Succeeded, TypeOK, Call
  <2>3. /\ calls' \in [CallIds -> Call \cup {NULL}]
        /\ \A d \in Complementing' : calls'[d].worker \in Objects
    BY <2>1, <2>2 DEF TypeOK, Complementing, Outstanding, IsComplement
  <2>4. QED
    BY <1>7, <2>3 DEF SendWorkerReturns, TypeOK
<1>8. ASSUME NEW c \in CallIds, SendReferenceReturns(c) PROVE TypeOK'
  BY <1>8 DEF SendReferenceReturns, Finished, TypeOK, Complementing, Outstanding
<1>9. QED
  BY <1>1, <1>2, <1>3, <1>4, <1>5, <1>6, <1>7, <1>8 DEF Next, Resume

-----------------------------------------------------------------------------
(* The queue holds the outstanding calls *)

LEMMA QueueStep == TypeOK /\ QueueOK /\ [Next]_vars => QueueOK'
<1> SUFFICES ASSUME TypeOK, QueueOK, [Next]_vars PROVE QueueOK'
  OBVIOUS
<1> USE NullIsNoCall
<1>1. CASE Registered \/ OtherUser \/ OtherChoice \/ FormLeft \/ UNCHANGED vars
  BY <1>1 DEF QueueOK, Registered, OtherUser, OtherChoice, FormLeft, vars
<1>2. CASE ChoiceClicked
  <2>1. PICK c \in CallIds :
           /\ calls[c] = NULL /\ Sent(c)
           /\ calls' = [calls EXCEPT ![c] = NewCall("choice", NULL, NULL)]
    BY <1>2 DEF ChoiceClicked, IsFree
  <2>2. NewCall("choice", NULL, NULL) \in Call
    BY DEF NewCall, Call
  <2>3. QED
    BY <2>1, <2>2, Sending
<1>3. ASSUME NEW a \in Areas, ConcluirClicked(a) PROVE QueueOK'
  <2>1. CASE current = NULL
    BY <1>3, <2>1 DEF ConcluirClicked, QueueOK
  <2>2. CASE current # NULL
    <3>1. PICK c \in CallIds :
             /\ calls[c] = NULL /\ Sent(c)
             /\ calls' = [calls EXCEPT ![c] = NewCall("sendWorker", current, a)]
      BY <1>3, <2>2 DEF ConcluirClicked, IsFree
    <3>2. NewCall("sendWorker", current, a) \in Call
      BY <2>2 DEF NewCall, Call, TypeOK
    <3>3. QED
      BY <3>1, <3>2, Sending
  <2>3. QED
    BY <2>1, <2>2
<1>4. CASE Relaunch
  BY <1>4 DEF Relaunch, QueueOK
<1>5. ASSUME NEW c \in CallIds, Serve(c) PROVE QueueOK'
  <2>1. \A d \in CallIds : calls'[d] # NULL <=> calls[d] # NULL
    BY <1>5, TypeStep DEF Serve, ServeOnce, ServeSendWorker, ServeSendReference,
                Pending, Reply, TypeOK, Call
  <2>2. QED
    BY <1>5, <2>1 DEF Serve, QueueOK
<1>6. ASSUME NEW c \in CallIds, calls[c] # NULL,
             \A n \in DOMAIN queue : queue[n] = c => n = 1,
             Received, calls' = Finished(c)
      PROVE  QueueOK'
  <2>1. \A d \in CallIds : calls'[d] # NULL <=> calls[d] # NULL /\ d # c
    BY <1>6 DEF Finished, TypeOK
  <2>2. queue' = Tail(queue)
    BY <1>6 DEF Received
  <2>3. Len(queue) \in Nat /\ DOMAIN queue = 1 .. Len(queue)
    BY DEF QueueOK
  <2>4. \A m, n \in DOMAIN queue' : queue'[m] = queue'[n] => m = n
    BY <1>6, <2>2, <2>3, Receiving DEF QueueOK
  <2>5. QED
    BY <1>6, <2>1, <2>2, <2>4, Receiving DEF QueueOK
<1>7. ASSUME NEW c \in CallIds, SendWorkerReturns(c) PROVE QueueOK'
  <2>1. /\ calls[c] # NULL
        /\ \A n \in DOMAIN queue : queue[n] = c => n = 1
        /\ queue' = Append(Tail(queue), c)
    BY <1>7 DEF SendWorkerReturns, Answered
  <2>2. \A d \in CallIds : calls'[d] # NULL <=> calls[d] # NULL
    BY <1>7, <2>1 DEF SendWorkerReturns, Awaiting, TypeOK, Call
  <2>3. Len(queue) \in Nat /\ DOMAIN queue = 1 .. Len(queue) /\ Len(queue) >= 1
    BY <2>1 DEF QueueOK
  <2> DEFINE t == Tail(queue)
  <2>4. /\ t \in Seq(CallIds) /\ Len(t) = Len(queue) - 1
        /\ DOMAIN t = 1 .. Len(queue) - 1
        /\ \A n \in 1 .. Len(queue) - 1 : t[n] = queue[n + 1]
        /\ \A d \in CallIds : (\E n \in DOMAIN t : t[n] = d)
                                  <=> calls[d] # NULL /\ d # c
    BY <2>1, Receiving
  <2>5. \A m, n \in DOMAIN t : t[m] = t[n] => m = n
    BY <2>3, <2>4 DEF QueueOK
  <2> HIDE DEF t
  <2>6. /\ queue' = Append(t, c) /\ Len(t) \in Nat
        /\ DOMAIN t = 1 .. Len(t)
    BY <2>1, <2>3, <2>4 DEF t
  <2>7. /\ queue' \in Seq(CallIds) /\ DOMAIN queue' = 1 .. Len(t) + 1
        /\ \A n \in 1 .. Len(t) : queue'[n] = t[n]
        /\ queue'[Len(t) + 1] = c
    BY <2>4, <2>6
  <2>8. \A n \in DOMAIN t : t[n] # c
    BY <2>4
  <2>9. \A m, n \in DOMAIN queue' : queue'[m] = queue'[n] => m = n
    BY <2>5, <2>6, <2>7, <2>8
  <2>10. \A d \in CallIds :
            (\E n \in DOMAIN queue' : queue'[n] = d)
               <=> d = c \/ \E n \in DOMAIN t : t[n] = d
    BY <2>6, <2>7
  <2>11. \A d \in CallIds :
            (\E n \in DOMAIN queue' : queue'[n] = d) <=> calls[d] # NULL
    BY <2>1, <2>4, <2>10
  <2>12. QED
    BY <2>2, <2>7, <2>9, <2>11 DEF QueueOK
<1>8. QED
  BY <1>1, <1>2, <1>3, <1>4, <1>5, <1>6, <1>7
     DEF Next, Resume, ChoiceReturns, SendReferenceReturns, Answered

-----------------------------------------------------------------------------
(* A profile that is not listed yet *)

(* Calls that a step leaves alone mean what they meant, as long as the     *)
(* profile and the areas of their objects are the same.                    *)
LEMMA OtherCalls ==
    ASSUME NEW d \in CallIds, calls'[d] = calls[d],
           d \in Complementing =>
              area'[calls[d].worker] = area[calls[d].worker],
           profile' = profile
    PROVE  /\ Writes(d) => Writes(d)'
           /\ Lists(d) => Lists(d)'
           /\ Fails(d) => Fails(d)'
BY DEF Writes, Pending, Lists, Succeeded, Fails, IsComplement, Complementing,
       Outstanding

(* A profile that is not listed yet keeps its complement.                  *)
LEMMA DueStep == ListingKept /\ [Next]_vars => ListingDue'
<1> SUFFICES ASSUME ListingKept, [Next]_vars PROVE ListingDue'
  OBVIOUS
<1> USE NullIsNoCall, NullIsNoArea
<1> DEFINE Due(d) == Writes(d) \/ Lists(d) \/ Fails(d)
<1>0. /\ TypeOK /\ QueueOK /\ LastWriteCounts
      /\ profile = NULL \/ profile \in listed \/ failed
            \/ \E d \in CallIds : Due(d)
  BY DEF ListingKept, ListingDue
<1>a. ASSUME profile' = profile, listed \subseteq listed', failed => failed',
             \A d \in CallIds : Due(d) =>
                 Due(d)' \/ profile' \in listed' \/ failed'
      PROVE  ListingDue'
  <2> HIDE DEF Due
  <2>1. CASE profile = NULL \/ profile \in listed \/ failed
    BY <1>a, <2>1 DEF ListingDue
  <2>2. ASSUME NEW d \in CallIds, Due(d) PROVE ListingDue'
    BY <1>a, <2>2 DEF ListingDue, Due
  <2>3. QED
    BY <1>0, <2>1, <2>2
<1>1. CASE OtherUser \/ OtherChoice \/ FormLeft \/ UNCHANGED vars
  BY <1>1, <1>a, OtherCalls DEF OtherUser, OtherChoice, FormLeft, vars
<1>2. CASE Registered
  <2>1. \A d \in Complementing :
           area'[calls[d].worker] = area[calls[d].worker]
    BY <1>2, <1>0 DEF Registered, Fresh, Complementing, TypeOK
  <2>2. QED
    BY <1>2, <1>a, <2>1, OtherCalls DEF Registered
<1>3. CASE ChoiceClicked
  <2>1. PICK c \in CallIds :
           /\ calls[c] = NULL
           /\ calls' = [calls EXCEPT ![c] = NewCall("choice", NULL, NULL)]
    BY <1>3 DEF ChoiceClicked, IsFree
  <2>2. ~Due(c)
    BY <2>1 DEF Writes, Pending, Lists, Fails
  <2>3. \A d \in CallIds \ {c} : calls'[d] = calls[d]
    BY <2>1, <1>0 DEF TypeOK
  <2>4. QED
    BY <1>3, <1>a, <2>2, <2>3, OtherCalls DEF ChoiceClicked
<1>4. ASSUME NEW a \in Areas, ConcluirClicked(a) PROVE ListingDue'
  <2>1. CASE current = NULL
    BY <1>4, <2>1, <1>a, OtherCalls DEF ConcluirClicked
  <2>2. CASE current # NULL
    <3>1. PICK c \in CallIds :
             calls' = [calls EXCEPT ![c] = NewCall("sendWorker", current, a)]
      BY <1>4, <2>2 DEF ConcluirClicked
    <3>2. NewCall("sendWorker", current, a) \in Call
      BY <2>2, <1>0 DEF NewCall, Call, TypeOK
    <3>3. calls'[c] # NULL /\ calls'[c].op = "sendWorker"
             /\ calls'[c].answer = "pending"
      BY <3>1, <3>2, <1>0 DEF TypeOK, NewCall
    <3>4. Writes(c)'
      BY <3>3 DEF Writes, Pending
    <3>5. QED
      BY <3>4 DEF ListingDue
  <2>3. QED
    BY <2>1, <2>2
<1>5. CASE Relaunch
  <2>1. \A d \in CallIds : Due(d) => d \in Complementing
    BY DEF Writes, Pending, Lists, Fails, Complementing, Outstanding,
           IsComplement
  <2>2. QED
    BY <1>5, <1>a, <2>1 DEF Relaunch
<1>6. ASSUME NEW c \in CallIds, ServeOnce(c), Serve(c) PROVE ListingDue'
  <2>1. ~Due(c)
    BY <1>6 DEF ServeOnce, Pending, Writes, Lists, Fails, IsComplement
  <2>2. \A d \in CallIds \ {c} : calls'[d] = calls[d]
    BY <1>6, <1>0 DEF ServeOnce, Reply, TypeOK
  <2>3. QED
    BY <1>6, <1>a, <2>1, <2>2, OtherCalls DEF ServeOnce, Serve
<1>7. ASSUME NEW c \in CallIds, ServeSendWorker(c), Serve(c) PROVE ListingDue'
  <2>1. /\ calls[c] # NULL /\ calls[c] \in Call /\ Writes(c)
        /\ calls[c].op = "sendWorker"
    BY <1>7, <1>0 DEF ServeSendWorker, Pending, Writes, TypeOK
  <2>2. CASE Reply(c, "error")
    <3>1. /\ calls'[c] # NULL /\ calls'[c].op = "sendWorker"
          /\ calls'[c].answer = "error"
      BY <2>1, <2>2, <1>0 DEF Reply, TypeOK, Call
    <3>2. QED
      BY <3>1 DEF ListingDue, Fails, IsComplement
  <2>3. CASE profile' = calls[c].area /\ Reply(c, "ok")
    <3>1. /\ calls'[c] # NULL /\ calls'[c].op = "sendWorker"
          /\ calls'[c].answer = "ok" /\ calls'[c].worker = calls[c].worker
          /\ \A d \in CallIds \ {c} : calls'[d] = calls[d]
      BY <2>1, <2>3, <1>0 DEF Reply, TypeOK, Call
    <3>2. PICK n \in DOMAIN queue : queue[n] = c
      BY <1>7 DEF ServeSendWorker, ItsTurn
    <3>3. CASE area[calls[c].worker] = calls[c].area
      <4>1. Lists(c)'
        BY <1>7, <2>3, <3>1, <3>3 DEF Lists, Succeeded, Serve
      <4>2. QED
        BY <4>1 DEF ListingDue
    <3>4. ASSUME NEW m \in DOMAIN queue, m > n, Writes(queue[m])
          PROVE  ListingDue'
      <4>1. queue[m] \in CallIds /\ queue[m] # c
        BY <1>0, <3>2, <3>4 DEF QueueOK
      <4>2. Writes(queue[m])'
        BY <1>7, <3>1, <3>4, <4>1 DEF Writes, Pending, Serve
      <4>3. QED
        BY <1>7, <4>1, <4>2 DEF ListingDue, Serve
    <3>5. QED
      BY <1>0, <2>1, <3>2, <3>3, <3>4 DEF LastWriteCounts
  <2>4. QED
    BY <1>7, <2>2, <2>3 DEF ServeSendWorker
<1>8. ASSUME NEW c \in CallIds, ServeSendReference(c), Serve(c) PROVE ListingDue'
  <2>1. /\ calls[c] # NULL /\ calls[c] \in Call /\ calls[c].op = "sendReference"
        /\ calls[c].answer = "pending"
    BY <1>8, <1>0 DEF ServeSendReference, Pending, TypeOK
  <2>2. /\ calls'[c] # NULL /\ calls'[c].op = "sendReference"
        /\ calls'[c].data = calls[c].data
        /\ \A d \in CallIds \ {c} : calls'[d] = calls[d]
    BY <1>8, <2>1, <1>0 DEF ServeSendReference, Reply, TypeOK, Call
  <2>3. Due(c) => Due(c)' \/ profile' \in listed'
    <3>1. CASE calls'[c].answer = "error"
      BY <2>2, <3>1 DEF Fails, IsComplement
    <3>2. CASE listed' = listed \cup {calls[c].area}
      <4>1. CASE Writes(c) \/ Lists(c)
        BY <1>8, <2>1, <3>2, <4>1
           DEF Writes, Pending, Lists, ServeSendReference
      <4>2. CASE Fails(c)
        BY <2>1, <2>2, <4>2 DEF Fails, IsComplement
      <4>3. QED
        BY <4>1, <4>2
    <3>3. QED
      <4>1. \/ listed' = listed \cup {calls[c].area}
            \/ Reply(c, "error")
        BY <1>8 DEF ServeSendReference
      <4>2. Reply(c, "error") => calls'[c].answer = "error"
        BY <2>1, <1>0 DEF Reply, TypeOK, Call
      <4>3. QED
        BY <3>1, <3>2, <4>1, <4>2
  <2>4. QED
    BY <1>8, <1>a, <2>2, <2>3, OtherCalls DEF ServeSendReference, Serve
<1>9. ASSUME NEW c \in CallIds, ChoiceReturns(c) PROVE ListingDue'
  <2>1. ~Due(c) /\ \A d \in CallIds \ {c} : calls'[d] = calls[d]
    BY <1>9, <1>0 DEF ChoiceReturns, Answered, Finished, TypeOK, Writes,
                      Pending, Lists, Fails, IsComplement
  <2>2. \A d \in Complementing :
           area'[calls[d].worker] = area[calls[d].worker]
    BY <1>9, <1>0 DEF ChoiceReturns, Fresh, Complementing, TypeOK
  <2>3. QED
    BY <1>9, <1>a, <2>1, <2>2, OtherCalls DEF ChoiceReturns
<1>10. ASSUME NEW c \in CallIds, SendWorkerReturns(c) PROVE ListingDue'
  <2>1. /\ calls[c] # NULL /\ calls[c] \in Call /\ calls[c].op = "sendWorker"
        /\ calls[c].answer # "pending"
    BY <1>10, <1>0 DEF SendWorkerReturns, Answered, TypeOK
  <2>2. /\ calls'[c] # NULL /\ calls'[c].op = "sendReference"
        /\ calls'[c].answer = "pending"
        /\ calls'[c].data = (calls[c].answer = "ok")
        /\ calls'[c].area = area[calls[c].worker]
        /\ \A d \in CallIds \ {c} : calls'[d] = calls[d]
    BY <1>10, <2>1, <1>0 DEF SendWorkerReturns, Awaiting, Succeeded, TypeOK, Call
  <2>3. Due(c) => Due(c)'
    BY <1>10, <2>1, <2>2 DEF Writes, Pending, Lists, Fails, IsComplement,
                             Succeeded, SendWorkerReturns
  <2>4. QED
    BY <1>10, <1>a, <2>2, <2>3, OtherCalls DEF SendWorkerReturns
<1>11. ASSUME NEW c \in CallIds, SendReferenceReturns(c) PROVE ListingDue'
  <2>1. Due(c) => failed'
    BY <1>11 DEF SendReferenceReturns, Answered, Writes, Pending, Lists, Fails,
                 Completed, Succeeded
  <2>2. \A d \in CallIds \ {c} : calls'[d] = calls[d]
    BY <1>11, <1>0 DEF SendReferenceReturns, Finished, TypeOK
  <2>3. QED
    BY <1>11, <1>a, <2>1, <2>2, OtherCalls DEF SendReferenceReturns
<1>12. QED
  BY <1>1, <1>2, <1>3, <1>4, <1>5, <1>6, <1>7, <1>8, <1>9, <1>10, <1>11
     DEF Next, Resume, Serve

-----------------------------------------------------------------------------
(* The write that comes last counts *)

(* The oldest call leaves the queue, and at its end the queue may get one  *)
(* call that writes no profile.                                            *)
LEMMA QueueShifts ==
    ASSUME QueueOK, LastWriteCounts, NEW c \in CallIds, calls[c] # NULL,
           \A n \in DOMAIN queue : queue[n] = c => n = 1,
           queue' = Tail(queue) \/ queue' = Append(Tail(queue), c),
           ~Writes(c)',
           \A d \in CallIds \ {c} : calls'[d] = calls[d],
           \A d \in Complementing :
              area'[calls[d].worker] = area[calls[d].worker]
    PROVE  LastWriteCounts'
<1>1. /\ queue \in Seq(CallIds) /\ Len(queue) \in Nat \ {0}
      /\ DOMAIN queue = 1 .. Len(queue) /\ queue[1] = c
  BY Receiving DEF QueueOK
<1>2. /\ Tail(queue) \in Seq(CallIds) /\ Len(Tail(queue)) = Len(queue) - 1
      /\ \A n \in 1 .. Len(queue) - 1 : Tail(queue)[n] = queue[n + 1]
  BY Receiving
<1>3. /\ 1 .. Len(queue) - 1 \subseteq DOMAIN queue'
      /\ \A n \in 1 .. Len(queue) - 1 : queue'[n] = queue[n + 1]
      /\ \A n \in DOMAIN queue' \ (1 .. Len(queue) - 1) : queue'[n] = c
  <2>1. CASE queue' = Tail(queue)
    BY <1>1, <1>2, <2>1
  <2>2. CASE queue' = Append(Tail(queue), c)
    BY <1>1, <1>2, <2>2
  <2>3. QED
    BY <2>1, <2>2
<1>4. SUFFICES ASSUME NEW n \in DOMAIN queue', Writes(queue[n])'
               PROVE  \/ area'[calls'[queue'[n]].worker] = calls'[queue'[n]].area
                      \/ \E m \in DOMAIN queue' : m > n /\ Writes(queue[m])'
  BY DEF LastWriteCounts, Writes, Pending
<1>5. /\ n \in 1 .. Len(queue) - 1 /\ n + 1 \in DOMAIN queue
      /\ queue'[n] = queue[n + 1]
  BY <1>1, <1>3, <1>4 DEF Writes, Pending
<1>6. /\ queue[n + 1] \in CallIds \ {c}
      /\ calls'[queue'[n]] = calls[queue[n + 1]] /\ Writes(queue[n + 1])
  BY <1>1, <1>4, <1>5 DEF Writes, Pending, QueueOK
<1>7. CASE area[calls[queue[n + 1]].worker] = calls[queue[n + 1]].area
  BY <1>6, <1>7 DEF Writes, Pending, Complementing, Outstanding, IsComplement
<1>8. ASSUME NEW m \in DOMAIN queue, m > n + 1, Writes(queue[m])
      PROVE  \E k \in DOMAIN queue' : k > n /\ Writes(queue[k])'
  <2>1. /\ m - 1 \in 1 .. Len(queue) - 1 /\ m - 1 > n
        /\ queue'[m - 1] = queue[m]
    BY <1>1, <1>3, <1>5, <1>8
  <2>2. queue[m] \in CallIds \ {c}
    BY <1>1, <1>5, <1>8 DEF QueueOK
  <2>3. Writes(queue[m - 1])'
    BY <1>8, <2>1, <2>2 DEF Writes, Pending
  <2>4. QED
    BY <1>3, <2>1, <2>3
<1>9. QED
  BY <1>5, <1>6, <1>7, <1>8 DEF LastWriteCounts

(* An object that has another area than was sent for it has a later write. *)
LEMMA LastStep == ListingKept /\ [Next]_vars => LastWriteCounts'
<1> SUFFICES ASSUME ListingKept, [Next]_vars PROVE LastWriteCounts'
  OBVIOUS
<1> USE NullIsNoCall, NullIsNoArea
<1>0. /\ TypeOK /\ QueueOK /\ LastWriteCounts /\ queue \in Seq(CallIds)
      /\ \A n \in DOMAIN queue : queue[n] \in CallIds
  BY DEF ListingKept, QueueOK
<1>1. CASE OtherUser \/ OtherChoice \/ FormLeft \/ UNCHANGED vars
  BY <1>0, <1>1 DEF OtherUser, OtherChoice, FormLeft, vars, LastWriteCounts, Writes, Pending
<1>2. CASE Registered
  <2>1. \A n \in DOMAIN queue : Writes(queue[n]) =>
           area'[calls[queue[n]].worker] = area[calls[queue[n]].worker]
    BY <1>0, <1>2 DEF Registered, Fresh, Writes, Pending, TypeOK,
                      Complementing, Outstanding, IsComplement
  <2>2. QED
    BY <1>0, <1>2, <2>1 DEF Registered, LastWriteCounts, Writes, Pending
<1>3. CASE ChoiceClicked
  <2>1. PICK c \in CallIds :
           /\ calls[c] = NULL /\ Sent(c)
           /\ calls' = [calls EXCEPT ![c] = NewCall("choice", NULL, NULL)]
    BY <1>3 DEF ChoiceClicked, IsFree
  <2>2. NewCall("choice", NULL, NULL) \in Call
    BY DEF NewCall, Call
  <2>3. /\ Len(queue') = Len(queue) + 1 /\ queue'[Len(queue')] = c
        /\ \A n \in DOMAIN queue : n \in DOMAIN queue' /\ queue'[n] = queue[n]
        /\ DOMAIN queue' = 1 .. Len(queue)'
    BY <1>0, <2>1, <2>2, Sending
  <2>4. ~Writes(c)' /\ \A d \in CallIds \ {c} : calls'[d] = calls[d]
    BY <1>0, <2>1 DEF TypeOK, Writes, Pending, NewCall
  <2>5. \A n \in DOMAIN queue : queue[n] \in CallIds \ {c}
    BY <1>0, <2>1 DEF QueueOK
  <2>6. \A n \in DOMAIN queue' : Writes(queue[n])' => n \in DOMAIN queue
    BY <1>0, <2>3, <2>4
  <2>7. QED
    BY <1>0, <1>3, <2>3, <2>4, <2>5, <2>6
       DEF ChoiceClicked, LastWriteCounts, Writes, Pending
<1>4. ASSUME NEW a \in Areas, ConcluirClicked(a) PROVE LastWriteCounts'
  <2>1. CASE current = NULL
    BY <1>0, <1>4, <2>1 DEF ConcluirClicked, LastWriteCounts, Writes, Pending
  <2>2. CASE current # NULL
    <3>1. PICK c \in CallIds :
             /\ calls[c] = NULL /\ Sent(c)
             /\ calls' = [calls EXCEPT ![c] = NewCall("sendWorker", current, a)]
      BY <1>4, <2>2 DEF ConcluirClicked, IsFree
    <3>2. NewCall("sendWorker", current, a) \in Call /\ current \in Objects
      BY <2>2, <1>0 DEF NewCall, Call, TypeOK
    <3>3. /\ Len(queue') = Len(queue) + 1 /\ queue'[Len(queue')] = c
          /\ DOMAIN queue' = 1 .. Len(queue')
      BY <1>0, <3>1, <3>2, Sending
    <3>a. Len(queue) \in Nat
      BY <1>0
    <3>4. Writes(c)' /\ area'[calls'[c].worker] = calls'[c].area
      BY <1>0, <1>4, <2>2, <3>1, <3>2
         DEF ConcluirClicked, TypeOK, Writes, Pending, NewCall
    <3>5. QED
      BY <3>3, <3>a, <3>4 DEF LastWriteCounts, Writes, Pending
  <2>3. QED
    BY <2>1, <2>2
<1>5. CASE Relaunch
  BY <1>5 DEF Relaunch, LastWriteCounts
<1>6. ASSUME NEW c \in CallIds, Serve(c) PROVE LastWriteCounts'
  <2>1. /\ \A d \in CallIds \ {c} : calls'[d] = calls[d]
        /\ calls[c] # NULL /\ calls[c].answer = "pending" /\ ItsTurn(c)
        /\ ~Writes(c)' /\ queue' = queue /\ area' = area
    BY <1>0, <1>6 DEF Serve, ServeOnce, ServeSendWorker, ServeSendReference,
                      Pending, Reply, TypeOK, Call, Writes
  <2>2. PICK k \in DOMAIN queue :
           /\ queue[k] = c
           /\ \A m \in 1 .. k - 1 : calls[queue[m]].answer # "pending"
    BY <2>1 DEF ItsTurn
  <2>3. SUFFICES ASSUME NEW n \in DOMAIN queue, Writes(queue[n])'
                 PROVE  \/ area[calls'[queue[n]].worker] = calls'[queue[n]].area
                        \/ \E m \in DOMAIN queue : m > n /\ Writes(queue[m])'
    BY <2>1 DEF LastWriteCounts, Writes, Pending
  <2>4. queue[n] # c /\ calls'[queue[n]] = calls[queue[n]] /\ Writes(queue[n])
    BY <1>0, <2>1, <2>3 DEF Writes, Pending
  <2>5. n > k
    BY <1>0, <2>2, <2>4 DEF Writes, Pending
  <2>6. CASE area[calls[queue[n]].worker] = calls[queue[n]].area
    BY <2>4, <2>6
  <2>7. ASSUME NEW m \in DOMAIN queue, m > n, Writes(queue[m])
        PROVE  Writes(queue[m])'
    <3>1. queue[m] # c
      BY <1>0, <2>2, <2>5, <2>7 DEF QueueOK
    <3>2. QED
      BY <1>0, <2>1, <2>7, <3>1 DEF Writes, Pending
  <2>8. QED
    BY <1>0, <2>4, <2>6, <2>7 DEF LastWriteCounts
<1>7. ASSUME NEW c \in CallIds, Resume(c) PROVE LastWriteCounts'
  <2>1. /\ calls[c] # NULL
        /\ \A n \in DOMAIN queue : queue[n] = c => n = 1
        /\ queue' = Tail(queue) \/ queue' = Append(Tail(queue), c)
    BY <1>7 DEF Resume, ChoiceReturns, SendWorkerReturns, SendReferenceReturns,
                Answered, Received
  <2>2. /\ \A d \in CallIds \ {c} : calls'[d] = calls[d]
        /\ ~Writes(c)'
    <3>1. CASE calls' = Finished(c)
      BY <1>0, <3>1 DEF Finished, TypeOK, Writes, Pending
    <3>2. CASE SendWorkerReturns(c)
      <4>1. calls[c] \in Call
        BY <1>0, <2>1 DEF TypeOK
      <4>2. calls'[c].op = "sendReference"
        BY <1>0, <3>2, <4>1 DEF SendWorkerReturns, Awaiting, TypeOK, Call
      <4>3. QED
        BY <1>0, <3>2, <4>2 DEF SendWorkerReturns, Awaiting, TypeOK, Writes,
                                Pending
    <3>3. QED
      BY <1>7, <3>1, <3>2 DEF Resume, ChoiceReturns, SendReferenceReturns
  <2>3. \A d \in Complementing : area'[calls[d].worker] = area[calls[d].worker]
    BY <1>0, <1>7
       DEF Resume, ChoiceReturns, SendWorkerReturns, SendReferenceReturns,
           Fresh, Complementing, TypeOK
  <2>4. QED
    BY <1>0, <2>1, <2>2, <2>3, QueueShifts
<1>8. QED
  BY <1>1, <1>2, <1>3, <1>4, <1>5, <1>6, <1>7 DEF Next

-----------------------------------------------------------------------------
(* Results *)

(* Whatever complements overlap, one that is under way takes care of a     *)
(* profile that is not listed (WorkerComplementController.dart:18-23).     *)
THEOREM ListingAlwaysKept == Spec => []ListingKept
<1>1. Init => ListingKept
  <2> SUFFICES ASSUME Init PROVE ListingKept
    OBVIOUS
  <2>1. TypeOK
    BY DEF Init, TypeOK, Complementing, Outstanding
  <2>2. QueueOK /\ ListingDue /\ LastWriteCounts
    BY DEF Init, QueueOK, ListingDue, LastWriteCounts
  <2>3. QED
    BY <2>1, <2>2 DEF ListingKept
<1>2. ListingKept /\ [Next]_vars => ListingKept'
  BY TypeStep, QueueStep, DueStep, LastStep DEF ListingKept
<1>3. QED
  BY <1>1, <1>2, PTL DEF Spec

(* When all complements reported success, the listing of the area in the   *)
(* profile names the worker, for any number of complements and of areas.   *)
THEOREM ListedWhereStoredHolds == Spec => []ListedWhereStored
<1>1. ListingKept => ListedWhereStored
  BY DEF ListingKept, ListingDue, ListedWhereStored, Writes, Lists, Fails,
         Pending, Complementing, Outstanding, IsComplement
<1>2. QED
  BY <1>1, ListingAlwaysKept, PTL
=============================================================================
