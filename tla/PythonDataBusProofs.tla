-------------------------- MODULE PythonDataBusProofs --------------------------
(***************************************************************************)
(* No notification is lost and none is handled out of order, for any       *)
(* number of calls of subscribe and of messages.                           *)
(***************************************************************************)
EXTENDS PythonDataBus, SequenceTheorems, TLAPS

Positive == Nat \ {0}

\* All that came to a call of subscribe, in the order its callback gets it.
Taken(s) == handled[s] \o Waiting(s)

Increasing(seq) == \A i, j \in 1 .. Len(seq) : i < j => seq[i] < seq[j]

BusTypeOK ==
    /\ call \in Subscriptions
    /\ gQueue \in Subscriptions \cup {NoQueue}
    /\ notified \in Nat
    /\ undecoded \subseteq 1 .. notified
    /\ queue \in [Subscriptions -> Seq(Positive)]
    /\ handling \in [Subscriptions -> Nat]
    /\ handled \in [Subscriptions -> Seq(Positive)]

\* A client thread that may notify finds a queue: receive sets it before C is
\* asked to subscribe.
QueueInv == clientThread \/ app = "clientSubscribe" => gQueue \in Subscriptions

OrderInv == \A s \in Subscriptions : Increasing(Taken(s))

BusInv == BusTypeOK /\ QueueInv /\ OrderInv /\ NothingLost

------------------------------------------------------------------------------
(* Sequences *)

LEMMA WaitingType ==
  ASSUME BusTypeOK, NEW s \in Subscriptions
  PROVE  Waiting(s) \in Seq(Positive) /\ Taken(s) \in Seq(Positive)
<1>1. CASE handling[s] = 0
  BY <1>1 DEF BusTypeOK, Waiting, Taken
<1>2. CASE handling[s] # 0
  <2>1. <<handling[s]>> \in Seq(Positive)
    BY <1>2 DEF BusTypeOK, Positive
  <2> QED BY <1>2, <2>1 DEF BusTypeOK, Waiting, Taken
<1> QED BY <1>1, <1>2

LEMMA ConcatAppend ==
  ASSUME NEW S, NEW s \in Seq(S), NEW t \in Seq(S), NEW x \in S
  PROVE  s \o Append(t, x) = Append(s \o t, x)
OBVIOUS

LEMMA AppendConcat ==
  ASSUME NEW S, NEW s \in Seq(S), NEW t \in Seq(S), NEW x \in S
  PROVE  Append(s, x) \o t = s \o (<<x>> \o t)
OBVIOUS

LEMMA AppendElements ==
  ASSUME NEW S, NEW s \in Seq(S), NEW x \in S
  PROVE  Elements(Append(s, x)) = Elements(s) \cup {x}
<1>1. \A i \in 1 .. Len(Append(s, x)) :
         Append(s, x)[i] = IF i = Len(s) + 1 THEN x ELSE s[i]
  OBVIOUS
<1>2. Len(Append(s, x)) = Len(s) + 1
  OBVIOUS
<1>3. ASSUME NEW e \in Elements(Append(s, x)) PROVE e \in Elements(s) \cup {x}
  BY <1>1, <1>2, <1>3 DEF Elements
<1>4. ASSUME NEW e \in Elements(s) PROVE e \in Elements(Append(s, x))
  <2>1. PICK i \in 1 .. Len(s) : e = s[i]  BY <1>4 DEF Elements
  <2>2. i \in 1 .. Len(Append(s, x)) /\ Append(s, x)[i] = e  BY <1>1, <1>2, <2>1
  <2> QED BY <2>2 DEF Elements
<1>5. x \in Elements(Append(s, x))
  <2>1. Len(s) + 1 \in 1 .. Len(Append(s, x)) /\ Append(s, x)[Len(s) + 1] = x
    BY <1>1, <1>2
  <2> QED BY <2>1 DEF Elements
<1> QED BY <1>3, <1>4, <1>5

LEMMA AppendIncreasing ==
  ASSUME NEW s \in Seq(Positive), Increasing(s), NEW x \in Positive,
         \A e \in Elements(s) : e < x
  PROVE  Increasing(Append(s, x))
<1> SUFFICES ASSUME NEW i \in 1 .. Len(Append(s, x)), NEW j \in 1 .. Len(Append(s, x)), i < j
             PROVE  Append(s, x)[i] < Append(s, x)[j]
  BY DEF Increasing
<1>1. i \in 1 .. Len(s) /\ Append(s, x)[i] = s[i]
  OBVIOUS
<1>2. CASE j = Len(s) + 1
  BY <1>1, <1>2 DEF Elements
<1>3. CASE j # Len(s) + 1
  BY <1>1, <1>3 DEF Increasing
<1> QED BY <1>2, <1>3

------------------------------------------------------------------------------
(* Steps *)

\* A step that leaves every Taken as it is, and counts nothing.
LEMMA NothingTaken ==
  ASSUME BusInv, BusTypeOK', QueueInv', \A s \in Subscriptions : Taken(s)' = Taken(s),
         UNCHANGED <<notified, undecoded>>
  PROVE  BusInv'
<1>1. OrderInv'  BY DEF BusInv, OrderInv
<1>2. NothingLost'
  BY DEF BusInv, NothingLost, Taken
<1> QED BY <1>1, <1>2 DEF BusInv

LEMMA ApplicationStep ==
  ASSUME BusInv, Application
  PROVE  BusInv'
<1> USE DEF Application, ContextCreate, ServerContextCreateFails, ClientContextCreateCrashes,
        Subscribe, Receive, ClientSubscribe, ClientSubscribeFails, ContextDestroy,
        appVars, threadVars
<1>1. UNCHANGED <<notified, undecoded, queue, handling, handled>>
  OBVIOUS
<1>2. BusTypeOK'
  BY <1>1 DEF BusInv, BusTypeOK
<1>3. QueueInv'
  BY DEF BusInv, BusTypeOK, QueueInv
<1>4. \A s \in Subscriptions : Taken(s)' = Taken(s)
  BY <1>1 DEF Taken, Waiting
<1> QED BY <1>1, <1>2, <1>3, <1>4, NothingTaken

LEMMA CbFuncStep ==
  ASSUME BusInv, CbFunc
  PROVE  BusInv'
<1> DEFINE m == notified + 1
<1>1. /\ gQueue \in Subscriptions /\ m \in Positive /\ notified' = m
      /\ queue' = [s \in Subscriptions |-> IF s = gQueue THEN Append(queue[s], m) ELSE queue[s]]
      /\ UNCHANGED <<app, call, gQueue, clientThread, undecoded, handling, handled>>
  BY DEF BusInv, BusTypeOK, QueueInv, CbFunc, Positive, appVars
<1>2. BusTypeOK'
  <2>1. \A s \in Subscriptions : Append(queue[s], m) \in Seq(Positive)
    BY <1>1 DEF BusInv, BusTypeOK
  <2> QED BY <1>1, <2>1 DEF BusInv, BusTypeOK
<1>3. QueueInv'
  BY <1>1 DEF BusInv, QueueInv
<1>4. \A s \in Subscriptions :
         /\ Taken(s) \in Seq(Positive)
         /\ Taken(s)' = IF s = gQueue THEN Append(Taken(s), m) ELSE Taken(s)
  <2> TAKE s \in Subscriptions
  <2>1. BusTypeOK  BY DEF BusInv
  <2>2. Waiting(s) \in Seq(Positive) /\ Taken(s) \in Seq(Positive)
    BY <2>1, WaitingType
  <2>3. CASE s # gQueue
    BY <1>1, <2>2, <2>3 DEF Taken, Waiting
  <2>4. CASE s = gQueue
    <3>1. queue'[s] = Append(queue[s], m)  BY <1>1, <2>4
    <3>2. Waiting(s)' = Append(Waiting(s), m)
      <4>1. CASE handling[s] = 0
        <5>1. Waiting(s) = <<>> \o queue[s] /\ Waiting(s)' = <<>> \o Append(queue[s], m)
          BY <1>1, <3>1, <4>1 DEF Waiting
        <5> QED BY <1>1, <2>1, <5>1, ConcatAppend DEF BusTypeOK
      <4>2. CASE handling[s] # 0
        <5>1. /\ Waiting(s) = <<handling[s]>> \o queue[s]
              /\ Waiting(s)' = <<handling[s]>> \o Append(queue[s], m)
          BY <1>1, <3>1, <4>2 DEF Waiting
        <5>2. <<handling[s]>> \in Seq(Positive) /\ queue[s] \in Seq(Positive)
          BY <2>1, <4>2 DEF BusTypeOK, Positive
        <5> QED BY <1>1, <5>1, <5>2, ConcatAppend
      <4> QED BY <4>1, <4>2
    <3>3. Taken(s)' = handled[s] \o Append(Waiting(s), m)
      BY <1>1, <3>2 DEF Taken
    <3>4. handled[s] \in Seq(Positive)
      BY <2>1 DEF BusTypeOK
    <3>5. handled[s] \o Append(Waiting(s), m) = Append(handled[s] \o Waiting(s), m)
      <4> DEFINE h == handled[s]
                 w == Waiting(s)
      <4>1. h \in Seq(Positive) /\ w \in Seq(Positive) /\ m \in Positive
        BY <1>1, <2>2, <3>4
      <4>2. h \o Append(w, m) = Append(h \o w, m)
        <5> HIDE DEF h, w, m
        <5> QED BY <4>1, ConcatAppend
      <4> QED BY <4>2
    <3>6. Taken(s) = handled[s] \o Waiting(s)
      BY DEF Taken
    <3> QED BY <2>2, <2>4, <3>3, <3>5, <3>6
  <2> QED BY <2>3, <2>4
<1>5. \A s \in Subscriptions : Elements(Taken(s)) \subseteq 1 .. notified
  BY DEF BusInv, NothingLost, Taken
<1>6. OrderInv'
  <2> SUFFICES ASSUME NEW s \in Subscriptions PROVE Increasing(Taken(s)')
    BY DEF OrderInv, Increasing
  <2>1. Increasing(Taken(s))
    BY DEF BusInv, OrderInv
  <2>2. \A e \in Elements(Taken(s)) : e < m
    BY <1>5 DEF BusInv, BusTypeOK
  <2> QED BY <1>1, <1>4, <2>1, <2>2, AppendIncreasing
<1>7. \A s \in Subscriptions :
         Elements(Taken(s)') = IF s = gQueue THEN Elements(Taken(s)) \cup {m} ELSE Elements(Taken(s))
  <2> TAKE s \in Subscriptions
  <2>1. Taken(s) \in Seq(Positive)  BY <1>4
  <2>2. Elements(Append(Taken(s), m)) = Elements(Taken(s)) \cup {m}
    BY <1>1, <2>1, AppendElements
  <2> QED BY <1>4, <2>2
<1>8. m \notin undecoded /\ 1 .. m = (1 .. notified) \cup {m} /\ m \notin 1 .. notified
  BY DEF BusInv, BusTypeOK
<1>9. NothingLost'
  <2>1. (1 .. notified) \ undecoded = UNION {Elements(Taken(s)) : s \in Subscriptions}
    BY DEF BusInv, NothingLost, Taken
  <2>2. UNION {Elements(Taken(s)') : s \in Subscriptions}
           = (UNION {Elements(Taken(s)) : s \in Subscriptions}) \cup {m}
    <3>1. gQueue \in Subscriptions  BY <1>1
    <3> HIDE DEF m
    <3> QED BY <3>1, <1>7
  <2>3. (1 .. notified') \ undecoded' = UNION {Elements(Taken(s)') : s \in Subscriptions}
    BY <1>1, <1>8, <2>1, <2>2
  <2>4. \A s, r \in Subscriptions :
           s # r => Elements(Taken(s)') \cap Elements(Taken(r)') = {}
    <3>1. \A s, r \in Subscriptions : s # r => Elements(Taken(s)) \cap Elements(Taken(r)) = {}
      BY DEF BusInv, NothingLost, Taken
    <3> HIDE DEF m
    <3> QED BY <1>5, <1>7, <1>8, <3>1
  <2> QED BY <2>3, <2>4 DEF NothingLost, Taken
<1> QED BY <1>2, <1>3, <1>6, <1>9 DEF BusInv

LEMMA CbFuncRaisesStep ==
  ASSUME BusInv, CbFuncRaises
  PROVE  BusInv'
<1>1. /\ notified' = notified + 1 /\ undecoded' = undecoded \cup {notified + 1}
      /\ notified \in Nat /\ undecoded \subseteq 1 .. notified
      /\ UNCHANGED <<app, call, gQueue, clientThread, queue, handling, handled>>
  BY DEF BusInv, BusTypeOK, CbFuncRaises, appVars
<1>2. BusTypeOK' /\ QueueInv'
  BY <1>1 DEF BusInv, BusTypeOK, QueueInv
<1>3. \A s \in Subscriptions : Taken(s)' = Taken(s)
  BY <1>1 DEF Taken, Waiting
<1>4. OrderInv'
  BY <1>3 DEF BusInv, OrderInv
<1>5. (1 .. notified') \ undecoded' = (1 .. notified) \ undecoded
  BY <1>1
<1>6. NothingLost'
  BY <1>3, <1>5 DEF BusInv, NothingLost, Taken
<1> QED BY <1>2, <1>4, <1>6 DEF BusInv

LEMMA WorkerStep ==
  ASSUME BusInv, NEW s \in Subscriptions, Worker(s)
  PROVE  BusInv'
<1>0. BusTypeOK
  BY DEF BusInv
<1>1. UNCHANGED <<app, call, gQueue, clientThread, notified, undecoded>>
  BY DEF Worker, WorkerTakes, WorkerCalls, appVars
<1>2. QueueInv'
  BY <1>1 DEF BusInv, QueueInv
<1>3. CASE WorkerTakes(s)
  <2>1. /\ queue[s] \in Seq(Positive) /\ queue[s] # <<>> /\ handling[s] = 0
        /\ handling' = [handling EXCEPT ![s] = Head(queue[s])]
        /\ queue' = [queue EXCEPT ![s] = Tail(queue[s])]
        /\ handled' = handled
    BY <1>0, <1>3 DEF BusTypeOK, WorkerTakes
  <2>2. /\ Head(queue[s]) \in Positive /\ Tail(queue[s]) \in Seq(Positive)
        /\ queue[s] = <<Head(queue[s])>> \o Tail(queue[s])
    BY <2>1, HeadTailProperties
  <2>3. BusTypeOK'
    BY <1>0, <1>1, <2>1, <2>2 DEF BusTypeOK, Positive
  <2>4. \A r \in Subscriptions : Waiting(r)' = Waiting(r)
    <3> TAKE r \in Subscriptions
    <3>1. CASE r = s
      <4>1. handling'[s] = Head(queue[s]) /\ handling'[s] # 0 /\ queue'[s] = Tail(queue[s])
        BY <1>0, <2>1, <2>2 DEF BusTypeOK, Positive
      <4>2. Waiting(s)' = <<Head(queue[s])>> \o Tail(queue[s])
        BY <4>1 DEF Waiting
      <4>3. Waiting(s) = queue[s]
        BY <2>1 DEF Waiting
      <4> QED BY <2>2, <3>1, <4>2, <4>3
    <3>2. CASE r # s
      BY <1>0, <2>1, <3>2 DEF BusTypeOK, Waiting
    <3> QED BY <3>1, <3>2
  <2>5. \A r \in Subscriptions : Taken(r)' = Taken(r)
    BY <2>1, <2>4 DEF Taken
  <2> QED BY <1>1, <1>2, <2>3, <2>5, NothingTaken
<1>4. CASE WorkerCalls(s)
  <2>1. /\ handling[s] \in Positive /\ handled[s] \in Seq(Positive) /\ queue[s] \in Seq(Positive)
        /\ handling' = [handling EXCEPT ![s] = 0]
        /\ handled' = [handled EXCEPT ![s] = Append(handled[s], handling[s])]
        /\ queue' = queue
    BY <1>0, <1>4 DEF BusTypeOK, WorkerCalls, Positive
  <2>2. BusTypeOK'
    <3>1. Append(handled[s], handling[s]) \in Seq(Positive)
      BY <2>1
    <3> QED BY <1>0, <1>1, <2>1, <3>1 DEF BusTypeOK
  <2>3. \A r \in Subscriptions : Taken(r)' = Taken(r)
    <3> TAKE r \in Subscriptions
    <3>1. CASE r = s
      <4>1. handling'[s] = 0 /\ handled'[s] = Append(handled[s], handling[s]) /\ handling[s] # 0
        BY <1>0, <2>1 DEF BusTypeOK, Positive
      <4>2. Taken(s)' = Append(handled[s], handling[s]) \o queue[s]
        <5>1. Waiting(s)' = queue[s]
          BY <2>1, <4>1 DEF Waiting
        <5> QED BY <4>1, <5>1 DEF Taken
      <4>3. Taken(s) = handled[s] \o (<<handling[s]>> \o queue[s])
        BY <4>1 DEF Taken, Waiting
      <4>4. Append(handled[s], handling[s]) \o queue[s]
               = handled[s] \o (<<handling[s]>> \o queue[s])
        BY <2>1, AppendConcat
      <4> QED BY <3>1, <4>2, <4>3, <4>4
    <3>2. CASE r # s
      BY <1>0, <2>1, <3>2 DEF BusTypeOK, Taken, Waiting
    <3> QED BY <3>1, <3>2
  <2> QED BY <1>1, <1>2, <2>2, <2>3, NothingTaken
<1> QED BY <1>3, <1>4 DEF Worker

LEMMA InitBus == BusInit => BusInv
<1> SUFFICES ASSUME BusInit PROVE BusInv
  OBVIOUS
<1>1. <<>> \in Seq(Positive)
  OBVIOUS
<1>2. BusTypeOK /\ QueueInv
  BY <1>1 DEF BusInit, BusTypeOK, QueueInv
<1>3. \A s \in Subscriptions : Taken(s) = <<>>
  BY DEF BusInit, Taken, Waiting
<1>4. Elements(<<>>) = {} /\ Increasing(<<>>)
  BY DEF Elements, Increasing
<1>5. (1 .. notified) \ undecoded = {}
  BY DEF BusInit
<1>6. NothingLost
  BY <1>3, <1>4, <1>5 DEF NothingLost, Taken
<1> QED BY <1>2, <1>3, <1>4, <1>6 DEF BusInv, OrderInv

LEMMA BusInvariant == BusSpec => []BusInv
<1>1. BusInv /\ [BusNext]_busVars => BusInv'
  <2> SUFFICES ASSUME BusInv, [BusNext]_busVars PROVE BusInv'
    OBVIOUS
  <2>1. CASE UNCHANGED busVars
    <3>1. BusTypeOK' /\ QueueInv'
      BY <2>1 DEF BusInv, BusTypeOK, QueueInv, busVars, appVars, threadVars
    <3>2. \A s \in Subscriptions : Taken(s)' = Taken(s)
      BY <2>1 DEF Taken, Waiting, busVars, threadVars
    <3> QED BY <2>1, <3>1, <3>2, NothingTaken DEF busVars, threadVars
  <2> QED BY <2>1, ApplicationStep, CbFuncStep, CbFuncRaisesStep, WorkerStep DEF BusNext
<1> QED BY <1>1, InitBus, PTL DEF BusSpec

\* NothingLost: however subscribe races the client thread, fails or is called
\* again, every notification that can be decoded is with exactly one call.
THEOREM NotificationsAreKept == BusSpec => []NothingLost
<1>1. BusInv => NothingLost
  BY DEF BusInv
<1> QED BY <1>1, BusInvariant, PTL

\* HandledInOrder: a callback is called in the order of the notifications and
\* at most once with each.
THEOREM CallbacksInOrder == BusSpec => []HandledInOrder
<1>1. BusInv => HandledInOrder
  BY DEF BusInv, OrderInv, Increasing, Taken, HandledInOrder
<1> QED BY <1>1, BusInvariant, PTL

==============================================================================
