------------------------ MODULE PublishSubscribeProofs ------------------------
(***************************************************************************)
(* Theorems about PublishSubscribe, for any number of topics, publishes    *)
(* and notifications in flight.                                            *)
(***************************************************************************)
EXTENDS PublishSubscribe, ServerPublishProofs, SequenceTheorems

Notifications == [node : NodeIds, value : Values]

\* What TypeOKAll says beyond TypeOK.
SubscriberTypeOK ==
    /\ published \in 0 .. MaxPublishes
    /\ written \in [NodeIds -> Values]
    /\ monitored \subseteq nodes
    /\ lastSample \in [NodeIds -> Values]
    /\ pending \in [NodeIds -> Values \cup {NoData}]
    /\ inFlight \in Seq(Notifications) /\ Len(inFlight) <= MaxInFlight
    /\ received \in [NodeIds -> Values]
    /\ clientUp \in BOOLEAN

TypeInvAll == TypeInv /\ SubscriberTypeOK

------------------------------------------------------------------------------
(* Types *)

LEMMA StepOfPublish == [NextAll]_allVars => [Next]_vars
<1> SUFFICES ASSUME [NextAll]_allVars PROVE [Next]_vars
  OBVIOUS
<1>1. ASSUME NEW p \in Publishers, CallNumbered(p) \/ PublishStep(p) PROVE [Next]_vars
  BY <1>1 DEF CallNumbered, PublishStep, Next
<1>2. CASE ServerStep
  BY <1>2 DEF ServerStep, CreateMonitoredItem, Sample, SendNotification, Next
<1>3. CASE SubscriptionCallback \/ SubscriptionCallbackCrashes
  BY <1>3 DEF SubscriptionCallback, SubscriptionCallbackCrashes
<1>4. CASE UNCHANGED allVars
  BY <1>4 DEF allVars
<1> QED BY <1>1, <1>2, <1>3, <1>4 DEF NextAll

\* The composition drives serverPublish and the server thread only by the steps
\* of ServerPublish, so that module's theorems hold of it.
THEOREM SubscribeImplementsPublish == SpecAll => Spec
<1>1. InitAll => Init
  BY DEF InitAll
<1> QED BY <1>1, StepOfPublish, PTL DEF SpecAll, Spec

LEMMA NodesStay ==
  ASSUME TypeInv, [Next]_vars
  PROVE  nodes \subseteq nodes'
<1>1. ASSUME NEW p \in Publishers, Publish(p) PROVE nodes \subseteq nodes'
  <2>1. CASE AddNode(p)
    BY <2>1 DEF AddNode
  <2>2. CASE ~AddNode(p)
    BY <1>1, <2>2 DEF Publish, CheckContext, MallocContext, GetNamespaceByName, AddNamespace,
       AddNamespaceFails, GetNodeContext, CompareContext, AddNodeFails, CopyHead, CopyTail,
       LockServer, WriteValue, serverVars
  <2> QED BY <2>1, <2>2
<1>2. ASSUME NEW p \in Publishers, Call(p) PROVE nodes \subseteq nodes'
  BY <1>2 DEF Call, serverVars
<1>3. CASE ServerThread
  BY <1>3 DEF ServerThread, ServerLocks, ServerUnlocks, serverVars
<1>4. CASE UNCHANGED vars
  BY <1>4 DEF vars, serverVars
<1> QED BY <1>1, <1>2, <1>3, <1>4 DEF Next

LEMMA PayloadTypes ==
  ASSUME TypeInv, NEW p \in Publishers
  PROVE  Payload(p) \in Payloads
BY DEF TypeInv, TypeOK, Payload, Payloads, Requests, Topic

LEMMA DataType == TypeInv => dataToPublish \in Values
BY DEF TypeInv, TypeOK, Values

LEMMA EnqueueTypes ==
  ASSUME SubscriberTypeOK, NEW n \in NodeIds, NEW value \in Values, Enqueue(n, value)
  PROVE  /\ lastSample' \in [NodeIds -> Values]
         /\ pending' \in [NodeIds -> Values \cup {NoData}]
BY DEF SubscriberTypeOK, Enqueue

LEMMA NextTypesAll == TypeInvAll /\ [NextAll]_allVars => TypeInvAll'
<1> SUFFICES ASSUME TypeInvAll, [NextAll]_allVars PROVE TypeInvAll'
  OBVIOUS
<1>0. TypeInv' /\ nodes \subseteq nodes'
  BY StepOfPublish, NextTypeInv, NodesStay DEF TypeInvAll
<1> USE DEF SubscriberTypeOK, clientVars
<1>1. ASSUME NEW p \in Publishers, CallNumbered(p) PROVE SubscriberTypeOK'
  BY <1>0, <1>1, MessagesAreNumbers DEF TypeInvAll, CallNumbered
<1>2. ASSUME NEW p \in Publishers, PublishStep(p) PROVE SubscriberTypeOK'
  <2>1. [head |-> Payload(p), tail |-> Payload(p)] \in Values
    BY PayloadTypes DEF TypeInvAll, Values
  <2>2. written' \in [NodeIds -> Values]
    BY <1>2, <2>1 DEF TypeInvAll, PublishStep
  <2> QED BY <1>0, <1>2, <2>2 DEF TypeInvAll, PublishStep
<1>3. CASE ServerThread /\ UNCHANGED <<published, written, clientVars>>
  BY <1>0, <1>3 DEF TypeInvAll
<1>4. ASSUME NEW n \in NodeIds, CreateMonitoredItem(n) PROVE SubscriberTypeOK'
  <2>1. Enqueue(n, dataToPublish) /\ UNCHANGED vars
    BY <1>4 DEF CreateMonitoredItem, ReadValue
  <2>2. lastSample' \in [NodeIds -> Values] /\ pending' \in [NodeIds -> Values \cup {NoData}]
    BY <2>1, DataType, EnqueueTypes DEF TypeInvAll
  <2> QED BY <1>0, <1>4, <2>2 DEF TypeInvAll, CreateMonitoredItem
<1>5. ASSUME NEW n \in NodeIds, Sample(n) PROVE SubscriberTypeOK'
  <2>1. Enqueue(n, dataToPublish)
    BY <1>5 DEF Sample, ReadValue
  <2>2. lastSample' \in [NodeIds -> Values] /\ pending' \in [NodeIds -> Values \cup {NoData}]
    BY <2>1, DataType, EnqueueTypes DEF TypeInvAll
  <2> QED BY <1>0, <1>5, <2>2 DEF TypeInvAll, Sample
<1>6. ASSUME NEW n \in NodeIds, SendNotification(n) PROVE SubscriberTypeOK'
  <2>1. [node |-> n, value |-> pending[n]] \in Notifications
    BY <1>6 DEF TypeInvAll, SendNotification, Notifications
  <2>2. inFlight' \in Seq(Notifications) /\ Len(inFlight') <= MaxInFlight
    <3>1. inFlight' = Append(inFlight, [node |-> n, value |-> pending[n]])
          /\ Len(inFlight) < MaxInFlight /\ inFlight \in Seq(Notifications)
      BY <1>6 DEF TypeInvAll, SendNotification
    <3> QED BY <2>1, <3>1, InFlightIsBounded
  <2>3. pending' \in [NodeIds -> Values \cup {NoData}]
    BY <1>6 DEF TypeInvAll, SendNotification
  <2> QED BY <1>0, <1>6, <2>2, <2>3 DEF TypeInvAll, SendNotification
<1>7. ASSUME inFlight # <<>>, inFlight' = Tail(inFlight), TypeInvAll
      PROVE  inFlight' \in Seq(Notifications) /\ Len(inFlight') <= MaxInFlight
  <2>1. inFlight \in Seq(Notifications) /\ Len(inFlight) <= MaxInFlight
    BY <1>7 DEF TypeInvAll
  <2> QED BY <1>7, <2>1, InFlightIsBounded, HeadTailProperties
<1>8. CASE SubscriptionCallback
  <2>1. Head(inFlight) \in Notifications
    BY <1>8, HeadTailProperties DEF TypeInvAll, SubscriptionCallback
  <2>2. received' \in [NodeIds -> Values]
    BY <1>8, <2>1 DEF TypeInvAll, SubscriptionCallback, Notifications
  <2>3. inFlight' \in Seq(Notifications) /\ Len(inFlight') <= MaxInFlight
    BY <1>7, <1>8 DEF SubscriptionCallback
  <2> QED BY <1>0, <1>8, <2>2, <2>3 DEF TypeInvAll, SubscriptionCallback
<1>9. CASE SubscriptionCallbackCrashes
  <2>1. inFlight' \in Seq(Notifications) /\ Len(inFlight') <= MaxInFlight
    BY <1>7, <1>9 DEF SubscriptionCallbackCrashes
  <2> QED BY <1>0, <1>9, <2>1 DEF TypeInvAll, SubscriptionCallbackCrashes
<1>10. CASE UNCHANGED allVars
  BY <1>0, <1>10 DEF TypeInvAll, allVars
<1> QED
  BY <1>0, <1>1, <1>2, <1>3, <1>4, <1>5, <1>6, <1>8, <1>9, <1>10
  DEF NextAll, ServerStep, TypeInvAll

LEMMA InitTypesAll == InitAll => TypeInvAll
<1>1. Nothing \in Values
  BY DEF Nothing, Values
<1>2. <<>> \in Seq(Notifications) /\ Len(<<>>) = 0
  OBVIOUS
<1>3. InitAll => SubscriberTypeOK
  BY <1>1, <1>2, MessagesAreNumbers, InFlightIsBounded DEF InitAll, SubscriberTypeOK
<1> QED BY <1>3, InitTypeInv DEF InitAll, TypeInvAll

LEMMA TypeInvariantAll == SpecAll => []TypeInvAll
BY InitTypesAll, NextTypesAll, PTL DEF SpecAll

\* TypeOKAll: every variable keeps its type; only nodes that exist are
\* monitored, and no more notifications are in flight than the bound.
THEOREM TypeCorrectAll == SpecAll => []TypeOKAll
<1>1. TypeInvAll => TypeOKAll
  BY DEF TypeInvAll, TypeInv, SubscriberTypeOK, TypeOKAll, Notifications
<1> QED BY <1>1, TypeInvariantAll, PTL

------------------------------------------------------------------------------
(* The order of values *)

\* Neither part of v is from a later publish than the same part of w.
NotNewer(v, w) == Number(v.head) <= Number(w.head) /\ Number(v.tail) <= Number(w.tail)

OnePublisher == \A p, q \in Publishers : p = q

\* What is in the shared string is from a call made, and a call in progress is
\* the last one made.
DataInv ==
    /\ Number(dataToPublish.head) <= published
    /\ Number(dataToPublish.tail) <= published
    /\ \A p \in Publishers : pc[p] # "idle" => request[p].msg = published

\* The values of a node, from what the client has to what is sampled next.
OrderInv ==
    /\ \A n \in NodeIds :
          /\ NotNewer(lastSample[n], dataToPublish)
          /\ pending[n] # NoData => pending[n] = lastSample[n]
          /\ NotNewer(received[n], lastSample[n])
    /\ \A i \in 1 .. Len(inFlight) :
          /\ NotNewer(inFlight[i].value, lastSample[inFlight[i].node])
          /\ NotNewer(received[inFlight[i].node], inFlight[i].value)
    /\ \A i, j \in 1 .. Len(inFlight) :
          i < j /\ inFlight[i].node = inFlight[j].node =>
             NotNewer(inFlight[i].value, inFlight[j].value)

LEMMA NumberType ==
  ASSUME NEW part \in Payloads \cup {NoData}
  PROVE  Number(part) \in Nat
BY MessagesAreNumbers DEF Number, Payloads

LEMMA NotNewerOrder ==
  /\ \A v \in Values : NotNewer(v, v)
  /\ \A u, v, w \in Values : NotNewer(u, v) /\ NotNewer(v, w) => NotNewer(u, w)
<1>1. \A v \in Values : Number(v.head) \in Nat /\ Number(v.tail) \in Nat
  BY NumberType DEF Values
<1> QED BY <1>1 DEF NotNewer

\* One step of the publisher puts in the string only what is newer.
LEMMA PublishData ==
  ASSUME TypeInvAll, DataInv, OnePublisher, NEW p \in Publishers, PublishStep(p)
  PROVE  DataInv' /\ NotNewer(dataToPublish, dataToPublish')
<1> USE DEF DataInv, Goto
<1>0. /\ pc \in [Publishers -> Labels] /\ request \in [Publishers -> Requests]
      /\ dataToPublish \in Values /\ published \in Nat
      /\ published' = published /\ request' = request
  BY DEF TypeInvAll, TypeInv, TypeOK, SubscriberTypeOK, Values, PublishStep, Publish,
     CheckContext, MallocContext, GetNamespaceByName, AddNamespace, AddNamespaceFails,
     GetNodeContext, CompareContext, AddNode, AddNodeFails, CopyHead, CopyTail,
     LockServer, WriteValue
<1>1. pc[p] # "idle" /\ \A q \in Publishers : q = p
  BY DEF OnePublisher, PublishStep, Publish, CheckContext, MallocContext, GetNamespaceByName,
     AddNamespace, AddNamespaceFails, GetNodeContext, CompareContext, AddNode, AddNodeFails,
     CopyHead, CopyTail, LockServer, WriteValue
<1>2. Payload(p) \in Payloads /\ Number(Payload(p)) = published
  <2>1. Payload(p) \in Payloads /\ Payload(p) # NoData
    BY PayloadTypes, NoDataIsNoPayload DEF TypeInvAll
  <2>2. Payload(p).msg = request[p].msg
    BY DEF Payload
  <2> QED BY <1>1, <2>1, <2>2 DEF Number
<1>3. Number(dataToPublish.head) \in Nat /\ Number(dataToPublish.tail) \in Nat
  BY <1>0, NumberType DEF Values
<1>4. CASE CopyHead(p)
  <2>1. /\ dataToPublish'.head \in {dataToPublish.head, Payload(p)}
        /\ dataToPublish'.tail = dataToPublish.tail
    BY <1>0, <1>4 DEF CopyHead, Values
  <2>2. NotNewer(dataToPublish, dataToPublish')
    BY <1>0, <1>2, <1>3, <2>1 DEF NotNewer
  <2> QED BY <1>0, <1>1, <1>2, <1>3, <2>1, <2>2
<1>5. CASE CopyTail(p)
  <2>1. /\ dataToPublish'.tail = Payload(p) /\ dataToPublish'.head = dataToPublish.head
    BY <1>0, <1>5 DEF CopyTail, Values
  <2>2. NotNewer(dataToPublish, dataToPublish')
    BY <1>0, <1>2, <1>3, <2>1 DEF NotNewer
  <2> QED BY <1>0, <1>1, <1>2, <1>3, <2>1, <2>2
<1>6. CASE ~CopyHead(p) /\ ~CopyTail(p)
  <2>1. dataToPublish' = dataToPublish
    BY <1>6 DEF PublishStep, Publish, CheckContext, MallocContext, GetNamespaceByName,
       AddNamespace, AddNamespaceFails, GetNodeContext, CompareContext, AddNode, AddNodeFails,
       LockServer, WriteValue
  <2>2. NotNewer(dataToPublish, dataToPublish')
    BY <1>0, <2>1, NotNewerOrder
  <2> QED BY <1>0, <1>1, <2>1, <2>2
<1> QED BY <1>4, <1>5, <1>6

LEMMA PublisherOrder ==
  ASSUME TypeInvAll, OrderInv, dataToPublish' \in Values,
         NotNewer(dataToPublish, dataToPublish'), UNCHANGED clientVars
  PROVE  OrderInv'
<1>1. \A n \in NodeIds : lastSample[n] \in Values /\ dataToPublish \in Values
  BY DataType DEF TypeInvAll, SubscriberTypeOK
<1>2. \A n \in NodeIds : NotNewer(lastSample[n], dataToPublish')
  BY <1>1, NotNewerOrder DEF OrderInv
<1> QED BY <1>2 DEF OrderInv, clientVars

LEMMA InFlightTypes ==
  ASSUME TypeInvAll, NEW i \in 1 .. Len(inFlight)
  PROVE  /\ inFlight[i] \in Notifications
         /\ inFlight[i].node \in NodeIds /\ inFlight[i].value \in Values
<1>1. inFlight[i] \in Notifications
  BY DEF TypeInvAll, SubscriberTypeOK
<1> QED BY <1>1 DEF Notifications

LEMMA EnqueueOrder ==
  ASSUME TypeInvAll, OrderInv, NEW n \in NodeIds, Enqueue(n, dataToPublish),
         UNCHANGED <<dataToPublish, inFlight, received>>
  PROVE  OrderInv'
<1>1. /\ dataToPublish \in Values
      /\ lastSample \in [NodeIds -> Values] /\ received \in [NodeIds -> Values]
      /\ pending \in [NodeIds -> Values \cup {NoData}]
  BY DataType DEF TypeInvAll, SubscriberTypeOK
<1>2. \A m \in NodeIds :
         /\ lastSample'[m] = IF m = n THEN dataToPublish ELSE lastSample[m]
         /\ pending'[m] = IF m = n THEN dataToPublish ELSE pending[m]
  BY <1>1 DEF Enqueue
<1>3. \A m \in NodeIds : NotNewer(lastSample[m], lastSample'[m]) /\ lastSample'[m] \in Values
  BY <1>1, <1>2, NotNewerOrder DEF OrderInv
<1>4. \A m \in NodeIds : NotNewer(received[m], lastSample'[m])
  BY <1>1, <1>3, NotNewerOrder DEF OrderInv
<1>5. \A i \in 1 .. Len(inFlight) : NotNewer(inFlight[i].value, lastSample'[inFlight[i].node])
  BY <1>1, <1>3, InFlightTypes, NotNewerOrder DEF OrderInv
<1>6. \A m \in NodeIds : NotNewer(lastSample'[m], dataToPublish)
  BY <1>1, <1>2, NotNewerOrder DEF OrderInv
<1> QED BY <1>2, <1>4, <1>5, <1>6 DEF OrderInv

LEMMA SendOrder ==
  ASSUME TypeInvAll, OrderInv, NEW n \in NodeIds, SendNotification(n)
  PROVE  OrderInv'
<1> DEFINE last == Len(inFlight) + 1
<1>1. /\ inFlight \in Seq(Notifications)
      /\ pending \in [NodeIds -> Values \cup {NoData}]
      /\ UNCHANGED <<dataToPublish, lastSample, received>>
      /\ pending[n] = lastSample[n] /\ pending[n] \in Values
      /\ inFlight' = Append(inFlight, [node |-> n, value |-> lastSample[n]])
      /\ pending' = [pending EXCEPT ![n] = NoData]
  BY DEF TypeInvAll, SubscriberTypeOK, OrderInv, SendNotification, vars
<1>2. /\ Len(inFlight') = last
      /\ \A i \in 1 .. Len(inFlight) : inFlight'[i] = inFlight[i]
      /\ inFlight'[last].node = n /\ inFlight'[last].value = lastSample[n]
  BY <1>1
<1>3. \A m \in NodeIds : pending'[m] # NoData => pending'[m] = lastSample[m]
  BY <1>1 DEF OrderInv
<1>4. \A i \in 1 .. Len(inFlight') :
         /\ NotNewer(inFlight'[i].value, lastSample[inFlight'[i].node])
         /\ NotNewer(received[inFlight'[i].node], inFlight'[i].value)
  <2> TAKE i \in 1 .. Len(inFlight')
  <2>1. CASE i = last
    BY <1>1, <1>2, <2>1, NotNewerOrder DEF OrderInv
  <2>2. CASE i # last
    <3>1. i \in 1 .. Len(inFlight)  BY <1>1, <1>2, <2>2
    <3> QED BY <1>2, <3>1 DEF OrderInv
  <2> QED BY <2>1, <2>2
<1>5. \A i, j \in 1 .. Len(inFlight') :
         i < j /\ inFlight'[i].node = inFlight'[j].node =>
            NotNewer(inFlight'[i].value, inFlight'[j].value)
  <2> SUFFICES ASSUME NEW i \in 1 .. Len(inFlight'), NEW j \in 1 .. Len(inFlight'),
                      i < j, inFlight'[i].node = inFlight'[j].node
               PROVE  NotNewer(inFlight'[i].value, inFlight'[j].value)
    OBVIOUS
  <2>0. Len(inFlight) \in Nat /\ Len(inFlight') = Len(inFlight) + 1
    BY <1>1, <1>2
  <2>1. i \in 1 .. Len(inFlight)  BY <2>0
  <2>2. CASE j = last
    BY <1>2, <2>1, <2>2 DEF OrderInv
  <2>3. CASE j # last
    <3>1. j \in 1 .. Len(inFlight)  BY <2>0, <2>3
    <3> QED BY <1>2, <2>1, <3>1 DEF OrderInv
  <2> QED BY <2>2, <2>3
<1> QED BY <1>1, <1>3, <1>4, <1>5 DEF OrderInv

\* What is left in flight after the first notification was handled.
LEMMA TailOfInFlight ==
  ASSUME TypeInvAll, inFlight # <<>>, inFlight' = Tail(inFlight)
  PROVE  /\ 1 \in 1 .. Len(inFlight) /\ Head(inFlight) = inFlight[1]
         /\ \A i \in 1 .. Len(inFlight') :
               i + 1 \in 1 .. Len(inFlight) /\ inFlight'[i] = inFlight[i + 1]
BY HeadTailProperties DEF TypeInvAll, SubscriberTypeOK

LEMMA CallbackOrder ==
  ASSUME TypeInvAll, OrderInv, SubscriptionCallback
  PROVE  /\ OrderInv'
         /\ \A n \in NodeIds : NotNewer(received[n], received'[n])
<1> DEFINE n == Head(inFlight).node
           value == Head(inFlight).value
<1>1. /\ n \in NodeIds /\ value \in Values
      /\ n = inFlight[1].node /\ value = inFlight[1].value /\ 1 \in 1 .. Len(inFlight)
      /\ \A i \in 1 .. Len(inFlight') :
            i + 1 \in 1 .. Len(inFlight) /\ inFlight'[i] = inFlight[i + 1]
  BY TailOfInFlight, InFlightTypes DEF SubscriptionCallback
<1>2. /\ UNCHANGED <<dataToPublish, lastSample, pending>>
      /\ received \in [NodeIds -> Values]
      /\ received' = [received EXCEPT ![n] = value] \/ received' = received
      /\ inFlight \in Seq(Notifications) /\ inFlight' \in Seq(Notifications)
  <2>1. inFlight' \in Seq(Notifications)
    BY HeadTailProperties DEF TypeInvAll, SubscriberTypeOK, SubscriptionCallback
  <2> QED BY <2>1 DEF TypeInvAll, SubscriberTypeOK, SubscriptionCallback, vars
<1> HIDE DEF n, value
<1>3. \A m \in NodeIds : received'[m] = received[m] \/ (m = n /\ received'[m] = value)
  BY <1>1, <1>2
<1>4. \A m \in NodeIds : NotNewer(received[m], received'[m])
  BY <1>1, <1>2, <1>3, NotNewerOrder DEF OrderInv
<1>5. \A m \in NodeIds : NotNewer(received'[m], lastSample[m])
  BY <1>1, <1>3 DEF OrderInv
<1>6. \A i \in 1 .. Len(inFlight') :
         /\ NotNewer(inFlight'[i].value, lastSample[inFlight'[i].node])
         /\ NotNewer(received'[inFlight'[i].node], inFlight'[i].value)
  <2> TAKE i \in 1 .. Len(inFlight')
  <2>1. i + 1 \in 1 .. Len(inFlight) /\ inFlight'[i] = inFlight[i + 1] /\ 1 < i + 1
    BY <1>1
  <2>2. inFlight[i + 1].node \in NodeIds
    BY <2>1, InFlightTypes
  <2>3. inFlight[i + 1].node = n => NotNewer(value, inFlight[i + 1].value)
    BY <1>1, <2>1 DEF OrderInv
  <2> QED BY <1>3, <2>1, <2>2, <2>3 DEF OrderInv
<1>7. \A i, j \in 1 .. Len(inFlight') :
         i < j /\ inFlight'[i].node = inFlight'[j].node =>
            NotNewer(inFlight'[i].value, inFlight'[j].value)
  <2> SUFFICES ASSUME NEW i \in 1 .. Len(inFlight'), NEW j \in 1 .. Len(inFlight'),
                      i < j, inFlight'[i].node = inFlight'[j].node
               PROVE  NotNewer(inFlight'[i].value, inFlight'[j].value)
    OBVIOUS
  <2>1. i + 1 < j + 1  OBVIOUS
  <2> QED BY <1>1, <2>1 DEF OrderInv
<1> QED BY <1>2, <1>4, <1>5, <1>6, <1>7 DEF OrderInv

LEMMA CrashOrder ==
  ASSUME TypeInvAll, OrderInv, SubscriptionCallbackCrashes
  PROVE  OrderInv'
<1>1. \A i \in 1 .. Len(inFlight') :
         i + 1 \in 1 .. Len(inFlight) /\ inFlight'[i] = inFlight[i + 1]
  BY TailOfInFlight DEF SubscriptionCallbackCrashes
<1>2. UNCHANGED <<dataToPublish, lastSample, pending, received>>
  BY DEF SubscriptionCallbackCrashes, vars
<1>3. \A i, j \in 1 .. Len(inFlight') :
         i < j /\ inFlight'[i].node = inFlight'[j].node =>
            NotNewer(inFlight'[i].value, inFlight'[j].value)
  <2> SUFFICES ASSUME NEW i \in 1 .. Len(inFlight'), NEW j \in 1 .. Len(inFlight'),
                      i < j, inFlight'[i].node = inFlight'[j].node
               PROVE  NotNewer(inFlight'[i].value, inFlight'[j].value)
    OBVIOUS
  <2>1. i + 1 < j + 1  OBVIOUS
  <2> QED BY <1>1, <2>1 DEF OrderInv
<1> QED BY <1>1, <1>2, <1>3 DEF OrderInv

LEMMA NextOrder ==
  ASSUME OnePublisher
  PROVE  TypeInvAll /\ DataInv /\ OrderInv /\ [NextAll]_allVars => DataInv' /\ OrderInv'
<1> SUFFICES ASSUME TypeInvAll, DataInv, OrderInv, [NextAll]_allVars
             PROVE  DataInv' /\ OrderInv'
  OBVIOUS
<1>0. dataToPublish \in Values /\ dataToPublish' \in Values
  BY NextTypesAll, DataType DEF TypeInvAll, TypeInv, TypeOK, Values
<1>1. ASSUME NEW p \in Publishers, CallNumbered(p) PROVE DataInv' /\ OrderInv'
  <2>1. /\ dataToPublish' = dataToPublish /\ published' = published + 1 /\ published \in Nat
        /\ request'[p].msg = published' /\ UNCHANGED clientVars
    BY <1>1 DEF CallNumbered, Call, TypeInvAll, SubscriberTypeOK
  <2>2. Number(dataToPublish.head) \in Nat /\ Number(dataToPublish.tail) \in Nat
    BY <1>0, NumberType DEF Values
  <2>3. \A q \in Publishers : request'[q].msg = published'
    BY <2>1 DEF OnePublisher
  <2>4. DataInv'
    BY <2>1, <2>2, <2>3 DEF DataInv
  <2>5. OrderInv'
    BY <1>0, <2>1, NotNewerOrder, PublisherOrder
  <2> QED BY <2>4, <2>5
<1>2. ASSUME NEW p \in Publishers, PublishStep(p) PROVE DataInv' /\ OrderInv'
  BY <1>0, <1>2, PublishData, PublisherOrder DEF PublishStep
<1>3. ASSUME UNCHANGED <<pc, request, published, dataToPublish>> PROVE DataInv'
  BY <1>3 DEF DataInv
<1>4. CASE ServerThread /\ UNCHANGED <<published, written, clientVars>>
  <2>1. UNCHANGED <<pc, request, published, dataToPublish, clientVars>>
    BY <1>4 DEF ServerThread, ServerLocks, ServerUnlocks, callVars
  <2> QED BY <1>0, <1>3, <2>1, NotNewerOrder, PublisherOrder
<1>5. ASSUME NEW n \in NodeIds, CreateMonitoredItem(n) \/ Sample(n) PROVE DataInv' /\ OrderInv'
  <2>1. /\ Enqueue(n, dataToPublish)
        /\ UNCHANGED <<pc, request, published, dataToPublish, inFlight, received>>
    BY <1>5 DEF CreateMonitoredItem, Sample, ReadValue, vars, callVars
  <2> QED BY <1>3, <2>1, EnqueueOrder
<1>6. ASSUME NEW n \in NodeIds, SendNotification(n) PROVE DataInv' /\ OrderInv'
  <2>1. UNCHANGED <<pc, request, published, dataToPublish>>
    BY <1>6 DEF SendNotification, vars, callVars
  <2> QED BY <1>3, <1>6, <2>1, SendOrder
<1>7. CASE SubscriptionCallback
  <2>1. UNCHANGED <<pc, request, published, dataToPublish>>
    BY <1>7 DEF SubscriptionCallback, vars, callVars
  <2> QED BY <1>3, <1>7, <2>1, CallbackOrder
<1>8. CASE SubscriptionCallbackCrashes
  <2>1. UNCHANGED <<pc, request, published, dataToPublish>>
    BY <1>8 DEF SubscriptionCallbackCrashes, vars, callVars
  <2> QED BY <1>3, <1>8, <2>1, CrashOrder
<1>9. CASE UNCHANGED allVars
  <2>1. UNCHANGED <<pc, request, published, dataToPublish, clientVars>>
    BY <1>9 DEF allVars, vars, callVars
  <2> QED BY <1>0, <1>3, <2>1, NotNewerOrder, PublisherOrder
<1> QED
  BY <1>1, <1>2, <1>4, <1>5, <1>6, <1>7, <1>8, <1>9 DEF NextAll, ServerStep

LEMMA InitOrder == InitAll => DataInv /\ OrderInv
<1>1. Number(NoData) = 0
  BY DEF Number
<1>2. NotNewer(Nothing, Nothing)
  BY <1>1 DEF NotNewer, Nothing
<1> QED BY <1>1, <1>2 DEF InitAll, Init, DataInv, OrderInv, Nothing

\* NeverOlder: with one publisher, the subscriber of a node is never given data
\* older than what it has, however many topics share the one string, whenever
\* the server samples it and however many notifications are on their way.
THEOREM DataGrowsNewer ==
  ASSUME OnePublisher
  PROVE  SpecAll => NeverOlder
<1>1. TypeInvAll /\ OrderInv /\ [NextAll]_allVars =>
         [\A n \in NodeIds :
             /\ Number(received'[n].head) >= Number(received[n].head)
             /\ Number(received'[n].tail) >= Number(received[n].tail)]_received
  <2> SUFFICES ASSUME TypeInvAll, OrderInv, [NextAll]_allVars, received' # received,
                      NEW n \in NodeIds
               PROVE  /\ Number(received'[n].head) >= Number(received[n].head)
                      /\ Number(received'[n].tail) >= Number(received[n].tail)
    OBVIOUS
  <2>1. SubscriptionCallback
    BY DEF NextAll, CallNumbered, PublishStep, ServerStep, CreateMonitoredItem, Sample,
       SendNotification, SubscriptionCallbackCrashes, clientVars, allVars
  <2>2. NotNewer(received[n], received'[n])
    BY <2>1, CallbackOrder
  <2>3. /\ Number(received[n].head) \in Nat /\ Number(received[n].tail) \in Nat
        /\ Number(received'[n].head) \in Nat /\ Number(received'[n].tail) \in Nat
    BY NextTypesAll, NumberType DEF TypeInvAll, SubscriberTypeOK, Values
  <2> QED BY <2>2, <2>3 DEF NotNewer
<1>2. SpecAll => [](TypeInvAll /\ DataInv /\ OrderInv)
  BY InitTypesAll, InitOrder, NextTypesAll, NextOrder, PTL DEF SpecAll
<1> QED BY <1>1, <1>2, PTL DEF SpecAll, NeverOlder

------------------------------------------------------------------------------
(* No sample is lost *)

\* Where the last sample of a node is, past the node's queue.
Sent(n) == \E i \in 1 .. Len(inFlight) :
              /\ inFlight[i].node = n /\ inFlight[i].value = lastSample[n]
              /\ \A j \in 1 .. Len(inFlight) : inFlight[j].node = n => j <= i
Told(n) == /\ \A i \in 1 .. Len(inFlight) : inFlight[i].node # n
           /\ received[n] = lastSample[n] \/ ~Matches(lastSample[n], n[2]) \/ ~clientUp

\* The queue of a node holds nothing but its last sample.
WayInv ==
    /\ \A n \in monitored : pending[n] = lastSample[n] \/ Sent(n) \/ Told(n)
    /\ \A n \in NodeIds : pending[n] # NoData => pending[n] = lastSample[n]

LEMMA WayMeans ==
  ASSUME TypeInvAll, WayInv
  PROVE  SampleOnItsWay
<1>1. DOMAIN inFlight = 1 .. Len(inFlight)
  BY DEF TypeInvAll, SubscriberTypeOK
<1> QED BY <1>1 DEF WayInv, Sent, Told, SampleOnItsWay, IsLast

LEMMA EnqueueWay ==
  ASSUME TypeInvAll, WayInv, NEW n \in NodeIds, NEW value, Enqueue(n, value),
         monitored' \subseteq monitored \cup {n}, UNCHANGED <<inFlight, received, clientUp>>
  PROVE  WayInv'
<1>1. /\ lastSample'[n] = value /\ pending'[n] = value
      /\ \A m \in NodeIds : m # n => lastSample'[m] = lastSample[m] /\ pending'[m] = pending[m]
  BY DEF Enqueue, TypeInvAll, SubscriberTypeOK
<1>2. \A m \in NodeIds : m # n => (Sent(m) => Sent(m)') /\ (Told(m) => Told(m)')
  BY <1>1 DEF Sent, Told, Matches
<1>3. monitored \subseteq NodeIds
  BY DEF TypeInvAll, TypeInv, TypeOK, SubscriberTypeOK
<1> QED BY <1>1, <1>2, <1>3 DEF WayInv

LEMMA SendWay ==
  ASSUME TypeInvAll, WayInv, NEW n \in NodeIds, SendNotification(n)
  PROVE  WayInv'
<1> DEFINE last == Len(inFlight) + 1
<1>1. /\ inFlight \in Seq(Notifications) /\ pending \in [NodeIds -> Values \cup {NoData}]
      /\ UNCHANGED <<lastSample, monitored, received, clientUp>>
      /\ pending[n] = lastSample[n]
      /\ inFlight' = Append(inFlight, [node |-> n, value |-> lastSample[n]])
      /\ pending' = [pending EXCEPT ![n] = NoData]
  BY DEF TypeInvAll, SubscriberTypeOK, WayInv, SendNotification
<1>2. /\ Len(inFlight') = last /\ Len(inFlight) \in Nat
      /\ \A i \in 1 .. Len(inFlight) : inFlight'[i] = inFlight[i]
      /\ inFlight'[last].node = n /\ inFlight'[last].value = lastSample[n]
  BY <1>1
<1>3. Sent(n)'
  BY <1>1, <1>2 DEF Sent
<1>4. \A i \in 1 .. Len(inFlight') : i # last => i \in 1 .. Len(inFlight)
  BY <1>2
<1>5. \A m \in NodeIds : m # n => (Sent(m) => Sent(m)') /\ (Told(m) => Told(m)')
  <2> SUFFICES ASSUME NEW m \in NodeIds, m # n
               PROVE  (Sent(m) => Sent(m)') /\ (Told(m) => Told(m)')
    OBVIOUS
  <2> HIDE DEF last
  <2>1. ASSUME Told(m) PROVE Told(m)'
    BY <1>1, <1>2, <1>4, <2>1 DEF Told, Matches
  <2>2. ASSUME Sent(m) PROVE Sent(m)'
    <3>1. PICK i \in 1 .. Len(inFlight) :
             /\ inFlight[i].node = m /\ inFlight[i].value = lastSample[m]
             /\ \A j \in 1 .. Len(inFlight) : inFlight[j].node = m => j <= i
      BY <2>2 DEF Sent
    <3>2. i \in 1 .. Len(inFlight') /\ inFlight'[i] = inFlight[i]
      BY <1>2, <3>1 DEF last
    <3>3. \A j \in 1 .. Len(inFlight') : inFlight'[j].node = m => j <= i
      BY <1>2, <1>4, <3>1
    <3> QED BY <1>1, <3>1, <3>2, <3>3 DEF Sent
  <2> QED BY <2>1, <2>2
<1>6. monitored \subseteq NodeIds
  BY DEF TypeInvAll, TypeInv, TypeOK, SubscriberTypeOK
<1>7. \A m \in NodeIds : m # n => pending'[m] = pending[m]
  BY <1>1
<1>8. pending'[n] = NoData
  BY <1>1
<1> HIDE DEF last
<1> QED BY <1>1, <1>3, <1>5, <1>6, <1>7, <1>8 DEF WayInv

\* The first notification in flight is handled: given to the callback, ignored
\* because it does not mention the topic, or the end of the process.
LEMMA TakeWay ==
  ASSUME TypeInvAll, WayInv, inFlight # <<>>, inFlight' = Tail(inFlight),
         UNCHANGED <<lastSample, pending, monitored>>,
         clientUp' => clientUp,
         \A m \in NodeIds : m # Head(inFlight).node => received'[m] = received[m],
         \/ received'[Head(inFlight).node] = Head(inFlight).value
         \/ ~Matches(Head(inFlight).value, Head(inFlight).node[2])
         \/ ~clientUp'
  PROVE  WayInv'
<1> DEFINE first == inFlight[1]
<1>1. /\ 1 \in 1 .. Len(inFlight) /\ Head(inFlight) = first
      /\ Len(inFlight') = Len(inFlight) - 1 /\ Len(inFlight) \in Nat
      /\ \A i \in 1 .. Len(inFlight') :
            i + 1 \in 1 .. Len(inFlight) /\ inFlight'[i] = inFlight[i + 1]
  BY TailOfInFlight, HeadTailProperties DEF TypeInvAll, SubscriberTypeOK
<1> HIDE DEF first
<1>2. \A i \in 1 .. Len(inFlight) :
         i # 1 => i - 1 \in 1 .. Len(inFlight') /\ inFlight'[i - 1] = inFlight[i]
  <2> SUFFICES ASSUME NEW i \in 1 .. Len(inFlight), i # 1
               PROVE  i - 1 \in 1 .. Len(inFlight') /\ inFlight'[i - 1] = inFlight[i]
    OBVIOUS
  <2>1. i - 1 \in 1 .. Len(inFlight') /\ (i - 1) + 1 = i
    BY <1>1
  <2> QED BY <1>1, <2>1
<1>3. ASSUME NEW n \in NodeIds, Sent(n) PROVE Sent(n)' \/ Told(n)'
  <2>1. PICK i \in 1 .. Len(inFlight) :
           /\ inFlight[i].node = n /\ inFlight[i].value = lastSample[n]
           /\ \A j \in 1 .. Len(inFlight) : inFlight[j].node = n => j <= i
    BY <1>3 DEF Sent
  <2>2. CASE i = 1
    <3>1. first.node = n /\ first.value = lastSample[n]
      BY <2>1, <2>2 DEF first
    <3>2. \A j \in 1 .. Len(inFlight') : inFlight'[j].node # n
      <4> SUFFICES ASSUME NEW j \in 1 .. Len(inFlight'), inFlight'[j].node = n PROVE FALSE
        OBVIOUS
      <4>1. j + 1 \in 1 .. Len(inFlight) /\ inFlight[j + 1].node = n
        BY <1>1
      <4>2. j + 1 <= 1
        BY <2>1, <2>2, <4>1
      <4> QED BY <4>2
    <3> QED BY <1>1, <3>1, <3>2 DEF Told, Matches
  <2>3. CASE i # 1
    <3>1. i - 1 \in 1 .. Len(inFlight') /\ inFlight'[i - 1] = inFlight[i]
      BY <1>2, <2>3
    <3>2. \A j \in 1 .. Len(inFlight') : inFlight'[j].node = n => j <= i - 1
      <4> SUFFICES ASSUME NEW j \in 1 .. Len(inFlight'), inFlight'[j].node = n PROVE j <= i - 1
        OBVIOUS
      <4>1. j + 1 \in 1 .. Len(inFlight) /\ inFlight[j + 1].node = n
        BY <1>1
      <4>2. j + 1 <= i
        BY <2>1, <4>1
      <4> QED BY <4>2
    <3> QED BY <2>1, <3>1, <3>2 DEF Sent
  <2> QED BY <2>2, <2>3
<1>4. ASSUME NEW n \in NodeIds, Told(n) PROVE Told(n)'
  <2>1. first.node # n
    BY <1>1, <1>4 DEF Told, first
  <2>2. received'[n] = received[n]
    BY <1>1, <2>1
  <2>3. \A i \in 1 .. Len(inFlight') : inFlight'[i].node # n
    BY <1>1, <1>4 DEF Told
  <2> QED BY <1>4, <2>2, <2>3 DEF Told, Matches
<1>5. monitored \subseteq NodeIds
  BY DEF TypeInvAll, TypeInv, TypeOK, SubscriberTypeOK
<1> QED BY <1>3, <1>4, <1>5 DEF WayInv

LEMMA NextWay == TypeInvAll /\ WayInv /\ [NextAll]_allVars => WayInv'
<1> SUFFICES ASSUME TypeInvAll, WayInv, [NextAll]_allVars PROVE WayInv'
  OBVIOUS
<1>1. ASSUME UNCHANGED clientVars PROVE WayInv'
  BY <1>1 DEF WayInv, Sent, Told, Matches, clientVars
<1>2. ASSUME NEW p \in Publishers, CallNumbered(p) \/ PublishStep(p) PROVE WayInv'
  BY <1>1, <1>2 DEF CallNumbered, PublishStep
<1>3. ASSUME NEW n \in NodeIds, CreateMonitoredItem(n) \/ Sample(n) PROVE WayInv'
  BY <1>3, EnqueueWay DEF CreateMonitoredItem, Sample
<1>4. ASSUME NEW n \in NodeIds, SendNotification(n) PROVE WayInv'
  BY <1>4, SendWay
<1>5. CASE SubscriptionCallback
  <2>1. Head(inFlight).node \in NodeIds /\ received \in [NodeIds -> Values]
    BY <1>5, TailOfInFlight, InFlightTypes DEF SubscriptionCallback, TypeInvAll, SubscriberTypeOK
  <2> QED BY <1>5, <2>1, TakeWay DEF SubscriptionCallback
<1>6. CASE SubscriptionCallbackCrashes
  BY <1>6, TakeWay DEF SubscriptionCallbackCrashes
<1>7. CASE UNCHANGED allVars
  BY <1>1, <1>7 DEF allVars
<1>8. CASE ServerThread /\ UNCHANGED <<published, written, clientVars>>
  BY <1>1, <1>8
<1> QED BY <1>2, <1>3, <1>4, <1>5, <1>6, <1>7, <1>8 DEF NextAll, ServerStep

\* SampleOnItsWay: with any number of publishers and topics, and however often
\* values are replaced in the queues, the last sample of a node is on its way to
\* the callback or was the last it got.
THEOREM NoSampleIsLost == SpecAll => []SampleOnItsWay
<1>1. InitAll => WayInv
  BY DEF InitAll, WayInv
<1>2. TypeInvAll /\ WayInv => SampleOnItsWay
  BY WayMeans
<1> QED BY <1>1, <1>2, NextWay, TypeInvariantAll, PTL DEF SpecAll

------------------------------------------------------------------------------
(* A node of its own *)

\* The exporter publishes on one topic, so that its node has the shared string
\* to itself.
OneTopic == \A t, u \in Topics : t = u

\* One publisher's calls overlap no other's, and one fails to make or to find the
\* node only before there is one.
MissInv ==
    /\ contended = {}
    /\ \A n \in nodes : n[1] \in namespaces
    /\ \A p \in Publishers :
          pc[p] \in {"getContext", "compare", "addNode"} => request[p].ns \in namespaces
    /\ \A p \in failed : nodes = {} /\ pc[p] \in {"copyHead", "copyTail", "lock", "write"}

\* What the call in progress has made of the string, and what the node was
\* written by the calls before it.
HoldInv ==
    /\ \A n \in NodeIds \ nodes : written[n] = Nothing
    /\ (\A p \in Publishers : pc[p] = "idle") =>
          \A n \in nodes : written[n] = Nothing \/ written[n] = dataToPublish
    /\ \A p \in Publishers :
          /\ pc[p] = "copyTail" => dataToPublish.head = Payload(p)
          /\ pc[p] \in {"lock", "write"} =>
                dataToPublish = [head |-> Payload(p), tail |-> Payload(p)]

LEMMA SameNode ==
  ASSUME OneNamespace, OneTopic, NEW m \in NodeIds, NEW n \in NodeIds
  PROVE  m = n
BY DEF OneNamespace, OneTopic, NodeIds

LEMMA OnlyOne ==
  ASSUME OnePublisher, NEW p \in Publishers
  PROVE  \A q \in Publishers : q = p
BY DEF OnePublisher

\* A publisher that has no other to overlap with is never contended.
LEMMA NoContention ==
  ASSUME OnePublisher, contended = {}, NEW p \in Publishers, Publish(p)
  PROVE  contended' = {} /\ ~Overlapped(p) /\ Inserted(p) = {TRUE}
BY DEF OnePublisher, Publish, Contend, Overlapped, Inserted

LEMMA PublishMisses ==
  ASSUME OnePublisher, OneNamespace, OneTopic, TypeInv, MissInv,
         NEW p \in Publishers, Publish(p)
  PROVE  MissInv'
<1> USE DEF MissInv, TypeInv, TypeOK, Goto, Fail, serverVars
<1>0. /\ \A q \in Publishers : q = p
      /\ contended' = {}
      /\ Inserted(p) = {TRUE} /\ request[p].ns \in Namespaces
      /\ Lookup(p, request[p].ns \in namespaces) = {request[p].ns \in namespaces}
  BY OnlyOne, NoContention DEF Lookup, Requests
<1> USE <1>0
<1>1. CASE GetNamespaceByName(p)
  <2>1. pc' = [pc EXCEPT ![p] = IF request[p].ns \in namespaces THEN "getContext" ELSE "addNs"]
    BY <1>0, <1>1 DEF GetNamespaceByName
  <2> QED BY <1>0, <1>1, <2>1 DEF GetNamespaceByName
<1>2. CASE AddNamespace(p)
  <2>1. namespaces' = namespaces \cup {request[p].ns}
    BY <1>0, <1>2 DEF AddNamespace
  <2> QED BY <1>0, <1>2, <2>1 DEF AddNamespace
<1>3. CASE AddNamespaceFails(p)
  <2>1. nodes = {}
    <3> SUFFICES ASSUME NEW n \in nodes PROVE FALSE
      OBVIOUS
    <3>1. n[1] \in namespaces /\ n[1] \in Namespaces
      BY DEF NodeIds
    <3>2. n[1] = request[p].ns
      BY <1>0, <3>1 DEF OneNamespace
    <3> QED BY <1>3, <3>1, <3>2 DEF AddNamespaceFails
  <2> QED BY <1>0, <1>3, <2>1 DEF AddNamespaceFails
<1>4. CASE AddNode(p)
  <2>1. nodes' = nodes \cup {NodeOf(p)} /\ failed = {}
    BY <1>0, <1>4 DEF AddNode
  <2>2. NodeOf(p)[1] \in namespaces
    BY <1>4 DEF AddNode, NodeOf, IndexInv
  <2> QED BY <1>0, <1>4, <2>1, <2>2 DEF AddNode
<1>5. CASE AddNodeFails(p)
  <2>1. NodeOf(p) \in NodeIds /\ NodeOf(p) \notin nodes
    BY <1>5 DEF AddNodeFails, IndexInv, NodeOf, NodeIds, Topic, Requests
  <2>2. nodes = {}
    BY <2>1, SameNode
  <2> QED BY <1>0, <1>5, <2>2 DEF AddNodeFails
<1>6. CASE CheckContext(p) \/ MallocContext(p)
  BY <1>6 DEF CheckContext, MallocContext
<1>7. CASE GetNodeContext(p) \/ CompareContext(p)
  BY <1>7 DEF GetNodeContext, CompareContext
<1>8. CASE CopyHead(p) \/ CopyTail(p) \/ LockServer(p)
  BY <1>8 DEF CopyHead, CopyTail, LockServer
<1>9. CASE WriteValue(p)
  BY <1>0, <1>9 DEF WriteValue
<1> QED BY <1>1, <1>2, <1>3, <1>4, <1>5, <1>6, <1>7, <1>8, <1>9 DEF Publish

LEMMA NextMisses ==
  ASSUME OnePublisher, OneNamespace, OneTopic
  PROVE  TypeInv /\ MissInv /\ [Next]_vars => MissInv'
<1> SUFFICES ASSUME TypeInv, MissInv, [Next]_vars PROVE MissInv'
  OBVIOUS
<1>1. ASSUME NEW p \in Publishers, Call(p) PROVE MissInv'
  BY <1>1 DEF MissInv, TypeInv, TypeOK, Call, Goto, serverVars
<1>2. CASE ServerThread
  BY <1>2 DEF MissInv, ServerThread, ServerLocks, ServerUnlocks, callVars, serverVars
<1>3. CASE UNCHANGED vars
  BY <1>3 DEF MissInv, vars, callVars, serverVars
<1> QED BY <1>1, <1>2, <1>3, PublishMisses DEF Next

LEMMA PublishHolds ==
  ASSUME OnePublisher, OneNamespace, OneTopic, Oversize = {}, TypeInvAll, CreatedInv,
         MissInv, HoldInv, NEW p \in Publishers, PublishStep(p)
  PROVE  HoldInv'
<1> USE DEF HoldInv, Goto, Payload, Topic
<1>0. /\ \A q \in Publishers : q = p
      /\ pc \in [Publishers -> Labels] /\ dataToPublish \in Values
      /\ written \in [NodeIds -> Values] /\ nodes \subseteq NodeIds
      /\ Publish(p)
  BY OnlyOne, DataType DEF PublishStep, TypeInvAll, TypeInv, TypeOK, SubscriberTypeOK
<1>1. CASE WriteValue(p)
  <2>1. /\ pc[p] = "write" /\ UNCHANGED <<request, nodes, dataToPublish>>
        /\ pc' = [pc EXCEPT ![p] = "idle"]
        /\ dataToPublish = [head |-> Payload(p), tail |-> Payload(p)]
    BY <1>1 DEF WriteValue, serverVars
  <2>2. CASE NodeOf(p) \in nodes
    <3>1. written' = [written EXCEPT ![NodeOf(p)] = dataToPublish]
      BY <1>1, <2>1, <2>2 DEF PublishStep
    <3>2. \A n \in NodeIds : n = NodeOf(p)
      BY <1>0, <2>2, SameNode
    <3>3. \A n \in nodes' : written'[n] = dataToPublish'
      BY <1>0, <2>1, <3>1, <3>2
    <3>4. NodeIds \ nodes' = {}
      BY <2>1, <2>2, <3>2
    <3> QED BY <1>0, <2>1, <3>3, <3>4
  <2>3. CASE NodeOf(p) \notin nodes
    <3>1. nodes = {}
      BY <2>1, <2>3 DEF CreatedInv, MissInv
    <3>2. written' = written
      BY <2>3 DEF PublishStep
    <3> QED BY <1>0, <2>1, <3>1, <3>2
  <2> QED BY <2>2, <2>3
<1>2. ASSUME ~WriteValue(p)
      PROVE  /\ UNCHANGED <<written, request>> /\ pc'[p] # "idle" /\ nodes \subseteq nodes'
             /\ \E l \in Labels : pc' = [pc EXCEPT ![p] = l]
  <2>1. written' = written
    BY <1>2 DEF PublishStep
  <2>2. nodes \subseteq nodes'
    BY <1>0, NodesStay DEF Next, TypeInvAll
  <2>3. request' = request /\ \E l \in Labels \ {"idle"} : pc' = [pc EXCEPT ![p] = l]
    BY <1>0, <1>2 DEF Publish, Labels, LibraryCalls, CheckContext, MallocContext,
       GetNamespaceByName, AddNamespace, AddNamespaceFails, GetNodeContext, CompareContext,
       AddNode, AddNodeFails, CopyHead, CopyTail, LockServer
  <2> QED BY <1>0, <2>1, <2>2, <2>3
<1>3. CASE CopyHead(p)
  <2>1. /\ pc' = [pc EXCEPT ![p] = "copyTail"] /\ dataToPublish'.head = Payload(p)
        /\ UNCHANGED nodes
    BY <1>0, <1>3 DEF CopyHead, Values, serverVars
  <2> QED BY <1>0, <1>2, <1>3, <2>1 DEF CopyHead, WriteValue
<1>4. CASE CopyTail(p)
  <2>1. /\ pc' = [pc EXCEPT ![p] = "lock"] /\ UNCHANGED nodes
        /\ dataToPublish' = [head |-> Payload(p), tail |-> Payload(p)]
    BY <1>0, <1>4 DEF CopyTail, Values, serverVars
  <2> QED BY <1>0, <1>2, <1>4, <2>1 DEF CopyTail, WriteValue
<1>5. CASE LockServer(p)
  <2>1. /\ pc[p] = "lock" /\ pc' = [pc EXCEPT ![p] = "write"]
        /\ UNCHANGED <<nodes, dataToPublish>>
    BY <1>5 DEF LockServer, serverVars
  <2> QED BY <1>0, <1>2, <1>5, <2>1 DEF LockServer, WriteValue
<1>6. CASE ~WriteValue(p) /\ ~CopyHead(p) /\ ~CopyTail(p) /\ ~LockServer(p)
  <2>1. dataToPublish' = dataToPublish /\ pc'[p] \notin {"copyTail", "lock", "write"}
    BY <1>0, <1>6 DEF Publish, CheckContext, MallocContext, GetNamespaceByName, AddNamespace,
       AddNamespaceFails, GetNodeContext, CompareContext, AddNode, AddNodeFails
  <2> QED BY <1>0, <1>2, <1>6, <2>1
<1> QED BY <1>1, <1>3, <1>4, <1>5, <1>6

LEMMA NextHolds ==
  ASSUME OnePublisher, OneNamespace, OneTopic, Oversize = {}
  PROVE  TypeInvAll /\ CreatedInv /\ MissInv /\ HoldInv /\ [NextAll]_allVars => HoldInv'
<1> SUFFICES ASSUME TypeInvAll, CreatedInv, MissInv, HoldInv, [NextAll]_allVars
             PROVE  HoldInv'
  OBVIOUS
<1>1. ASSUME NEW p \in Publishers, CallNumbered(p) PROVE HoldInv'
  <2>1. /\ UNCHANGED <<nodes, dataToPublish, written>>
        /\ pc' = [pc EXCEPT ![p] = "context"] /\ \A q \in Publishers : q = p
        /\ pc \in [Publishers -> Labels]
    BY <1>1, OnlyOne DEF CallNumbered, Call, Goto, serverVars, TypeInvAll, TypeInv, TypeOK
  <2> QED BY <2>1 DEF HoldInv
<1>2. ASSUME UNCHANGED <<pc, request, nodes, dataToPublish, written>> PROVE HoldInv'
  BY <1>2 DEF HoldInv, Payload, Topic
<1>3. CASE ServerStep
  BY <1>2, <1>3 DEF ServerStep, ServerThread, ServerLocks, ServerUnlocks, CreateMonitoredItem,
     Sample, SendNotification, vars, callVars, serverVars
<1>4. CASE SubscriptionCallback \/ SubscriptionCallbackCrashes
  BY <1>2, <1>4 DEF SubscriptionCallback, SubscriptionCallbackCrashes, vars, callVars, serverVars
<1>5. CASE UNCHANGED allVars
  BY <1>2, <1>5 DEF allVars, vars, callVars, serverVars
<1> QED BY <1>1, <1>3, <1>4, <1>5, PublishHolds DEF NextAll

\* NodeHoldsItsData holds of an exporter with one publisher and one topic whose
\* messages fit: a node reads as the data last written to it, whatever failed
\* before.  What breaks it (run subscribe_shared_value) is the second topic.
THEOREM OwnNodeHoldsItsData ==
  ASSUME OnePublisher, OneNamespace, OneTopic, Oversize = {}
  PROVE  SpecAll => []NodeHoldsItsData
<1>1. InitAll => MissInv /\ HoldInv
  BY DEF InitAll, Init, MissInv, HoldInv
<1>2. TypeInv /\ MissInv /\ [NextAll]_allVars => MissInv'
  BY NextMisses, StepOfPublish
<1>3. TypeInvAll /\ CreatedInv /\ MissInv /\ HoldInv /\ [NextAll]_allVars => HoldInv'
  BY NextHolds
<1>4. SpecAll => []CreatedInv
  <2>1. Spec => []CreatedInv
    BY CreatedInvariant
  <2> QED BY <2>1, SubscribeImplementsPublish, PTL
<1>5. TypeInvAll /\ HoldInv => NodeHoldsItsData
  <2> SUFFICES ASSUME TypeInvAll, HoldInv, NEW n \in nodes
               PROVE  \/ written[n] = Nothing
                      \/ ReadValue(n) = written[n]
                      \/ \E p \in Publishers : pc[p] # "idle" /\ Topic(p) = n[2]
    BY DEF NodeHoldsItsData
  <2>1. \A p \in Publishers : Topic(p) \in Topics
    BY DEF TypeInvAll, TypeInv, TypeOK, Topic, Requests
  <2>2. n[2] \in Topics
    BY DEF TypeInvAll, TypeInv, TypeOK, NodeIds
  <2>3. \A p \in Publishers : Topic(p) = n[2]
    BY <2>1, <2>2 DEF OneTopic
  <2> QED BY <2>3 DEF HoldInv, ReadValue
<1>6. TypeInvAll => TypeInv
  BY DEF TypeInvAll
<1> QED BY <1>1, <1>2, <1>3, <1>4, <1>5, <1>6, TypeInvariantAll, PTL DEF SpecAll

==============================================================================
