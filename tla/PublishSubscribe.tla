--------------------------- MODULE PublishSubscribe ---------------------------
(***************************************************************************)
(* ServerPublish together with one subscriber: the monitored items that    *)
(* createSubscription asks the server for, the sampling done inside        *)
(* UA_Server_run_iterate, and subscriptionCallback in the client.          *)
(*                                                                         *)
(* Every node reads the one global dataToPublish (readPublishedData), so   *)
(* what a subscriber of a node is told depends on when the server samples. *)
(***************************************************************************)
EXTENDS ServerPublish, Sequences

CONSTANTS MaxPublishes,   \* bound on the calls of serverPublish
          MaxInFlight,    \* bound on notifications sent and not yet handled
          Mentions        \* topic -> topics whose name occurs in its payloads

ASSUME MessagesAreNumbers == MaxPublishes \in Nat /\ Messages = 1 .. MaxPublishes
ASSUME InFlightIsBounded == MaxInFlight \in Nat
ASSUME NoDataIsNoPayload == NoData \notin Payloads
ASSUME PayloadNamesItsTopic == \A t \in Topics : t \in Mentions[t]

VARIABLES published,      \* calls of serverPublish so far; each carries its number
          written,        \* node -> payload of the last write that returned "0"
          monitored,      \* nodes with a monitored item
          lastSample,     \* monitored item -> its lastSampledValue
          pending,        \* monitored item -> its queue, of size 1
          inFlight,       \* notifications on their way to the client, in order
          received,       \* node -> data of the last call of the user callback
          clientUp        \* the subscriber's process has not crashed

clientVars == <<monitored, lastSample, pending, inFlight, received, clientUp>>
allVars == <<vars, published, written, clientVars>>

Nothing == [head |-> NoData, tail |-> NoData]
Values == [head : Payloads \cup {NoData}, tail : Payloads \cup {NoData}]

InitAll ==
    /\ Init
    /\ published = 0
    /\ written = [n \in NodeIds |-> Nothing]
    /\ monitored = {}
    /\ lastSample = [n \in NodeIds |-> Nothing]
    /\ pending = [n \in NodeIds |-> NoData]
    /\ inFlight = <<>>
    /\ received = [n \in NodeIds |-> Nothing]
    /\ clientUp = TRUE

------------------------------------------------------------------------------
(* Publishers *)

CallNumbered(p) ==
    /\ published < MaxPublishes
    /\ Call(p)
    /\ published' = published + 1
    /\ request'[p].msg = published'
    /\ UNCHANGED <<written, clientVars>>

PublishStep(p) ==
    /\ Publish(p)
    /\ written' = IF WriteValue(p) /\ NodeOf(p) \in nodes
                  THEN [written EXCEPT ![NodeOf(p)] = [head |-> Payload(p), tail |-> Payload(p)]]
                  ELSE written
    /\ UNCHANGED <<published, clientVars>>

------------------------------------------------------------------------------
(* Inside UA_Server_run_iterate, with serverLock held *)

\* readPublishedData: the value of any node is the one global string.
ReadValue(n) == dataToPublish

\* Mutant: a full queue keeps the value it holds (discardOldest is FALSE).
EnqueueIfEmpty(n, value) ==
    /\ lastSample' = [lastSample EXCEPT ![n] = value]
    /\ pending' = [pending EXCEPT ![n] = IF @ = NoData THEN value ELSE @]

Enqueue(n, value) ==
    /\ lastSample' = [lastSample EXCEPT ![n] = value]
    /\ pending' = [pending EXCEPT ![n] = value]

\* Mutant: an item for a topic that nobody has published.
CreateMonitoredItemAnyway(n) ==
    /\ serverPc = "iterate"
    /\ n \notin monitored
    /\ monitored' = monitored \cup {n}
    /\ Enqueue(n, ReadValue(n))
    /\ UNCHANGED <<vars, published, written, inFlight, received, clientUp>>

\* Mutant: the first sample is remembered, and not queued.
CreateMonitoredItemQuiet(n) ==
    /\ serverPc = "iterate"
    /\ n \in nodes \ monitored
    /\ monitored' = monitored \cup {n}
    /\ lastSample' = [lastSample EXCEPT ![n] = ReadValue(n)]
    /\ UNCHANGED <<vars, published, written, pending, inFlight, received, clientUp>>

\* The item is created only for a node that exists, and is sampled at once.
CreateMonitoredItem(n) ==
    /\ serverPc = "iterate"
    /\ n \in nodes \ monitored
    /\ monitored' = monitored \cup {n}
    /\ Enqueue(n, ReadValue(n))
    /\ UNCHANGED <<vars, published, written, inFlight, received, clientUp>>

\* A value that equals the last sample is no notification; a new one replaces
\* the one the queue of size 1 still holds (discardOldest).
Sample(n) ==
    /\ serverPc = "iterate"
    /\ n \in monitored
    /\ ReadValue(n) # lastSample[n]
    /\ Enqueue(n, ReadValue(n))
    /\ UNCHANGED <<vars, published, written, monitored, inFlight, received, clientUp>>

\* Mutant: TAILQ_INSERT_HEAD where the notification belongs at the tail.
SendNotificationAtHead(n) ==
    /\ serverPc = "iterate"
    /\ pending[n] # NoData
    /\ Len(inFlight) < MaxInFlight
    /\ inFlight' = <<[node |-> n, value |-> pending[n]]>> \o inFlight
    /\ pending' = [pending EXCEPT ![n] = NoData]
    /\ UNCHANGED <<vars, published, written, monitored, lastSample, received, clientUp>>

SendNotification(n) ==
    /\ serverPc = "iterate"
    /\ pending[n] # NoData
    /\ Len(inFlight) < MaxInFlight
    /\ inFlight' = Append(inFlight, [node |-> n, value |-> pending[n]])
    /\ pending' = [pending EXCEPT ![n] = NoData]
    /\ UNCHANGED <<vars, published, written, monitored, lastSample, received, clientUp>>

ServerStep ==
    \/ ServerThread /\ UNCHANGED <<published, written, clientVars>>
    \/ \E n \in NodeIds : CreateMonitoredItem(n) \/ Sample(n) \/ SendNotification(n)

------------------------------------------------------------------------------
(* The client *)

\* strstr(subscribedData, args->topic): a payload starts with the name of the
\* topic it was published on, and may mention others.
Matches(value, t) == value.head # NoData /\ t \in Mentions[value.head.topic]

SubscriptionCallback ==
    /\ clientUp
    /\ inFlight # <<>>
    /\ Head(inFlight).value.head # NoData
    /\ LET n == Head(inFlight).node
           value == Head(inFlight).value
       IN received' = IF Matches(value, n[2])
                      THEN [received EXCEPT ![n] = value]
                      ELSE received
    /\ inFlight' = Tail(inFlight)
    /\ UNCHANGED <<vars, published, written, monitored, lastSample, pending, clientUp>>

\* An item created between AddNode and CopyHead of the first message samples the
\* zeroed string.  A string of length 0 arrives as the sentinel of an empty
\* array, an address that strlen reads.
SubscriptionCallbackCrashes ==
    /\ clientUp
    /\ inFlight # <<>>
    /\ Head(inFlight).value.head = NoData
    /\ clientUp' = FALSE
    /\ inFlight' = Tail(inFlight)
    /\ UNCHANGED <<vars, published, written, monitored, lastSample, pending, received>>

------------------------------------------------------------------------------

NextAll ==
    \/ \E p \in Publishers : CallNumbered(p) \/ PublishStep(p)
    \/ ServerStep
    \/ SubscriptionCallback \/ SubscriptionCallbackCrashes

SpecAll == InitAll /\ [][NextAll]_allVars

(* The sampling and publishing timers of the server are repeated callbacks  *)
(* that fire in later iterations if not in this one; the client thread runs *)
(* UA_Client_run_iterate for ever.                                          *)
FairnessAll ==
    /\ \A p \in Publishers :
          /\ WF_allVars(PublishStep(p))
          /\ SF_allVars(LockServer(p) /\ PublishStep(p))
    /\ SF_allVars(ServerLocks /\ ServerStep)
    /\ WF_allVars(ServerUnlocks /\ ServerStep)
    /\ \A n \in NodeIds : SF_allVars(Sample(n)) /\ SF_allVars(SendNotification(n))
    /\ WF_allVars(SubscriptionCallback \/ SubscriptionCallbackCrashes)

FairSpecAll == SpecAll /\ FairnessAll

------------------------------------------------------------------------------
(* Properties *)

TypeOKAll ==
    /\ TypeOK
    /\ published \in 0 .. MaxPublishes
    /\ written \in [NodeIds -> Values]
    /\ monitored \subseteq nodes
    /\ lastSample \in [NodeIds -> Values]
    /\ pending \in [NodeIds -> Values \cup {NoData}]
    /\ inFlight \in Seq([node : NodeIds, value : Values]) /\ Len(inFlight) <= MaxInFlight
    /\ received \in [NodeIds -> Values]
    /\ clientUp \in BOOLEAN

Number(part) == IF part = NoData THEN 0 ELSE part.msg

\* The subscriber of a node never gets data older than what it already got,
\* through the shared string, the sample, the queue and the connection, even
\* when it is told a value that is half old and half new.
NeverOlder ==
    [][\A n \in NodeIds :
          /\ Number(received'[n].head) >= Number(received[n].head)
          /\ Number(received'[n].tail) >= Number(received[n].tail)]_received

\* No later notification in flight is for the same node.
IsLast(i) == \A j \in DOMAIN inFlight : inFlight[j].node = inFlight[i].node => j <= i

\* What was sampled of a node last, and so is not sampled again, is never lost:
\* it waits in the node's queue, or it is the last notification on its way to the
\* callback of the node, or the callback was given it last (or was not, because
\* it does not mention the topic, or the process had crashed).
SampleOnItsWay ==
    \A n \in monitored :
        \/ pending[n] = lastSample[n]
        \/ \E i \in DOMAIN inFlight :
              IsLast(i) /\ inFlight[i].node = n /\ inFlight[i].value = lastSample[n]
        \/ /\ \A i \in DOMAIN inFlight : inFlight[i].node # n
           /\ received[n] = lastSample[n] \/ ~Matches(lastSample[n], n[2]) \/ ~clientUp

Settled == published = MaxPublishes /\ \A p \in Publishers : pc[p] = "idle"

\* When publishing stops, the subscriber of the topic published last gets the
\* last value, whatever it missed before: no notification is lost for good,
\* unless the empty string of a node without data took the subscriber's process.
LastValueArrives ==
    \A n \in NodeIds :
        (Settled /\ n \in monitored /\ Matches(dataToPublish, n[2]))
            ~> received[n] = dataToPublish \/ ~clientUp

\* "writes **data** to the node": a read of the node gives the data of the last
\* call that returned "0" on it, unless a call on it is in progress.
NodeHoldsItsData ==
    \A n \in nodes :
        \/ written[n] = Nothing
        \/ ReadValue(n) = written[n]
        \/ \E p \in Publishers : pc[p] # "idle" /\ Topic(p) = n[2]

\* What the subscriber is told is a value that was published.
ReceivedIntact == \A n \in NodeIds : received[n].head = received[n].tail

==============================================================================
