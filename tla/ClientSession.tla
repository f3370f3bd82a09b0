---------------------------- MODULE ClientSession ----------------------------
(***************************************************************************)
(* The subscribing side of open62541_wrappers.c: clientContextCreate,      *)
(* clientSubscribe, createSubscription and the runClient thread, over the  *)
(* connection state machine of the vendored client library, a server that  *)
(* may be restarted and a network that may fail.                           *)
(*                                                                         *)
(* One action per iteration of the library's state machine (one call of    *)
(* connectIterate or UA_Client_run_iterate), and two per blocking service  *)
(* call, the server's and the client's part: the server and the network    *)
(* may change between any two.  A send on a connection whose peer is gone  *)
(* may be accepted by the socket or fail; a receive on it fails.           *)
(***************************************************************************)
EXTENDS Integers, SequencesExt

CONSTANTS Topics,        \* the topics given to clientSubscribe
          MaxRequests,   \* config.outStandingPublishRequests
          Faults,        \* kinds of fault that may happen
          MaxFaults      \* bound on the number of faults

FaultKinds == {"cut",      \* a connection is reset
               "outage",   \* the network is down for a while
               "crash",    \* the server process dies, and is started again
               "expire",   \* a session nobody uses times out
               "lapse",    \* a subscription that cannot publish times out
               "refuse"}   \* the server refuses a new session

ASSUME ClientAssumption ==
    /\ MaxRequests \in Nat \ {0}
    /\ MaxFaults \in Nat
    /\ Faults \subseteq FaultKinds

\* The asynchronous service calls that connect a client.
Calls == {"endpoints", "create", "activate"}

VARIABLES pc,             \* where the application, then runClient, is
          running,        \* runClient has been started
          link,           \* client->connection and client->channel
          session,        \* client->sessionState
          connectStatus,  \* client->connectStatus, good or bad
          sent,           \* asyncServiceCalls sent on this connection, in order
          late,           \* asyncServiceCalls whose connection is gone, oldest first
          clientSub,      \* client->subscriptions: none, one of this session, a stale one
          clientItems,    \* topics of the monitored items of the last one
          outstanding,    \* client->currentlyOutStandingPublishRequests
          up,             \* the server process runs
          network,        \* connections can be opened
          peer,           \* the server's end of the connection exists
          sessionAlive,   \* the server knows the client's session
          serverSub,      \* that session has a subscription
          serverItems,    \* topic -> monitored items of that session
          queued,         \* publish requests in that session's responseQueue
          nodes,          \* topics with a node on the server
          wanted,         \* topics the client has been subscribed to
          faults          \* faults so far

control == <<pc, running, wanted>>
calls   == <<sent, late>>
client  == <<link, session, connectStatus, calls>>
subs    == <<clientSub, clientItems, outstanding>>
server  == <<sessionAlive, serverSub, serverItems, queued>>
world   == <<up, network, nodes, faults>>
vars == <<control, client, subs, server, world, peer>>

NoItems == [t \in Topics |-> 0]
Monitored == {t \in Topics : serverItems[t] > 0}

\* UA_SESSIONSTATE_CLOSED is three states here: "fresh", the endpoint unknown;
\* "discovering", GetEndpoints requested; "closed", the endpoint known.
SessionClosed == session \in {"fresh", "discovering", "closed"}

Init ==
    /\ pc = "start" /\ running = FALSE /\ wanted = {}
    /\ link = "closed" /\ session = "fresh" /\ connectStatus = "good"
    /\ sent = <<>> /\ late = <<>>
    /\ clientSub = "none" /\ clientItems = {} /\ outstanding = 0
    /\ sessionAlive = FALSE /\ serverSub = FALSE /\ serverItems = NoItems /\ queued = 0
    /\ up \in BOOLEAN /\ network = TRUE /\ nodes = {} /\ faults = 0
    /\ peer = FALSE

Attached == link = "open" /\ peer /\ session = "activated"
Working == Attached /\ connectStatus = "good"
Goto(label) == pc' = label /\ UNCHANGED <<running, wanted>>

------------------------------------------------------------------------------
(* connectIterate, called by UA_Client_connect until the session is         *)
(* activated or a status is bad, and once by each UA_Client_run_iterate     *)

Iterating == pc \in {"connecting", "iterate"} /\ session # "activated"

\* Mutant: the status of the last attempt does not stop the next.
ProgressRegardless == Iterating
Progress == Iterating /\ connectStatus = "good"
Return    == Goto(IF pc = "iterate" THEN "check" ELSE pc)

\* Mutant: the channel is closed and the session state left as it is.
CloseChannelOnly ==
    /\ link' = "closed" /\ sent' = <<>> /\ late' = late \o sent /\ peer' = FALSE
    /\ UNCHANGED session

\* closeSecureChannel keeps the session, to be activated on another channel, and
\* the calls that have no answer.  initConnect starts a discovery anew.
CloseChannel ==
    /\ link' = "closed" /\ sent' = <<>> /\ late' = late \o sent /\ peer' = FALSE
    /\ session' = CASE session \in {"activateRequested", "activated"} -> "created"
                    [] session = "discovering" -> "fresh"
                    [] OTHER -> session

\* "Could not connect": only initConnect resets connectStatus.
StayFailed ==
    /\ Iterating /\ pc = "iterate" /\ connectStatus = "bad"
    /\ Return
    /\ UNCHANGED <<client, subs, server, world, peer>>

InitConnect ==
    /\ Progress /\ link = "closed"
    /\ link' = "opening"
    /\ Return
    /\ UNCHANGED <<session, connectStatus, calls, subs, server, world, peer>>

\* UA_ClientConnectionTCP_poll: a refused or timed out connect is final.
Poll ==
    /\ Progress /\ link = "opening"
    /\ IF up /\ network
       THEN link' = "handshake" /\ peer' = TRUE /\ UNCHANGED connectStatus
       ELSE link' = "closed" /\ connectStatus' = "bad" /\ UNCHANGED peer
    /\ Return
    /\ UNCHANGED <<session, calls, subs, server, world>>

\* HEL, ACK and OPN; receiving is the one step whose failure is kept.
Handshake ==
    /\ Progress /\ link = "handshake"
    /\ IF peer
       THEN link' = "open" /\ UNCHANGED <<session, connectStatus, calls, peer>>
       ELSE CloseChannel /\ connectStatus' = "bad"
    /\ Return
    /\ UNCHANGED <<subs, server, world>>

\* requestGetEndpoints
RequestEndpoints ==
    /\ Progress /\ link = "open" /\ session = "fresh"
    /\ \/ /\ session' = "discovering" /\ sent' = Append(sent, "endpoints")
          /\ UNCHANGED <<link, connectStatus, late, peer>>
       \/ ~peer /\ CloseChannel /\ connectStatus' = "bad"
    /\ Return
    /\ UNCHANGED <<subs, server, world>>

Creates(n) == [i \in 1 .. n |-> "create"]

\* createSessionAsync, n times, when the calls in pending have no answer yet.
\* After a send that fails the channel is closed, and the next fails too.
CreateSessionAsync(n, pending) ==
    \/ /\ session' = "createRequested" /\ sent' = sent \o Creates(n) /\ late' = pending
       /\ UNCHANGED <<link, connectStatus>>
    \/ \E k \in 0 .. n - 1 :
       /\ ~peer
       /\ link' = "closed" /\ connectStatus' = "bad"
       /\ session' = IF k = 0 THEN "closed" ELSE "createRequested"
       /\ sent' = <<>> /\ late' = pending \o sent \o Creates(k)

CreateSession ==
    /\ Progress /\ link = "open" /\ session = "closed"
    /\ CreateSessionAsync(1, late)
    /\ Return
    /\ UNCHANGED <<subs, server, world, peer>>

\* activateSessionAsync: the state advances even if the send fails.
ActivateSession ==
    /\ Progress /\ link = "open" /\ session = "created"
    /\ session' = "activateRequested"
    /\ \/ sent' = Append(sent, "activate") /\ UNCHANGED <<link, late>>
       \/ ~peer /\ link' = "closed" /\ sent' = <<>> /\ late' = late \o sent
    /\ Return
    /\ UNCHANGED <<connectStatus, subs, server, world, peer>>

Waiting ==
    /\ Progress /\ link = "open"
    /\ session \in {"discovering", "createRequested", "activateRequested"}

\* The server has answered the oldest call; its session had not expired before.
Answered(call) ==
    /\ Waiting /\ peer
    /\ sent # <<>> /\ Head(sent) = call
    /\ sent' = Tail(sent)

\* responseGetEndpoints closes the channel if the endpoint has another policy.
EndpointsFound ==
    /\ Answered("endpoints") /\ session = "discovering"
    /\ session' = "closed"
    /\ \/ UNCHANGED <<link, peer>>
       \/ link' = "closed" /\ peer' = FALSE
    /\ Return
    /\ UNCHANGED <<connectStatus, late, subs, server, world>>

\* The client's subscription when it turns to another session without closing
\* the one it had.
Abandoned == IF clientSub = "current" THEN "stale" ELSE clientSub

\* responseSessionCallback
SessionCreated ==
    /\ Answered("create")
    /\ session' = "created" /\ clientSub' = Abandoned
    /\ sessionAlive' = TRUE /\ serverSub' = FALSE /\ serverItems' = NoItems /\ queued' = 0
    /\ Return
    /\ UNCHANGED <<link, connectStatus, late, clientItems, outstanding, world, peer>>

SessionRefused ==
    /\ Answered("create")
    /\ "refuse" \in Faults /\ faults < MaxFaults
    /\ faults' = faults + 1
    /\ session' = "closed" /\ connectStatus' = "bad" /\ clientSub' = Abandoned
    /\ Return
    /\ UNCHANGED <<link, late, clientItems, outstanding, server, up, network, nodes, peer>>

\* Mutant: the publish requests are taken to be lost with the connection.
SessionActivatedAnew ==
    /\ Answered("activate") /\ session = "activateRequested" /\ sessionAlive
    /\ session' = "activated"
    /\ outstanding' = 0
    /\ Return
    /\ UNCHANGED <<link, connectStatus, late, clientSub, clientItems, server, world, peer>>

\* responseActivateSession
SessionActivated ==
    /\ Answered("activate") /\ session = "activateRequested" /\ sessionAlive
    /\ session' = "activated"
    /\ Return
    /\ UNCHANGED <<link, connectStatus, late, subs, server, world, peer>>

\* The session is unknown: closeSession drops the subscriptions.  The rest of
\* it, and createSessionAsync, are at "recreating".
SessionLost ==
    /\ Answered("activate") /\ session = "activateRequested" /\ ~sessionAlive
    /\ session' = "recreating"
    /\ clientSub' = "none" /\ clientItems' = {}
    /\ UNCHANGED <<control, link, connectStatus, late, outstanding, server, world, peer>>

\* UA_Client_AsyncService_removeAll cancels every pending call before a session
\* is created; what its callback does depends on the call.  A GetEndpoints or
\* CreateSession fails the connection (RecreateFails).  An ActivateSession takes
\* the session to be lost, and calls closeSession and createSessionAsync itself:
\* the outer calls then create a second session, unless the outer loop over the
\* pending calls, whose next entry the inner one has freed, crashes.
Recreate ==
    /\ Progress /\ session = "recreating"
    /\ ~Contains(late, "endpoints") /\ ~Contains(late, "create")
    /\ outstanding' = 0
    /\ \E n \in IF late = <<>> THEN {1} ELSE 2 .. Len(late) + 1 : CreateSessionAsync(n, <<>>)
    /\ Return
    /\ UNCHANGED <<clientSub, clientItems, server, world, peer>>

RecreateFails ==
    /\ Progress /\ session = "recreating"
    /\ Contains(late, "endpoints") \/ Contains(late, "create")
    /\ link' = "closed" /\ session' = "closed" /\ connectStatus' = "bad"
    /\ sent' = <<>> /\ late' = <<>> /\ outstanding' = 0 /\ peer' = FALSE
    /\ Return
    /\ UNCHANGED <<clientSub, clientItems, server, world>>

RecreateCrashes ==
    /\ Progress /\ session = "recreating"
    /\ Contains(late, "activate") /\ Len(late) + outstanding > 1
    /\ Goto("crashed")
    /\ link' = "closed" /\ sent' = <<>> /\ peer' = FALSE
    /\ UNCHANGED <<session, connectStatus, late, subs, server, world>>

ReceiveFails ==
    /\ Waiting /\ ~peer
    /\ CloseChannel
    /\ Return
    /\ UNCHANGED <<connectStatus, subs, server, world>>

\* Nothing was asked on this connection: a receive returns empty-handed.
NothingToReceive ==
    /\ Waiting /\ peer /\ sent = <<>>
    /\ Return
    /\ UNCHANGED <<client, subs, server, world, peer>>

ConnectIterate ==
    \/ StayFailed \/ InitConnect \/ Poll \/ Handshake
    \/ RequestEndpoints \/ CreateSession \/ ActivateSession
    \/ EndpointsFound \/ SessionCreated \/ SessionRefused \/ SessionActivated \/ SessionLost
    \/ Recreate \/ RecreateFails \/ RecreateCrashes
    \/ ReceiveFails \/ NothingToReceive

------------------------------------------------------------------------------
(* UA_Client_connect, for clientContextCreate and for runClient             *)

\* Mutant: runClient connects whenever the session is not activated.
ConnectUnlessActivated ==
    /\ pc = "start" \/ (pc = "check" /\ session # "activated")
    /\ IF link = "closed"
       THEN link' = "opening" /\ connectStatus' = "good"
       ELSE UNCHANGED <<link, connectStatus>>
    /\ Goto("connecting")
    /\ UNCHANGED <<session, calls, subs, server, world, peer>>

\* initConnect; a connection that is still open is left alone, and so is its
\* connectStatus.
Connect ==
    /\ pc = "start" \/ (pc = "check" /\ SessionClosed)
    /\ IF link = "closed"
       THEN link' = "opening" /\ connectStatus' = "good"
       ELSE UNCHANGED <<link, connectStatus>>
    /\ Goto("connecting")
    /\ UNCHANGED <<session, calls, subs, server, world, peer>>

Connected ==
    /\ pc = "connecting" /\ session = "activated"
    /\ Goto(IF running THEN "subscribe" ELSE "ready")
    /\ UNCHANGED <<client, subs, server, world, peer>>

\* A bad status, or a second has passed.  clientContextCreate then calls
\* cleanupClient, which reads through subArgs, NULL until clientSubscribe.
ConnectFails ==
    /\ pc = "connecting" /\ session \notin {"activated", "recreating"}
    /\ Goto(IF running THEN "check" ELSE "crashed")
    /\ UNCHANGED <<client, subs, server, world, peer>>

------------------------------------------------------------------------------
(* clientSubscribe, createSubscription and the loop of runClient.  The      *)
(* server executes a blocking call in one step and the client takes its     *)
(* reply in another: the reply may be lost.                                 *)

ClientSubscribe ==
    /\ pc = "ready"
    /\ Goto("subscribe")
    /\ UNCHANGED <<client, subs, server, world, peer>>

\* __UA_Client_Service without a reply closes the channel; after a send that
\* fails it leaves that to the next receive.
CallFails ==
    \/ link = "open" /\ CloseChannel
    \/ /\ link = "open" => pc \in {"subscribe", "items"}
       /\ UNCHANGED <<link, session, calls, peer>>

\* UA_Client_Subscriptions_create fails: clientSubscribe returns an error,
\* runClient returns for good.  The server may have made the subscription.
SubscriptionFails ==
    /\ pc \in {"subscribe", "subscribing"} /\ ~Working
    /\ CallFails
    /\ Goto(IF running THEN "exited" ELSE "ready")
    /\ UNCHANGED <<connectStatus, subs, server, world>>

ServerSubscribes ==
    /\ pc = "subscribe" /\ Working
    /\ serverSub' = TRUE
    /\ Goto("subscribing")
    /\ UNCHANGED <<client, subs, sessionAlive, serverItems, queued, world, peer>>

SubscriptionCreated ==
    /\ pc = "subscribing" /\ Working
    /\ clientSub' = "current" /\ clientItems' = {}
    /\ Goto("items")
    /\ UNCHANGED <<client, outstanding, server, world, peer>>

\* Browse for the topics, then create the items; a topic without a node has none.
CreateItems ==
    /\ pc = "items" /\ Working
    /\ serverItems' = [t \in Topics |-> serverItems[t] + IF t \in nodes THEN 1 ELSE 0]
    /\ Goto("adding")
    /\ UNCHANGED <<client, subs, sessionAlive, serverSub, queued, world, peer>>

\* Mutant: an item is added whatever its result in the response is.
ItemsCreatedUnchecked ==
    /\ pc = "adding" /\ Working
    /\ pc' = "check" /\ running' = TRUE
    /\ clientItems' = Topics
    /\ wanted' = wanted \cup clientItems'
    /\ UNCHANGED <<client, clientSub, outstanding, server, world, peer>>

\* The client adds the items whose result is good; clientSubscribe starts runClient.
ItemsCreated ==
    /\ pc = "adding" /\ Working
    /\ pc' = "check" /\ running' = TRUE
    /\ clientItems' = Monitored
    /\ wanted' = wanted \cup clientItems'
    /\ UNCHANGED <<client, clientSub, outstanding, server, world, peer>>

\* A reply that does not come is no error: createSubscription returns 0.
ItemsFail ==
    /\ pc \in {"items", "adding"} /\ ~Working
    /\ CallFails
    /\ pc' = "check" /\ running' = TRUE
    /\ UNCHANGED <<wanted, connectStatus, subs, server, world>>

CheckState ==
    /\ pc = "check" /\ ~SessionClosed
    /\ Goto("iterate")
    /\ UNCHANGED <<client, subs, server, world, peer>>

------------------------------------------------------------------------------
(* UA_Client_run_iterate with a session                                     *)

\* backgroundPublish sends publish requests while there are fewer outstanding
\* than MaxRequests; the mutant counts with <= for <.
FilledPastLimit == IF clientSub # "none" THEN MaxRequests + 1 ELSE outstanding
Filled == IF clientSub # "none" THEN MaxRequests ELSE outstanding

\* It counts a request before it sends it and stops at the first that fails.
BackgroundPublish ==
    \/ outstanding' = Filled
    \/ ~peer /\ outstanding' \in outstanding + 1 .. Filled

\* asyncServiceTimeoutCheck: the oldest of the pending calls may have expired.
\* responseActivateSession and responseGetEndpoints keep the status they are
\* given ("Something else is wrong.  Give up."), whatever the session is by
\* then; responseSessionCallback takes it to be closed.
TimeoutCheck(state, pending) ==
    \/ session' = state /\ late' = pending /\ UNCHANGED <<connectStatus, clientSub>>
    \/ \E k \in 1 .. Len(pending) :
          LET closes == Contains(SubSeq(pending, 1, k), "create")
          IN  /\ session' = IF closes THEN "closed" ELSE state
              /\ clientSub' = IF closes THEN Abandoned ELSE clientSub
              /\ late' = SubSeq(pending, k + 1, Len(pending))
              /\ connectStatus' = "bad"

Iterate == pc = "iterate" /\ session = "activated" /\ Return

\* A bad status, whatever it comes from, ends every iteration here.
StayDead ==
    /\ Iterate /\ connectStatus = "bad"
    /\ UNCHANGED <<client, subs, server, world, peer>>

\* UA_Client_renewSecureChannel, from time to time: sendOPNAsync keeps its failure.
RenewFails ==
    /\ Iterate /\ ~peer
    /\ CloseChannel /\ connectStatus' = "bad"
    /\ UNCHANGED <<subs, server, world>>

\* Fill up the publish requests, receive: what was sent on this connection is
\* answered.  On receiving an answer to a publish request the client asks once more.
\* Without a subscription the server answers BADNOSUBSCRIPTION at once, which the
\* client only logs.
RunIterate ==
    /\ Iterate /\ Working
    /\ BackgroundPublish
    /\ queued' = IF serverSub THEN queued + (outstanding' - outstanding) ELSE queued
    /\ sent' = <<>>
    /\ TimeoutCheck("activated", late)
    /\ UNCHANGED <<link, clientItems, sessionAlive, serverSub, serverItems, world, peer>>

\* The send or the receive fails.
RunIterateFails ==
    /\ Iterate /\ ~peer /\ connectStatus = "good"
    /\ BackgroundPublish
    /\ link' = "closed" /\ sent' = <<>>
    /\ TimeoutCheck("created", late \o sent)
    /\ UNCHANGED <<clientItems, server, world, peer>>

Client ==
    \/ ConnectIterate
    \/ Connect \/ Connected \/ ConnectFails
    \/ ClientSubscribe \/ ServerSubscribes \/ SubscriptionCreated \/ SubscriptionFails
    \/ CreateItems \/ ItemsCreated \/ ItemsFail
    \/ CheckState \/ StayDead \/ RenewFails \/ RunIterate \/ RunIterateFails

------------------------------------------------------------------------------
(* The server and the network *)

\* UA_Subscription_publish answers a publish request with a notification or a
\* keep-alive.  An answer that arrives makes the client ask again and changes
\* neither count; one sent on a connection whose loss the server has not seen
\* yet, or to a client that does not receive, is counted as outstanding for ever.
NotifyLost ==
    /\ sessionAlive /\ serverSub /\ ~Working /\ queued > 0
    /\ queued' = queued - 1
    /\ UNCHANGED <<control, client, subs, sessionAlive, serverSub, serverItems, world, peer>>

\* serverPublish creates the node of a topic.
AddNode(t) ==
    /\ up /\ t \notin nodes
    /\ nodes' = nodes \cup {t}
    /\ UNCHANGED <<control, client, subs, server, up, network, faults, peer>>

Happens(kind) == kind \in Faults /\ faults < MaxFaults /\ faults' = faults + 1

ForgetSession ==
    sessionAlive' = FALSE /\ serverSub' = FALSE /\ serverItems' = NoItems /\ queued' = 0

Cut ==
    /\ peer /\ Happens("cut")
    /\ peer' = FALSE
    /\ UNCHANGED <<control, client, subs, server, up, network, nodes>>

Outage ==
    /\ network /\ Happens("outage")
    /\ network' = FALSE /\ peer' = FALSE
    /\ UNCHANGED <<control, client, subs, server, up, nodes>>

Crash ==
    /\ up /\ Happens("crash")
    /\ up' = FALSE /\ peer' = FALSE /\ nodes' = {}
    /\ ForgetSession
    /\ UNCHANGED <<control, client, subs, network>>

\* A request that has reached the server is answered before its session expires.
Expire ==
    /\ sessionAlive /\ ~Working
    /\ peer => sent = <<>>
    /\ Happens("expire")
    /\ ForgetSession
    /\ UNCHANGED <<control, client, subs, up, network, nodes, peer>>

\* lifeTimeCount publishing cycles, longer than createSubscription takes, found
\* no publish request: the subscription is deleted, the session stays.  A client
\* that works lets that happen only if it takes its requests to be outstanding.
Lapse ==
    /\ sessionAlive /\ serverSub /\ queued = 0
    /\ Working => outstanding = MaxRequests /\ pc \in {"check", "iterate"}
    /\ Happens("lapse")
    /\ serverSub' = FALSE /\ serverItems' = NoItems
    /\ UNCHANGED <<control, client, subs, sessionAlive, queued, up, network, nodes, peer>>

Recover ==
    /\ ~up \/ ~network
    /\ up' = TRUE /\ network' = TRUE
    /\ UNCHANGED <<control, client, subs, server, nodes, faults, peer>>

\* The server closes a channel whose token the client does not renew: it renews
\* none before the session is activated, and takes no answer once its status is bad.
ChannelExpires ==
    /\ link = "open" /\ peer /\ sent = <<>>
    /\ session \in {"createRequested", "activateRequested"} \/ connectStatus = "bad"
    /\ peer' = FALSE
    /\ UNCHANGED <<control, client, subs, server, world>>

Environment == Cut \/ Outage \/ Crash \/ Expire \/ Lapse \/ ChannelExpires \/ Recover
                   \/ \E t \in Topics : AddNode(t)

------------------------------------------------------------------------------

Next == Client \/ NotifyLost \/ Environment

Spec == Init /\ [][Next]_vars

(* The application and its thread keep running, an outage ends, the server  *)
(* is started again (the container's restart policy) and the publisher goes *)
(* on publishing on every topic; a server closes the channels that are not  *)
(* renewed.  A connect that can proceed does so within its second.          *)
Fairness ==
    /\ WF_vars(Client)
    /\ SF_vars(ConnectIterate)
    /\ WF_vars(Recover)
    /\ WF_vars(ChannelExpires)
    /\ \A t \in Topics : WF_vars(AddNode(t))

FairSpec == Spec /\ Fairness

------------------------------------------------------------------------------
(* Properties *)

ControlOK ==
    /\ pc \in {"start", "connecting", "crashed", "ready", "subscribe", "subscribing",
               "items", "adding", "check", "iterate", "exited"}
    /\ running \in BOOLEAN /\ wanted \subseteq Topics

LinkOK ==
    /\ link \in {"closed", "opening", "handshake", "open"}
    /\ session \in {"fresh", "discovering", "closed", "createRequested", "created",
                    "activateRequested", "activated", "recreating"}
    /\ connectStatus \in {"good", "bad"} /\ peer \in BOOLEAN
    /\ sent \in Seq(Calls) /\ late \in Seq(Calls)

FlagsOK ==
    /\ clientSub \in {"none", "current", "stale"} /\ clientItems \subseteq Topics
    /\ sessionAlive \in BOOLEAN /\ serverSub \in BOOLEAN
    /\ up \in BOOLEAN /\ network \in BOOLEAN /\ nodes \subseteq Topics

CountsOK ==
    /\ outstanding \in 0 .. MaxRequests /\ queued \in 0 .. MaxRequests
    /\ serverItems \in [Topics -> Nat]
    /\ faults \in 0 .. MaxFaults

TypeOK == ControlOK /\ LinkOK /\ FlagsOK /\ CountsOK

\* However often the connection is lost and made again, no topic of a session
\* is monitored twice: the callback does not get every value twice.
NoDuplicateItems == \A t \in Topics : serverItems[t] <= 1

\* The client never believes it has fewer publish requests at the server than
\* are queued there: else it would send more than the server accepts and, on
\* the answer BADTOOMANYPUBLISHREQUESTS, give up requests or the subscription.
RequestsBounded == sessionAlive => queued <= outstanding

\* An attached client knows the subscription its session has at the server, and
\* all of the items that are monitored in it or, after a reply that was lost, none,
\* whichever of the two forgot an earlier session first: it never takes a topic
\* to be monitored that is not, and is never told of a part of its topics only.
\* Left out: the reply to the subscription is still on its way, or it has lapsed.
ItemsAgree ==
    Attached /\ serverSub /\ pc # "subscribing" =>
        clientSub = "current" /\ clientItems \in {Monitored, {}}

\* runClient (lines 671-672): "if the connection is closed/errored, the
\* connection will be reset and then reconnected".
Reconnects == running ~> Attached

\* runClient gives up in four ways only: it has returned; the process has
\* crashed; a failed attempt or a late time-out has left a status in the library
\* that only a new connection resets, while there is a connection or a session to
\* resume; or the request for a session was lost with its connection and is not
\* repeated on the next.  Whatever else happens, it gets a session back that works.
GivenUp == \/ pc \in {"exited", "crashed"}
           \/ connectStatus = "bad" /\ (link # "closed" \/ ~SessionClosed)
           \/ session = "createRequested" /\ sent = <<>>

ReconnectsUnlessGivenUp == running ~> Working \/ GivenUp

\* And what it has given up stays lost, whatever the server and the network do
\* afterwards: each of the four ways is a trap that no step of the client, of a
\* server that comes back or of a connection that is cut again leads out of.
GivenUpForGood == [][GivenUp => GivenUp' /\ ~Working']_vars

\* What the two ends hold of the subscription is made, learnt and given up in the
\* order SubscriptionViews allows, although each of them may lose the session
\* without the other and each reply may be lost.
Views == INSTANCE SubscriptionViews WITH
             sub <- serverSub, items <- Monitored, known <- clientSub = "current",
             view <- IF clientSub = "current" THEN clientItems ELSE {}
ViewsSpec == Views!Spec

\* runClient (line 665): "auto-reconnect and re-subscribe to the last
\* subscribed topic of the client".  Whenever a session is activated, every
\* topic it once had is monitored again, unless the session is lost first.
Resubscribes ==
    \A t \in Topics :
        (running /\ Attached /\ t \in wanted) ~> (~Attached \/ t \in clientItems)

==============================================================================
