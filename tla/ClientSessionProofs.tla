-------------------------- MODULE ClientSessionProofs --------------------------
(***************************************************************************)
(* Theorems about ClientSession, for any set of topics, any limit of       *)
(* publish requests, any number of faults and every kind of them.          *)
(*                                                                         *)
(* The client and the server each keep a view of one session.  The views   *)
(* agree because of how they come to differ: the client turns to another   *)
(* session only when the server has forgotten this one or is asked for a   *)
(* new one, and a client that missed the reply to its subscription never   *)
(* works again.                                                            *)
(***************************************************************************)
EXTENDS ClientSession, SequenceTheorems, TLAPS

\* A client that works has a session the server knows; one that is about to
\* create a session does so because the server knows none.
SessionInv ==
    /\ Working => sessionAlive
    /\ session = "activated" => link = "open"
    /\ session = "recreating" => ~sessionAlive

\* Without a session there is no subscription, without a subscription there are
\* no items and no requests.
ServerInv ==
    /\ serverSub => sessionAlive
    /\ ~serverSub => serverItems = NoItems /\ queued = 0

\* The client holds a subscription of its session only with a session, and makes
\* another only without.
ClientInv ==
    /\ clientSub = "current" => session \in {"created", "activateRequested", "activated"}
    /\ pc \in {"start", "connecting", "ready", "subscribe", "subscribing"} => clientSub # "current"
    /\ pc \in {"items", "adding"} => clientSub = "current" /\ clientItems = {}
    /\ pc \in {"subscribing", "items"} => serverItems = NoItems
    /\ pc \in {"subscribing", "items", "adding"} /\ Working => serverSub

\* The reply to the subscription was lost, and the client with it.
ReplyLost == pc \in {"exited", "ready", "subscribe", "crashed"} /\ ~Attached

\* A subscription the server has is the client's, with the same items or none,
\* one for each topic, and no more publish requests than the client counts.
ViewsInv ==
    /\ serverSub => \/ clientSub = "current" \/ pc = "subscribing" \/ ReplyLost
                    \/ session \in {"closed", "createRequested"}
    /\ clientSub = "current" /\ serverSub => clientItems \in {Monitored, {}}
    /\ \A t \in Topics : serverItems[t] <= 1
    /\ queued <= outstanding

\* createSubscription is called with a good status, and is over when it gets bad.
StatusInv ==
    connectStatus = "bad" => /\ pc \in {"connecting", "check", "iterate", "crashed", "exited"}
                             /\ pc = "connecting" => session # "activated"

IInv == TypeOK /\ SessionInv /\ ServerInv /\ ClientInv /\ ViewsInv /\ StatusInv

LEMMA InitIInv == Init => IInv
<1> SUFFICES ASSUME Init PROVE IInv
  OBVIOUS
<1> USE ClientAssumption DEF Init, NoItems
<1>1. ControlOK /\ LinkOK /\ FlagsOK
  BY EmptySeq DEF ControlOK, LinkOK, FlagsOK
<1>2. CountsOK
  BY DEF CountsOK
<1>3. SessionInv /\ ServerInv /\ ClientInv /\ StatusInv
  BY DEF SessionInv, ServerInv, ClientInv, StatusInv, Attached, Working
<1>4. ViewsInv
  BY DEF ViewsInv
<1> QED BY <1>1, <1>2, <1>3, <1>4 DEF IInv, TypeOK

------------------------------------------------------------------------------
(* The calls that are pending stay a sequence of calls *)

LEMMA TypedCreates ==
  ASSUME NEW n \in Nat
  PROVE  Creates(n) \in Seq(Calls)
BY DEF Creates, Calls

LEMMA TypedCut ==
  ASSUME NEW s \in Seq(Calls), NEW k \in 1 .. Len(s)
  PROVE  SubSeq(s, k + 1, Len(s)) \in Seq(Calls)
<1>1. \A i \in k + 1 .. Len(s) : s[i] \in Calls
  BY ElementOfSeq
<1> QED BY <1>1, SubSeqProperties

LEMMA TypedCloseChannel ==
  ASSUME TypeOK, CloseChannel
  PROVE  /\ sent' \in Seq(Calls) /\ late' \in Seq(Calls)
         /\ link' = "closed" /\ peer' = FALSE
         /\ session' \in {"fresh", "closed", "createRequested", "created", "recreating"}
BY ConcatProperties, EmptySeq DEF TypeOK, LinkOK, CloseChannel

LEMMA TypedCreateSession ==
  ASSUME TypeOK, NEW n \in Nat \ {0}, NEW pending \in Seq(Calls), CreateSessionAsync(n, pending)
  PROVE  /\ sent' \in Seq(Calls) /\ late' \in Seq(Calls)
         /\ session' \in {"closed", "createRequested"}
         /\ link' \in {link, "closed"}
         /\ connectStatus' \in {connectStatus, "bad"}
<1>1. CASE sent' = sent \o Creates(n) /\ late' = pending
  BY <1>1, TypedCreates, ConcatProperties DEF TypeOK, LinkOK, CreateSessionAsync
<1>2. ASSUME NEW k \in 0 .. n - 1, sent' = <<>>, late' = pending \o sent \o Creates(k)
      PROVE  sent' \in Seq(Calls) /\ late' \in Seq(Calls)
  BY <1>2, TypedCreates, ConcatProperties, EmptySeq DEF TypeOK, LinkOK
<1> QED BY <1>1, <1>2 DEF CreateSessionAsync, TypeOK, LinkOK

LEMMA TypedTimeoutCheck ==
  ASSUME TypeOK, NEW state \in {"created", "activated"}, NEW pending \in Seq(Calls),
         TimeoutCheck(state, pending)
  PROVE  /\ late' \in Seq(Calls)
         /\ \/ session' = state /\ clientSub' = clientSub
            \/ session' = "closed" /\ clientSub' = Abandoned /\ connectStatus' = "bad"
         /\ connectStatus' \in {connectStatus, "bad"}
BY TypedCut DEF TimeoutCheck, TypeOK, LinkOK

------------------------------------------------------------------------------
(* The steps of connectIterate *)

LEMMA OpenStep ==
  ASSUME IInv, StayFailed \/ InitConnect \/ Poll \/ NothingToReceive \/ Handshake
                 \/ ReceiveFails
  PROVE  IInv'
<1> USE ClientAssumption DEF IInv, TypeOK, ControlOK, LinkOK, FlagsOK, CountsOK,
        SessionInv, ServerInv, ClientInv, ViewsInv, StatusInv, ReplyLost, Attached, Working,
        Progress, Iterating, Waiting, Answered, Return, Goto, Monitored, control, calls, client, subs, server, world
<1>1. CASE StayFailed BY <1>1 DEF StayFailed
<1>2. CASE InitConnect BY <1>2 DEF InitConnect
<1>3. CASE Poll
  <2>1. ControlOK' /\ FlagsOK'
    BY <1>3 DEF Poll
  <2>2. LinkOK'
    BY <1>3 DEF Poll
  <2>3. CountsOK'
    BY <1>3 DEF Poll
  <2>4. SessionInv' /\ ServerInv'
    BY <1>3 DEF Poll
  <2>5. ClientInv'
    BY <1>3 DEF Poll
  <2>6. ViewsInv'
    BY <1>3 DEF Poll
  <2>7. StatusInv'
    BY <1>3 DEF Poll
  <2> QED BY <2>1, <2>2, <2>3, <2>4, <2>5, <2>6, <2>7
<1>4. CASE NothingToReceive BY <1>4 DEF NothingToReceive
<1>5. CASE Handshake
  <2>1. sent' \in Seq(Calls) /\ late' \in Seq(Calls)
    BY <1>5, TypedCloseChannel DEF Handshake
  <2>2. ControlOK' /\ FlagsOK'
    BY <1>5, <2>1 DEF Handshake, CloseChannel
  <2>3. LinkOK'
    BY <1>5, <2>1 DEF Handshake, CloseChannel
  <2>4. CountsOK'
    BY <1>5, <2>1 DEF Handshake, CloseChannel
  <2>5. SessionInv' /\ ServerInv'
    BY <1>5, <2>1 DEF Handshake, CloseChannel
  <2>6. ClientInv'
    BY <1>5, <2>1 DEF Handshake, CloseChannel
  <2>7. ViewsInv'
    BY <1>5, <2>1 DEF Handshake, CloseChannel
  <2>8. StatusInv'
    BY <1>5, <2>1 DEF Handshake, CloseChannel
  <2> QED BY <2>2, <2>3, <2>4, <2>5, <2>6, <2>7, <2>8
<1>6. CASE ReceiveFails
  <2>1. sent' \in Seq(Calls) /\ late' \in Seq(Calls)
    BY <1>6, TypedCloseChannel DEF ReceiveFails
  <2>2. ControlOK' /\ FlagsOK'
    BY <1>6, <2>1 DEF ReceiveFails, CloseChannel
  <2>3. LinkOK'
    BY <1>6, <2>1 DEF ReceiveFails, CloseChannel
  <2>4. CountsOK'
    BY <1>6, <2>1 DEF ReceiveFails, CloseChannel
  <2>5. SessionInv' /\ ServerInv'
    BY <1>6, <2>1 DEF ReceiveFails, CloseChannel
  <2>6. ClientInv'
    BY <1>6, <2>1 DEF ReceiveFails, CloseChannel
  <2>7. ViewsInv'
    BY <1>6, <2>1 DEF ReceiveFails, CloseChannel
  <2>8. StatusInv'
    BY <1>6, <2>1 DEF ReceiveFails, CloseChannel
  <2> QED BY <2>2, <2>3, <2>4, <2>5, <2>6, <2>7, <2>8
<1> QED BY <1>1, <1>2, <1>3, <1>4, <1>5, <1>6

LEMMA RequestStep ==
  ASSUME IInv, RequestEndpoints \/ CreateSession \/ ActivateSession
  PROVE  IInv'
<1> USE ClientAssumption DEF IInv, TypeOK, ControlOK, LinkOK, FlagsOK, CountsOK,
        SessionInv, ServerInv, ClientInv, ViewsInv, StatusInv, ReplyLost, Attached, Working,
        Progress, Iterating, Waiting, Answered, Return, Goto, Monitored, control, calls, client, subs, server, world
<1>1. CASE RequestEndpoints
  <2>1. "endpoints" \in Calls
    BY <1>1 DEF Calls
  <2>2. sent' \in Seq(Calls) /\ late' \in Seq(Calls)
    <3>1. CASE sent' = Append(sent, "endpoints") /\ late' = late
      BY <2>1, <3>1, AppendProperties
    <3>2. CASE CloseChannel
      BY <3>2, TypedCloseChannel
    <3> QED BY <1>1, <3>1, <3>2 DEF RequestEndpoints
  <2>3. ControlOK' /\ FlagsOK'
    BY <1>1, <2>1, <2>2 DEF RequestEndpoints, CloseChannel
  <2>4. LinkOK'
    BY <1>1, <2>1, <2>2 DEF RequestEndpoints, CloseChannel
  <2>5. CountsOK'
    BY <1>1, <2>1, <2>2 DEF RequestEndpoints, CloseChannel
  <2>6. SessionInv' /\ ServerInv'
    BY <1>1, <2>1, <2>2 DEF RequestEndpoints, CloseChannel
  <2>7. ClientInv'
    BY <1>1, <2>1, <2>2 DEF RequestEndpoints, CloseChannel
  <2>8. ViewsInv'
    BY <1>1, <2>1, <2>2 DEF RequestEndpoints, CloseChannel
  <2>9. StatusInv'
    BY <1>1, <2>1, <2>2 DEF RequestEndpoints, CloseChannel
  <2> QED BY <2>3, <2>4, <2>5, <2>6, <2>7, <2>8, <2>9
<1>2. CASE CreateSession
  <2>1. sent' \in Seq(Calls) /\ late' \in Seq(Calls)
    BY <1>2, TypedCreateSession DEF CreateSession
  <2>2. ControlOK' /\ FlagsOK'
    BY <1>2, <2>1 DEF CreateSession, CreateSessionAsync
  <2>3. LinkOK'
    BY <1>2, <2>1 DEF CreateSession, CreateSessionAsync
  <2>4. CountsOK'
    BY <1>2, <2>1 DEF CreateSession, CreateSessionAsync
  <2>5. SessionInv' /\ ServerInv'
    BY <1>2, <2>1 DEF CreateSession, CreateSessionAsync
  <2>6. ClientInv'
    BY <1>2, <2>1 DEF CreateSession, CreateSessionAsync
  <2>7. ViewsInv'
    BY <1>2, <2>1 DEF CreateSession, CreateSessionAsync
  <2>8. StatusInv'
    BY <1>2, <2>1 DEF CreateSession, CreateSessionAsync
  <2> QED BY <2>2, <2>3, <2>4, <2>5, <2>6, <2>7, <2>8
<1>3. CASE ActivateSession
  <2>1. "activate" \in Calls
    BY <1>3 DEF Calls
  <2>2. sent' \in Seq(Calls) /\ late' \in Seq(Calls)
    <3>1. CASE sent' = Append(sent, "activate") /\ late' = late
      BY <2>1, <3>1, AppendProperties
    <3>2. CASE sent' = <<>> /\ late' = late \o sent
      BY <3>2, ConcatProperties, EmptySeq
    <3> QED BY <1>3, <3>1, <3>2 DEF ActivateSession
  <2>3. ControlOK' /\ FlagsOK'
    BY <1>3, <2>1, <2>2 DEF ActivateSession
  <2>4. LinkOK'
    BY <1>3, <2>1, <2>2 DEF ActivateSession
  <2>5. CountsOK'
    BY <1>3, <2>1, <2>2 DEF ActivateSession
  <2>6. SessionInv' /\ ServerInv'
    BY <1>3, <2>1, <2>2 DEF ActivateSession
  <2>7. ClientInv'
    BY <1>3, <2>1, <2>2 DEF ActivateSession
  <2>8. ViewsInv'
    BY <1>3, <2>1, <2>2 DEF ActivateSession
  <2>9. StatusInv'
    BY <1>3, <2>1, <2>2 DEF ActivateSession
  <2> QED BY <2>3, <2>4, <2>5, <2>6, <2>7, <2>8, <2>9
<1> QED BY <1>1, <1>2, <1>3

LEMMA AnswerStep ==
  ASSUME IInv, EndpointsFound \/ SessionCreated \/ SessionRefused \/ SessionActivated
                 \/ SessionLost
  PROVE  IInv'
<1> USE ClientAssumption DEF IInv, TypeOK, ControlOK, LinkOK, FlagsOK, CountsOK,
        SessionInv, ServerInv, ClientInv, ViewsInv, StatusInv, ReplyLost, Attached, Working,
        Progress, Iterating, Waiting, Answered, Return, Goto, Monitored, control, calls, client, subs, server, world
<1>1. CASE EndpointsFound
  <2>1. sent' \in Seq(Calls)
    BY <1>1, HeadTailProperties DEF EndpointsFound
  <2>2. ControlOK' /\ FlagsOK'
    BY <1>1, <2>1 DEF EndpointsFound
  <2>3. LinkOK'
    BY <1>1, <2>1 DEF EndpointsFound
  <2>4. CountsOK'
    BY <1>1, <2>1 DEF EndpointsFound
  <2>5. SessionInv' /\ ServerInv'
    BY <1>1, <2>1 DEF EndpointsFound
  <2>6. ClientInv'
    BY <1>1, <2>1 DEF EndpointsFound
  <2>7. ViewsInv'
    BY <1>1, <2>1 DEF EndpointsFound
  <2>8. StatusInv'
    BY <1>1, <2>1 DEF EndpointsFound
  <2> QED BY <2>2, <2>3, <2>4, <2>5, <2>6, <2>7, <2>8
<1>2. CASE SessionCreated
  <2>1. sent' \in Seq(Calls)
    BY <1>2, HeadTailProperties DEF SessionCreated
  <2>2. ControlOK' /\ FlagsOK'
    BY <1>2, <2>1 DEF SessionCreated, Abandoned, NoItems
  <2>3. LinkOK'
    BY <1>2, <2>1 DEF SessionCreated, Abandoned, NoItems
  <2>4. CountsOK'
    BY <1>2, <2>1 DEF SessionCreated, Abandoned, NoItems
  <2>5. SessionInv' /\ ServerInv'
    BY <1>2, <2>1 DEF SessionCreated, Abandoned, NoItems
  <2>6. ClientInv'
    BY <1>2, <2>1 DEF SessionCreated, Abandoned, NoItems
  <2>7. ViewsInv'
    BY <1>2, <2>1 DEF SessionCreated, Abandoned, NoItems
  <2>8. StatusInv'
    BY <1>2, <2>1 DEF SessionCreated, Abandoned, NoItems
  <2> QED BY <2>2, <2>3, <2>4, <2>5, <2>6, <2>7, <2>8
<1>3. CASE SessionRefused
  <2>1. sent' \in Seq(Calls)
    BY <1>3, HeadTailProperties DEF SessionRefused
  <2>2. ControlOK' /\ FlagsOK'
    BY <1>3, <2>1 DEF SessionRefused, Abandoned
  <2>3. LinkOK'
    BY <1>3, <2>1 DEF SessionRefused, Abandoned
  <2>4. CountsOK'
    BY <1>3, <2>1 DEF SessionRefused, Abandoned
  <2>5. SessionInv' /\ ServerInv'
    BY <1>3, <2>1 DEF SessionRefused, Abandoned
  <2>6. ClientInv'
    BY <1>3, <2>1 DEF SessionRefused, Abandoned
  <2>7. ViewsInv'
    BY <1>3, <2>1 DEF SessionRefused, Abandoned
  <2>8. StatusInv'
    BY <1>3, <2>1 DEF SessionRefused, Abandoned
  <2> QED BY <2>2, <2>3, <2>4, <2>5, <2>6, <2>7, <2>8
<1>4. CASE SessionActivated
  <2>1. sent' \in Seq(Calls)
    BY <1>4, HeadTailProperties DEF SessionActivated
  <2>2. ControlOK' /\ FlagsOK'
    BY <1>4, <2>1 DEF SessionActivated
  <2>3. LinkOK'
    BY <1>4, <2>1 DEF SessionActivated
  <2>4. CountsOK'
    BY <1>4, <2>1 DEF SessionActivated
  <2>5. SessionInv' /\ ServerInv'
    BY <1>4, <2>1 DEF SessionActivated
  <2>6. ClientInv'
    BY <1>4, <2>1 DEF SessionActivated
  <2>7. ViewsInv'
    BY <1>4, <2>1 DEF SessionActivated
  <2>8. StatusInv'
    BY <1>4, <2>1 DEF SessionActivated
  <2> QED BY <2>2, <2>3, <2>4, <2>5, <2>6, <2>7, <2>8
<1>5. CASE SessionLost
  <2>1. sent' \in Seq(Calls)
    BY <1>5, HeadTailProperties DEF SessionLost
  <2>2. ControlOK' /\ FlagsOK'
    BY <1>5, <2>1 DEF SessionLost
  <2>3. LinkOK'
    BY <1>5, <2>1 DEF SessionLost
  <2>4. CountsOK'
    BY <1>5, <2>1 DEF SessionLost
  <2>5. SessionInv' /\ ServerInv'
    BY <1>5, <2>1 DEF SessionLost
  <2>6. ClientInv'
    BY <1>5, <2>1 DEF SessionLost
  <2>7. ViewsInv'
    BY <1>5, <2>1 DEF SessionLost
  <2>8. StatusInv'
    BY <1>5, <2>1 DEF SessionLost
  <2> QED BY <2>2, <2>3, <2>4, <2>5, <2>6, <2>7, <2>8
<1> QED BY <1>1, <1>2, <1>3, <1>4, <1>5

LEMMA RecreateStep ==
  ASSUME IInv, Recreate \/ RecreateFails \/ RecreateCrashes
  PROVE  IInv'
<1> USE ClientAssumption DEF IInv, TypeOK, ControlOK, LinkOK, FlagsOK, CountsOK,
        SessionInv, ServerInv, ClientInv, ViewsInv, StatusInv, ReplyLost, Attached, Working,
        Progress, Iterating, Waiting, Answered, Return, Goto, Monitored, control, calls, client, subs, server, world
<1>1. CASE Recreate
  <2>1. PICK n \in Nat \ {0} : CreateSessionAsync(n, <<>>)
    BY <1>1, LenProperties DEF Recreate
  <2>2. <<>> \in Seq(Calls)
    BY <1>1, EmptySeq
  <2>3. /\ sent' \in Seq(Calls) /\ late' \in Seq(Calls)
        /\ session' \in {"closed", "createRequested"}
        /\ link' \in {link, "closed"} /\ connectStatus' \in {connectStatus, "bad"}
    BY <1>1, <2>1, <2>2, TypedCreateSession
  <2>4. ControlOK' /\ FlagsOK'
    BY <1>1, <2>1, <2>2, <2>3 DEF Recreate
  <2>5. LinkOK'
    BY <1>1, <2>1, <2>2, <2>3 DEF Recreate
  <2>6. CountsOK'
    BY <1>1, <2>1, <2>2, <2>3 DEF Recreate
  <2>7. SessionInv' /\ ServerInv'
    BY <1>1, <2>1, <2>2, <2>3 DEF Recreate
  <2>8. ClientInv'
    BY <1>1, <2>1, <2>2, <2>3 DEF Recreate
  <2>9. ViewsInv'
    BY <1>1, <2>1, <2>2, <2>3 DEF Recreate
  <2>10. StatusInv'
    BY <1>1, <2>1, <2>2, <2>3 DEF Recreate
  <2> QED BY <2>4, <2>5, <2>6, <2>7, <2>8, <2>9, <2>10
<1>2. CASE RecreateFails
  <2>1. sent' \in Seq(Calls) /\ late' \in Seq(Calls)
    BY <1>2, EmptySeq DEF RecreateFails
  <2>2. ControlOK' /\ FlagsOK'
    BY <1>2, <2>1 DEF RecreateFails
  <2>3. LinkOK'
    BY <1>2, <2>1 DEF RecreateFails
  <2>4. CountsOK'
    BY <1>2, <2>1 DEF RecreateFails
  <2>5. SessionInv' /\ ServerInv'
    BY <1>2, <2>1 DEF RecreateFails
  <2>6. ClientInv'
    BY <1>2, <2>1 DEF RecreateFails
  <2>7. ViewsInv'
    BY <1>2, <2>1 DEF RecreateFails
  <2>8. StatusInv'
    BY <1>2, <2>1 DEF RecreateFails
  <2> QED BY <2>2, <2>3, <2>4, <2>5, <2>6, <2>7, <2>8
<1>3. CASE RecreateCrashes
  <2>1. sent' \in Seq(Calls) /\ late' \in Seq(Calls)
    BY <1>3, EmptySeq DEF RecreateCrashes
  <2>2. ControlOK' /\ FlagsOK'
    BY <1>3, <2>1 DEF RecreateCrashes
  <2>3. LinkOK'
    BY <1>3, <2>1 DEF RecreateCrashes
  <2>4. CountsOK'
    BY <1>3, <2>1 DEF RecreateCrashes
  <2>5. SessionInv' /\ ServerInv'
    BY <1>3, <2>1 DEF RecreateCrashes
  <2>6. ClientInv'
    BY <1>3, <2>1 DEF RecreateCrashes
  <2>7. ViewsInv'
    BY <1>3, <2>1 DEF RecreateCrashes
  <2>8. StatusInv'
    BY <1>3, <2>1 DEF RecreateCrashes
  <2> QED BY <2>2, <2>3, <2>4, <2>5, <2>6, <2>7, <2>8
<1> QED BY <1>1, <1>2, <1>3

------------------------------------------------------------------------------
(* The steps of the wrapper *)

LEMMA WrapperStep ==
  ASSUME IInv, Connect \/ Connected \/ ConnectFails \/ ClientSubscribe \/ CheckState
  PROVE  IInv'
<1> USE ClientAssumption DEF IInv, TypeOK, ControlOK, LinkOK, FlagsOK, CountsOK,
        SessionInv, ServerInv, ClientInv, ViewsInv, StatusInv, ReplyLost, Attached, Working,
        Goto, Monitored, SessionClosed, control, calls, client, subs, server, world
<1>1. CASE Connect BY <1>1 DEF Connect
<1>2. CASE Connected BY <1>2 DEF Connected
<1>3. CASE ConnectFails BY <1>3 DEF ConnectFails
<1>4. CASE ClientSubscribe BY <1>4 DEF ClientSubscribe
<1>5. CASE CheckState BY <1>5 DEF CheckState
<1> QED BY <1>1, <1>2, <1>3, <1>4, <1>5

LEMMA SubscribeStep ==
  ASSUME IInv, SubscriptionFails \/ ServerSubscribes \/ SubscriptionCreated
                 \/ CreateItems \/ ItemsCreated \/ ItemsFail
  PROVE  IInv'
<1> USE ClientAssumption DEF IInv, TypeOK, ControlOK, LinkOK, FlagsOK, CountsOK,
        SessionInv, ServerInv, ClientInv, ViewsInv, StatusInv, ReplyLost, Attached, Working,
        Goto, Monitored, SessionClosed, control, calls, client, subs, server, world
<1>1. CASE SubscriptionFails
  <2>1. ~Attached
    BY <1>1 DEF SubscriptionFails
  <2>2. /\ sent' \in Seq(Calls) /\ late' \in Seq(Calls)
        /\ ~Attached'
    <3>1. CASE CloseChannel
      BY <3>1, TypedCloseChannel
    <3>2. CASE UNCHANGED <<link, session, calls, peer>>
      BY <2>1, <3>2
    <3> QED BY <1>1, <3>1, <3>2 DEF SubscriptionFails, CallFails
  <2>3. ControlOK' /\ FlagsOK'
    BY <1>1, <2>1, <2>2 DEF SubscriptionFails, CallFails, CloseChannel
  <2>4. LinkOK'
    BY <1>1, <2>1, <2>2 DEF SubscriptionFails, CallFails, CloseChannel
  <2>5. CountsOK'
    BY <1>1, <2>1, <2>2 DEF SubscriptionFails, CallFails, CloseChannel
  <2>6. SessionInv' /\ ServerInv'
    BY <1>1, <2>1, <2>2 DEF SubscriptionFails, CallFails, CloseChannel
  <2>7. ClientInv'
    BY <1>1, <2>1, <2>2 DEF SubscriptionFails, CallFails, CloseChannel
  <2>8. ViewsInv'
    BY <1>1, <2>1, <2>2 DEF SubscriptionFails, CallFails, CloseChannel
  <2>9. StatusInv'
    BY <1>1, <2>1, <2>2 DEF SubscriptionFails, CallFails, CloseChannel
  <2> QED BY <2>3, <2>4, <2>5, <2>6, <2>7, <2>8, <2>9
<1>2. CASE ServerSubscribes
  <2>1. ControlOK' /\ FlagsOK'
    BY <1>2 DEF ServerSubscribes
  <2>2. LinkOK'
    BY <1>2 DEF ServerSubscribes
  <2>3. CountsOK'
    BY <1>2 DEF ServerSubscribes
  <2>4. SessionInv' /\ ServerInv'
    BY <1>2 DEF ServerSubscribes
  <2>5. ClientInv'
    BY <1>2 DEF ServerSubscribes
  <2>6. ViewsInv'
    BY <1>2 DEF ServerSubscribes
  <2>7. StatusInv'
    BY <1>2 DEF ServerSubscribes
  <2> QED BY <2>1, <2>2, <2>3, <2>4, <2>5, <2>6, <2>7
<1>3. CASE SubscriptionCreated
  <2>1. ControlOK' /\ FlagsOK'
    BY <1>3 DEF SubscriptionCreated
  <2>2. LinkOK'
    BY <1>3 DEF SubscriptionCreated
  <2>3. CountsOK'
    BY <1>3 DEF SubscriptionCreated
  <2>4. SessionInv' /\ ServerInv'
    BY <1>3 DEF SubscriptionCreated
  <2>5. ClientInv'
    BY <1>3 DEF SubscriptionCreated
  <2>6. ViewsInv'
    BY <1>3 DEF SubscriptionCreated
  <2>7. StatusInv'
    BY <1>3 DEF SubscriptionCreated
  <2> QED BY <2>1, <2>2, <2>3, <2>4, <2>5, <2>6, <2>7
<1>4. CASE CreateItems
  <2>1. \A t \in Topics : serverItems[t] = 0 /\ serverItems'[t] = IF t \in nodes THEN 1 ELSE 0
    BY <1>4 DEF CreateItems, NoItems
  <2>2. ControlOK' /\ FlagsOK'
    BY <1>4, <2>1 DEF CreateItems, NoItems
  <2>3. LinkOK'
    BY <1>4, <2>1 DEF CreateItems, NoItems
  <2>4. CountsOK'
    BY <1>4, <2>1 DEF CreateItems, NoItems
  <2>5. SessionInv' /\ ServerInv'
    BY <1>4, <2>1 DEF CreateItems, NoItems
  <2>6. ClientInv'
    BY <1>4, <2>1 DEF CreateItems, NoItems
  <2>7. ViewsInv'
    BY <1>4, <2>1 DEF CreateItems, NoItems
  <2>8. StatusInv'
    BY <1>4, <2>1 DEF CreateItems, NoItems
  <2> QED BY <2>2, <2>3, <2>4, <2>5, <2>6, <2>7, <2>8
<1>5. CASE ItemsCreated
  <2>1. ControlOK' /\ FlagsOK'
    BY <1>5 DEF ItemsCreated
  <2>2. LinkOK'
    BY <1>5 DEF ItemsCreated
  <2>3. CountsOK'
    BY <1>5 DEF ItemsCreated
  <2>4. SessionInv' /\ ServerInv'
    BY <1>5 DEF ItemsCreated
  <2>5. ClientInv'
    BY <1>5 DEF ItemsCreated
  <2>6. ViewsInv'
    BY <1>5 DEF ItemsCreated
  <2>7. StatusInv'
    BY <1>5 DEF ItemsCreated
  <2> QED BY <2>1, <2>2, <2>3, <2>4, <2>5, <2>6, <2>7
<1>6. CASE ItemsFail
  <2>1. ~Attached
    BY <1>6 DEF ItemsFail
  <2>2. /\ sent' \in Seq(Calls) /\ late' \in Seq(Calls)
        /\ ~Attached'
    <3>1. CASE CloseChannel
      BY <3>1, TypedCloseChannel
    <3>2. CASE UNCHANGED <<link, session, calls, peer>>
      BY <2>1, <3>2
    <3> QED BY <1>6, <3>1, <3>2 DEF ItemsFail, CallFails
  <2>3. ControlOK' /\ FlagsOK'
    BY <1>6, <2>1, <2>2 DEF ItemsFail, CallFails, CloseChannel
  <2>4. LinkOK'
    BY <1>6, <2>1, <2>2 DEF ItemsFail, CallFails, CloseChannel
  <2>5. CountsOK'
    BY <1>6, <2>1, <2>2 DEF ItemsFail, CallFails, CloseChannel
  <2>6. SessionInv' /\ ServerInv'
    BY <1>6, <2>1, <2>2 DEF ItemsFail, CallFails, CloseChannel
  <2>7. ClientInv'
    BY <1>6, <2>1, <2>2 DEF ItemsFail, CallFails, CloseChannel
  <2>8. ViewsInv'
    BY <1>6, <2>1, <2>2 DEF ItemsFail, CallFails, CloseChannel
  <2>9. StatusInv'
    BY <1>6, <2>1, <2>2 DEF ItemsFail, CallFails, CloseChannel
  <2> QED BY <2>3, <2>4, <2>5, <2>6, <2>7, <2>8, <2>9
<1> QED BY <1>1, <1>2, <1>3, <1>4, <1>5, <1>6

------------------------------------------------------------------------------
(* The steps of UA_Client_run_iterate with a session *)

LEMMA Granted ==
  ASSUME NEW a \in Nat, NEW b \in Nat, NEW q \in Nat, q <= a, a <= b, b <= MaxRequests
  PROVE  q + (b - a) \in 0 .. MaxRequests /\ q + (b - a) <= b
BY ClientAssumption

LEMMA IterateStep ==
  ASSUME IInv, StayDead \/ RenewFails \/ RunIterate \/ RunIterateFails
  PROVE  IInv'
<1> USE ClientAssumption DEF IInv, TypeOK, ControlOK, LinkOK, FlagsOK, CountsOK,
        SessionInv, ServerInv, ClientInv, ViewsInv, StatusInv, ReplyLost, Attached, Working,
        Iterate, Return, Goto, Monitored, Abandoned, calls, client, subs, server, world
<1>1. CASE StayDead BY <1>1 DEF StayDead
<1>2. CASE RenewFails
  <2>1. sent' \in Seq(Calls) /\ late' \in Seq(Calls)
    BY <1>2, TypedCloseChannel DEF RenewFails
  <2>2. ControlOK' /\ FlagsOK'
    BY <1>2, <2>1 DEF RenewFails, CloseChannel
  <2>3. LinkOK'
    BY <1>2, <2>1 DEF RenewFails, CloseChannel
  <2>4. CountsOK'
    BY <1>2, <2>1 DEF RenewFails, CloseChannel
  <2>5. SessionInv' /\ ServerInv'
    BY <1>2, <2>1 DEF RenewFails, CloseChannel
  <2>6. ClientInv'
    BY <1>2, <2>1 DEF RenewFails, CloseChannel
  <2>7. ViewsInv'
    BY <1>2, <2>1 DEF RenewFails, CloseChannel
  <2>8. StatusInv'
    BY <1>2, <2>1 DEF RenewFails, CloseChannel
  <2> QED BY <2>2, <2>3, <2>4, <2>5, <2>6, <2>7, <2>8
<1>3. CASE RunIterate
  <2>1. /\ late' \in Seq(Calls)
        /\ \/ session' = "activated" /\ clientSub' = clientSub
           \/ session' = "closed" /\ clientSub' = Abandoned /\ connectStatus' = "bad"
        /\ connectStatus' \in {connectStatus, "bad"}
    BY <1>3, TypedTimeoutCheck DEF RunIterate
  <2>2. outstanding' \in 0 .. MaxRequests /\ outstanding' >= outstanding
    BY <1>3 DEF RunIterate, BackgroundPublish, Filled
  <2>3. sent' \in Seq(Calls)
    BY <1>3, EmptySeq DEF RunIterate
  <2>4. queued' \in 0 .. MaxRequests /\ queued' <= outstanding'
    <3>1. CASE serverSub
      <4>1. queued' = queued + (outstanding' - outstanding)
        BY <1>3, <3>1 DEF RunIterate
      <4>2. queued <= outstanding /\ queued \in Nat /\ outstanding \in Nat
        OBVIOUS
      <4>3. outstanding' \in Nat /\ outstanding' <= MaxRequests /\ outstanding' >= outstanding
        BY <2>2
      <4> QED BY ONLY <4>1, <4>2, <4>3, Granted, ClientAssumption
    <3>2. CASE ~serverSub
      BY <1>3, <2>2, <3>2 DEF RunIterate
    <3> QED BY <3>1, <3>2
  <2>5. ControlOK' /\ FlagsOK'
    BY <1>3, <2>1, <2>2, <2>3, <2>4 DEF RunIterate
  <2>6. LinkOK'
    BY <1>3, <2>1, <2>2, <2>3, <2>4 DEF RunIterate
  <2>7. CountsOK'
    BY <1>3, <2>1, <2>2, <2>3, <2>4 DEF RunIterate
  <2>8. SessionInv' /\ ServerInv'
    BY <1>3, <2>1, <2>2, <2>3, <2>4 DEF RunIterate
  <2>9. ClientInv'
    BY <1>3, <2>1, <2>2, <2>3, <2>4 DEF RunIterate
  <2>10. ViewsInv'
    BY <1>3, <2>1, <2>2, <2>3, <2>4 DEF RunIterate
  <2>11. StatusInv'
    BY <1>3, <2>1, <2>2, <2>3, <2>4 DEF RunIterate
  <2> QED BY <2>5, <2>6, <2>7, <2>8, <2>9, <2>10, <2>11
<1>4. CASE RunIterateFails
  <2>1. /\ late' \in Seq(Calls)
        /\ \/ session' = "created" /\ clientSub' = clientSub
           \/ session' = "closed" /\ clientSub' = Abandoned /\ connectStatus' = "bad"
        /\ connectStatus' \in {connectStatus, "bad"}
    BY <1>4, TypedTimeoutCheck, ConcatProperties DEF RunIterateFails
  <2>2. outstanding' \in 0 .. MaxRequests /\ outstanding' >= outstanding
    BY <1>4 DEF RunIterateFails, BackgroundPublish, Filled
  <2>3. sent' \in Seq(Calls)
    BY <1>4, EmptySeq DEF RunIterateFails
  <2>4. ControlOK' /\ FlagsOK'
    BY <1>4, <2>1, <2>2, <2>3 DEF RunIterateFails
  <2>5. LinkOK'
    BY <1>4, <2>1, <2>2, <2>3 DEF RunIterateFails
  <2>6. CountsOK'
    BY <1>4, <2>1, <2>2, <2>3 DEF RunIterateFails
  <2>7. SessionInv' /\ ServerInv'
    BY <1>4, <2>1, <2>2, <2>3 DEF RunIterateFails
  <2>8. ClientInv'
    BY <1>4, <2>1, <2>2, <2>3 DEF RunIterateFails
  <2>9. ViewsInv'
    BY <1>4, <2>1, <2>2, <2>3 DEF RunIterateFails
  <2>10. StatusInv'
    BY <1>4, <2>1, <2>2, <2>3 DEF RunIterateFails
  <2> QED BY <2>4, <2>5, <2>6, <2>7, <2>8, <2>9, <2>10
<1> QED BY <1>1, <1>2, <1>3, <1>4

------------------------------------------------------------------------------
(* The steps of the server and of the network *)

LEMMA ServerStep ==
  ASSUME IInv, NotifyLost \/ Cut \/ Outage \/ Crash \/ Expire \/ Lapse
                 \/ ChannelExpires \/ Recover \/ (\E t \in Topics : AddNode(t))
  PROVE  IInv'
<1> USE ClientAssumption DEF IInv, TypeOK, ControlOK, LinkOK, FlagsOK, CountsOK,
        SessionInv, ServerInv, ClientInv, ViewsInv, StatusInv, ReplyLost, Attached, Working,
        Monitored, Happens, control, calls, client, subs, server, world
<1>1. CASE NotifyLost
  <2>1. ControlOK' /\ FlagsOK'
    BY <1>1 DEF NotifyLost
  <2>2. LinkOK'
    BY <1>1 DEF NotifyLost
  <2>3. CountsOK'
    BY <1>1 DEF NotifyLost
  <2>4. SessionInv' /\ ServerInv'
    BY <1>1 DEF NotifyLost
  <2>5. ClientInv'
    BY <1>1 DEF NotifyLost
  <2>6. ViewsInv'
    BY <1>1 DEF NotifyLost
  <2>7. StatusInv'
    BY <1>1 DEF NotifyLost
  <2> QED BY <2>1, <2>2, <2>3, <2>4, <2>5, <2>6, <2>7
<1>2. CASE Cut
  <2>1. ControlOK' /\ FlagsOK'
    BY <1>2 DEF Cut
  <2>2. LinkOK'
    BY <1>2 DEF Cut
  <2>3. CountsOK'
    BY <1>2 DEF Cut
  <2>4. SessionInv' /\ ServerInv'
    BY <1>2 DEF Cut
  <2>5. ClientInv'
    BY <1>2 DEF Cut
  <2>6. ViewsInv'
    BY <1>2 DEF Cut
  <2>7. StatusInv'
    BY <1>2 DEF Cut
  <2> QED BY <2>1, <2>2, <2>3, <2>4, <2>5, <2>6, <2>7
<1>3. CASE Outage
  <2>1. ControlOK' /\ FlagsOK'
    BY <1>3 DEF Outage
  <2>2. LinkOK'
    BY <1>3 DEF Outage
  <2>3. CountsOK'
    BY <1>3 DEF Outage
  <2>4. SessionInv' /\ ServerInv'
    BY <1>3 DEF Outage
  <2>5. ClientInv'
    BY <1>3 DEF Outage
  <2>6. ViewsInv'
    BY <1>3 DEF Outage
  <2>7. StatusInv'
    BY <1>3 DEF Outage
  <2> QED BY <2>1, <2>2, <2>3, <2>4, <2>5, <2>6, <2>7
<1>4. CASE Crash
  <2>1. ControlOK' /\ FlagsOK'
    BY <1>4 DEF Crash, ForgetSession, NoItems
  <2>2. LinkOK'
    BY <1>4 DEF Crash, ForgetSession, NoItems
  <2>3. CountsOK'
    BY <1>4 DEF Crash, ForgetSession, NoItems
  <2>4. SessionInv' /\ ServerInv'
    BY <1>4 DEF Crash, ForgetSession, NoItems
  <2>5. ClientInv'
    BY <1>4 DEF Crash, ForgetSession, NoItems
  <2>6. ViewsInv'
    BY <1>4 DEF Crash, ForgetSession, NoItems
  <2>7. StatusInv'
    BY <1>4 DEF Crash, ForgetSession, NoItems
  <2> QED BY <2>1, <2>2, <2>3, <2>4, <2>5, <2>6, <2>7
<1>5. CASE Expire
  <2>1. ControlOK' /\ FlagsOK'
    BY <1>5 DEF Expire, ForgetSession, NoItems
  <2>2. LinkOK'
    BY <1>5 DEF Expire, ForgetSession, NoItems
  <2>3. CountsOK'
    BY <1>5 DEF Expire, ForgetSession, NoItems
  <2>4. SessionInv' /\ ServerInv'
    BY <1>5 DEF Expire, ForgetSession, NoItems
  <2>5. ClientInv'
    BY <1>5 DEF Expire, ForgetSession, NoItems
  <2>6. ViewsInv'
    BY <1>5 DEF Expire, ForgetSession, NoItems
  <2>7. StatusInv'
    BY <1>5 DEF Expire, ForgetSession, NoItems
  <2> QED BY <2>1, <2>2, <2>3, <2>4, <2>5, <2>6, <2>7
<1>6. CASE Lapse
  <2>1. ControlOK' /\ FlagsOK'
    BY <1>6 DEF Lapse, NoItems
  <2>2. LinkOK'
    BY <1>6 DEF Lapse, NoItems
  <2>3. CountsOK'
    BY <1>6 DEF Lapse, NoItems
  <2>4. SessionInv' /\ ServerInv'
    BY <1>6 DEF Lapse, NoItems
  <2>5. ClientInv'
    BY <1>6 DEF Lapse, NoItems
  <2>6. ViewsInv'
    BY <1>6 DEF Lapse, NoItems
  <2>7. StatusInv'
    BY <1>6 DEF Lapse, NoItems
  <2> QED BY <2>1, <2>2, <2>3, <2>4, <2>5, <2>6, <2>7
<1>7. CASE ChannelExpires
  <2>1. ControlOK' /\ FlagsOK'
    BY <1>7 DEF ChannelExpires
  <2>2. LinkOK'
    BY <1>7 DEF ChannelExpires
  <2>3. CountsOK'
    BY <1>7 DEF ChannelExpires
  <2>4. SessionInv' /\ ServerInv'
    BY <1>7 DEF ChannelExpires
  <2>5. ClientInv'
    BY <1>7 DEF ChannelExpires
  <2>6. ViewsInv'
    BY <1>7 DEF ChannelExpires
  <2>7. StatusInv'
    BY <1>7 DEF ChannelExpires
  <2> QED BY <2>1, <2>2, <2>3, <2>4, <2>5, <2>6, <2>7
<1>8. CASE Recover BY <1>8 DEF Recover
<1>9. CASE (\E t \in Topics : AddNode(t)) BY <1>9 DEF AddNode
<1> QED BY <1>1, <1>2, <1>3, <1>4, <1>5, <1>6, <1>7, <1>8, <1>9

------------------------------------------------------------------------------
(* The invariant holds *)

LEMMA NextIInv == IInv /\ [Next]_vars => IInv'
<1> SUFFICES ASSUME IInv, [Next]_vars PROVE IInv'
  OBVIOUS
<1>1. CASE Client
  BY <1>1, OpenStep, RequestStep, AnswerStep, RecreateStep, WrapperStep, SubscribeStep, IterateStep
  DEF Client, ConnectIterate
<1>2. CASE NotifyLost \/ Environment
  BY <1>2, ServerStep DEF Environment
<1>3. CASE UNCHANGED vars
  BY <1>3 DEF vars, control, calls, client, subs, server, world, IInv, TypeOK, ControlOK, LinkOK,
              FlagsOK, CountsOK, SessionInv, ServerInv, ClientInv, ViewsInv, StatusInv,
              ReplyLost, Attached, Working, Monitored
<1> QED BY <1>1, <1>2, <1>3 DEF Next

LEMMA Invariance == Spec => []IInv
BY InitIInv, NextIInv, PTL DEF Spec

\* Every variable keeps its type: in particular neither count of publish
\* requests passes outStandingPublishRequests.
THEOREM ClientTypeCorrect == Spec => []TypeOK
<1>1. IInv => TypeOK
  BY DEF IInv
<1> QED BY <1>1, Invariance, PTL

\* Whatever is lost and made again, no topic of a session is monitored twice.
THEOREM MonitoredOnce == Spec => []NoDuplicateItems
<1>1. IInv => NoDuplicateItems
  BY DEF IInv, ViewsInv, NoDuplicateItems
<1> QED BY <1>1, Invariance, PTL

\* The server never holds more publish requests than the client counts.
THEOREM RequestsAreCounted == Spec => []RequestsBounded
<1>1. IInv => RequestsBounded
  BY DEF IInv, ViewsInv, RequestsBounded
<1> QED BY <1>1, Invariance, PTL

\* An attached client takes to be monitored what its subscription at the server
\* monitors or, after a reply that was lost, nothing.
THEOREM ViewsAgree == Spec => []ItemsAgree
<1>1. ASSUME IInv PROVE ItemsAgree
  BY <1>1 DEF IInv, ViewsInv, ReplyLost, ItemsAgree, Attached
<1> QED BY <1>1, Invariance, PTL

------------------------------------------------------------------------------
(* Giving up is for good *)

\* A thread that has returned, or crashed, had lost the server; a client whose
\* status is bad is past createSubscription and not about to call it.
TrapInv ==
    /\ pc \in {"exited", "crashed"} => ~Attached
    /\ connectStatus \in {"good", "bad"} /\ StatusInv
    /\ pc = "start" => session = "fresh"

LEMMA NextTrapInv == TrapInv /\ [Next]_vars => TrapInv'
<1> SUFFICES ASSUME TrapInv, [Next]_vars PROVE TrapInv'
  OBVIOUS
<1> USE DEF TrapInv, StatusInv, Attached, Working, Goto, Return, control, calls, client, subs,
        server, world
<1>1. CASE ConnectIterate
  <2> USE DEF Iterating, Progress, Waiting, CloseChannel
  <2>1. CASE StayFailed \/ InitConnect \/ Poll \/ Handshake \/ ReceiveFails \/ NothingToReceive
    BY <2>1 DEF StayFailed, InitConnect, Poll, Handshake, ReceiveFails, NothingToReceive
  <2>2. CASE RequestEndpoints \/ CreateSession \/ ActivateSession
    BY <2>2 DEF RequestEndpoints, CreateSession, ActivateSession, CreateSessionAsync
  <2>3. CASE \/ EndpointsFound \/ SessionCreated \/ SessionRefused
             \/ SessionActivated \/ SessionLost
    BY <2>3 DEF EndpointsFound, SessionCreated, SessionRefused, SessionActivated, SessionLost,
       Answered
  <2>4. CASE Recreate \/ RecreateFails \/ RecreateCrashes
    BY <2>4 DEF Recreate, RecreateFails, RecreateCrashes, CreateSessionAsync
  <2> QED BY <1>1, <2>1, <2>2, <2>3, <2>4 DEF ConnectIterate
<1>2. CASE Connect \/ Connected \/ ConnectFails
  BY <1>2 DEF Connect, Connected, ConnectFails, SessionClosed
<1>7. CASE ClientSubscribe \/ ServerSubscribes \/ SubscriptionCreated
  BY <1>7 DEF ClientSubscribe, ServerSubscribes, SubscriptionCreated
<1>8. CASE SubscriptionFails
  BY <1>8 DEF SubscriptionFails, CallFails, CloseChannel
<1>3. CASE CreateItems \/ ItemsCreated \/ ItemsFail \/ CheckState
  BY <1>3 DEF CreateItems, ItemsCreated, ItemsFail, CallFails, CheckState, CloseChannel
<1>4. CASE StayDead \/ RenewFails \/ RunIterate \/ RunIterateFails
  BY <1>4 DEF StayDead, RenewFails, RunIterate, RunIterateFails, Iterate, TimeoutCheck,
     CloseChannel
<1>5. CASE NotifyLost \/ Environment
  BY <1>5 DEF NotifyLost, Environment, Cut, Outage, Crash, Expire, Lapse, ChannelExpires,
     Recover, AddNode
<1>6. CASE UNCHANGED vars
  BY <1>6 DEF vars
<1> QED BY <1>1, <1>2, <1>3, <1>4, <1>5, <1>6, <1>7, <1>8 DEF Next, Client

LEMMA GivenUpStays == TrapInv /\ [Next]_vars => (GivenUp => GivenUp')
<1> SUFFICES ASSUME TrapInv, [Next]_vars, GivenUp PROVE GivenUp'
  OBVIOUS
<1> USE DEF TrapInv, StatusInv, GivenUp, SessionClosed, Goto, Return, control, calls, client,
        subs, server, world
<1>1. CASE ConnectIterate
  BY <1>1 DEF ConnectIterate, StayFailed, InitConnect, Poll, Handshake, RequestEndpoints,
     CreateSession, ActivateSession, EndpointsFound, SessionCreated, SessionRefused,
     SessionActivated, SessionLost, Recreate, RecreateFails, RecreateCrashes, ReceiveFails,
     NothingToReceive, CreateSessionAsync, CloseChannel, Answered, Iterating, Progress, Waiting
<1>2. CASE Connect \/ Connected \/ ConnectFails \/ ClientSubscribe \/ SubscriptionFails
             \/ ServerSubscribes \/ SubscriptionCreated
  BY <1>2 DEF Connect, Connected, ConnectFails, ClientSubscribe, SubscriptionFails, CallFails,
     ServerSubscribes, SubscriptionCreated, CloseChannel
<1>3. CASE CreateItems \/ ItemsCreated \/ ItemsFail \/ CheckState
  BY <1>3 DEF CreateItems, ItemsCreated, ItemsFail, CallFails, CheckState, CloseChannel
<1>4. CASE StayDead \/ RenewFails \/ RunIterate \/ RunIterateFails
  BY <1>4 DEF StayDead, RenewFails, RunIterate, RunIterateFails, Iterate, TimeoutCheck,
     CloseChannel, Working
<1>5. CASE NotifyLost \/ Environment
  BY <1>5 DEF NotifyLost, Environment, Cut, Outage, Crash, Expire, Lapse, ChannelExpires,
     Recover, AddNode
<1>6. CASE UNCHANGED vars
  BY <1>6 DEF vars
<1> QED BY <1>1, <1>2, <1>3, <1>4, <1>5, <1>6 DEF Next, Client

\* GivenUpForGood: once runClient has given up in one of the four ways, no step
\* of the client, the server or the network makes it work again.
THEOREM GivingUpIsFinal == Spec => GivenUpForGood
<1>1. Init => TrapInv
  BY DEF Init, TrapInv, StatusInv, Attached
<1>2. TrapInv /\ TrapInv' /\ [Next]_vars => [GivenUp => GivenUp' /\ ~Working']_vars
  <2> SUFFICES ASSUME TrapInv, TrapInv', [Next]_vars, GivenUp PROVE GivenUp' /\ ~Working'
    OBVIOUS
  <2>1. GivenUp'
    BY GivenUpStays
  <2> QED BY <2>1 DEF TrapInv, GivenUp, Working, Attached
<1> QED BY <1>1, <1>2, NextTrapInv, PTL DEF Spec, GivenUpForGood

------------------------------------------------------------------------------
(* ClientSession implements SubscriptionViews *)

Known == clientSub = "current"
View  == IF Known THEN clientItems ELSE {}

LEMMA NothingMonitored == serverItems = NoItems => Monitored = {}
BY DEF Monitored, NoItems

LEMMA NothingMonitoredNext == serverItems' = NoItems => Monitored' = {}
BY DEF Monitored, NoItems

\* Either end, or both, may forget what it holds.
LEMMA ForgetStep ==
  ASSUME IInv,
         \/ UNCHANGED <<serverSub, serverItems>>
         \/ serverSub' = FALSE /\ serverItems' = NoItems,
         \/ UNCHANGED <<clientSub, clientItems>>
         \/ clientSub' # "current"
         \/ clientSub # "current" /\ clientSub' = clientSub
  PROVE  [Views!Next]_(Views!views)
<1>1. \/ serverSub' = serverSub /\ Monitored' = Monitored
      \/ serverSub' = FALSE /\ Monitored' = {}
  BY NothingMonitoredNext DEF Monitored
<1>2. \/ Known' = Known /\ View' = View
      \/ Known' = FALSE /\ View' = {}
  BY DEF Known, View
<1>3. CASE serverSub' = serverSub /\ Monitored' = Monitored /\ Known' = Known /\ View' = View
  BY <1>3 DEF Views!views, Known, View
<1>4. CASE ~(serverSub' = serverSub /\ Monitored' = Monitored /\ Known' = Known /\ View' = View)
  BY <1>1, <1>2, <1>4 DEF Views!Next, Views!Forget, Views!ServerForgets, Views!ClientForgets,
     Known, View
<1> QED BY <1>3, <1>4

LEMMA NextImplementsViews ==
  IInv /\ [Next]_vars => [Views!Next]_(Views!views)
<1> SUFFICES ASSUME IInv, [Next]_vars PROVE [Views!Next]_(Views!views)
  OBVIOUS
<1>1. CASE ConnectIterate
  <2>1. CASE SessionCreated
    BY <2>1, ForgetStep DEF SessionCreated, Abandoned
  <2>2. CASE SessionRefused
    BY <2>2, ForgetStep DEF SessionRefused, Abandoned, server
  <2>3. CASE SessionLost
    BY <2>3, ForgetStep DEF SessionLost, server
  <2>4. CASE ~SessionCreated /\ ~SessionRefused /\ ~SessionLost
    <3>1. UNCHANGED <<serverSub, serverItems, clientSub, clientItems>>
      BY <1>1, <2>4 DEF ConnectIterate, StayFailed, InitConnect, Poll, Handshake,
         RequestEndpoints, CreateSession, ActivateSession, EndpointsFound, SessionActivated,
         Recreate, RecreateFails, RecreateCrashes, ReceiveFails, NothingToReceive, server, subs
    <3> QED BY <3>1, ForgetStep
  <2> QED BY <2>1, <2>2, <2>3, <2>4
<1>2. CASE ServerSubscribes
  <2>1. ~Known /\ UNCHANGED <<Monitored, Known, View>> /\ serverSub' = TRUE
    BY <1>2 DEF ServerSubscribes, subs, Monitored, Known, View, IInv, ClientInv
  <2>2. CASE serverSub
    BY <1>2, <2>2, ForgetStep DEF ServerSubscribes, subs, IInv, TypeOK, FlagsOK
  <2>3. CASE ~serverSub
    BY <2>1, <2>3 DEF Views!Subscribe, Views!Next, Known, View
  <2> QED BY <2>2, <2>3
<1>3. CASE SubscriptionCreated
  <2>1. ~Known /\ View = {} /\ serverSub /\ Known' = TRUE /\ View' = {}
        /\ UNCHANGED <<serverSub, Monitored>>
    BY <1>3 DEF SubscriptionCreated, server, Monitored, Known, View, IInv, ClientInv
  <2> QED BY <2>1 DEF Views!Learn, Views!Next, Known, View
<1>4. CASE CreateItems
  <2>1. /\ serverSub /\ Known /\ View = {} /\ Monitored = {}
        /\ UNCHANGED <<serverSub, Known, View>>
    BY <1>4, NothingMonitored DEF CreateItems, subs, Known, View, IInv, ClientInv
  <2>2. Monitored' \in SUBSET Topics
    BY DEF Monitored
  <2>3. Views!AddItems(Monitored')
    BY <2>1, <2>2 DEF Views!AddItems, Known, View
  <2> QED BY <2>2, <2>3 DEF Views!Next
<1>5. CASE ItemsCreated
  <2>1. /\ serverSub /\ Known /\ View = {} /\ View' = Monitored
        /\ UNCHANGED <<serverSub, Monitored, Known>>
    BY <1>5 DEF ItemsCreated, server, Monitored, Known, View, IInv, ClientInv
  <2> QED BY <2>1 DEF Views!LearnItems, Views!Next, Known, View
<1>6. CASE Connect \/ Connected \/ ConnectFails \/ ClientSubscribe \/ SubscriptionFails
             \/ ItemsFail \/ CheckState \/ StayDead \/ RenewFails \/ NotifyLost
  BY <1>6, ForgetStep DEF Connect, Connected, ConnectFails, ClientSubscribe, SubscriptionFails,
     ItemsFail, CheckState, StayDead, RenewFails, NotifyLost, server, subs
<1>7. CASE RunIterate \/ RunIterateFails
  BY <1>7, ForgetStep DEF RunIterate, RunIterateFails, TimeoutCheck, Abandoned, server
<1>8. CASE Environment
  BY <1>8, ForgetStep DEF Environment, Crash, Expire, Lapse, ForgetSession, Cut, Outage,
     ChannelExpires, Recover, AddNode, server, subs
<1>9. CASE UNCHANGED vars
  BY <1>9, ForgetStep DEF vars, server, subs
<1> QED BY <1>1, <1>2, <1>3, <1>4, <1>5, <1>6, <1>7, <1>8, <1>9 DEF Next, Client

\* The subscription of a session is made, filled and given up at the server, and
\* learnt of by the client, in the order SubscriptionViews allows.
THEOREM ImplementsViews == Spec => ViewsSpec
<1>1. Init => Views!Init
  BY NothingMonitored DEF Init, Views!Init
<1> QED BY <1>1, Invariance, NextImplementsViews, PTL DEF Spec, ViewsSpec, Views!Spec

==============================================================================
