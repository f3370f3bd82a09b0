-------------------------- MODULE OpcuaExportProofs --------------------------
(***************************************************************************)
(* Theorems about OpcuaExport, for any number of workers, topics and       *)
(* messages: the application uses serverPublish as ServerPublish models    *)
(* it, and what is proved there holds of it; and the server is there       *)
(* whenever it is used to publish, because the direction that ContextCreate*)
(* notes never is one that ContextDestroy acts on.                         *)
(***************************************************************************)
EXTENDS OpcuaExport, ServerPublishProofs, BoundedCopyProofs, SequenceTheorems

LEMMA AppStep == [AppNext]_exportVars => [Next]_vars
<1> SUFFICES ASSUME [AppNext]_exportVars PROVE [Next]_vars
  OBVIOUS
<1>1. CASE Main
  BY <1>1 DEF Main, ContextCreate, ContextCreateFails, SpawnWorker, SubscribeReturns
<1>2. CASE StartServer
  BY <1>2 DEF StartServer, Startup, StartupFails, Iterate, Next
<1>3. ASSUME NEW w \in Workers, Worker(w) PROVE [Next]_vars
  BY <1>3 DEF Worker, Workers, Next, MsgbusReady, MsgbusFails, PublishNext, PublishOn,
              ContextDestroy
<1>4. ASSUME NEW w \in Workers, Receive(w) PROVE [Next]_vars
  BY <1>4 DEF Receive
<1>5. CASE UNCHANGED exportVars
  BY <1>5 DEF exportVars
<1> QED BY <1>1, <1>2, <1>3, <1>4, <1>5 DEF AppNext

\* The application implements ServerPublish: whatever its workers, its start
\* and its tear-down do, threads use the library only by the steps of that
\* module, so its theorems hold of the application.
THEOREM AppImplementsPublish == AppSpec => Spec
<1>1. AppInit => Init
  BY DEF AppInit
<1> QED BY <1>1, AppStep, PTL DEF AppSpec, Spec

\* However many subscribers there are, topicContext never names a topic without
\* a node.
THEOREM AppContextIsTrue == AppSpec => []ContextNamesNode
BY ContextIsTrue, AppImplementsPublish, PTL

LEMMA AppOneNamespace == OneNamespace
BY AppAssumption DEF OneNamespace

\* The application keeps the promise of TopicRegistry, with any number of
\* subscribers, and whether or not the library locks: a node that an overlapping
\* call made the library lose counts as a failure of the call that was to add it,
\* and of that one only.
THEOREM AppImplementsRegistry == AppSpec => RegistrySpec
<1>1. Spec => RegistrySpec
  BY AppOneNamespace, ImplementsRegistry
<1> QED BY <1>1, AppImplementsPublish

------------------------------------------------------------------------------
(* The server that the workers share *)

\* gDirection has no room for "PUB".
LEMMA DirectionIsRefused == KeptDirection = ""
BY AppAssumption, StrcpyFits, 3 \in Nat, 4 \in Nat DEF KeptDirection

\* Only a worker that is in its loop is inside a call, it gets there when the
\* server exists, and no worker that returns takes it away.
ServerInv ==
    /\ direction = ""
    /\ \A w \in Workers : pc[w] # "idle" => server = "live"
    /\ server \in {"none", "live"}
    /\ mainPc = "create" => server = "none" /\ \A w \in Workers : worker[w] = "none"

LEMMA PublishIsCalled ==
  ASSUME NEW w \in Workers, Publish(w)
  PROVE  pc[w] # "idle"
BY DEF Publish, CheckContext, MallocContext, GetNamespaceByName, AddNamespace,
       AddNamespaceFails, GetNodeContext, CompareContext, AddNode, AddNodeFails,
       CopyHead, CopyTail, LockServer, WriteValue

LEMMA WorkerServer ==
  ASSUME TypeInv, AppTypeOK, ServerInv, NEW w \in Workers, Worker(w)
  PROVE  ServerInv'
<1> USE DEF ServerInv, AppTypeOK
<1>0. mainPc # "create"
  BY PublishIsCalled DEF Worker, MsgbusReady, MsgbusFails, PublishNext, PublishOn,
                         ContextDestroy
<1>1. CASE MsgbusReady(w)
  BY <1>0, <1>1 DEF MsgbusReady, vars, callVars
<1>2. CASE MsgbusFails(w)
  BY <1>0, <1>2 DEF MsgbusFails, vars, callVars
<1>3. CASE ContextDestroy(w)
  BY <1>0, <1>3 DEF ContextDestroy, vars, callVars
<1>4. CASE PublishNext(w)
  <2>1. server = "live"
    BY <1>4 DEF PublishNext
  <2> QED BY <1>0, <1>4, <2>1 DEF PublishNext
<1>5. CASE PublishOn(w)
  <2>1. server = "live"
    BY <1>5, PublishIsCalled DEF PublishOn
  <2> QED BY <1>0, <1>5, <2>1 DEF PublishOn
<1> QED BY <1>1, <1>2, <1>3, <1>4, <1>5 DEF Worker

LEMMA NextServer ==
  TypeInv /\ AppTypeOK /\ ServerInv /\ [AppNext]_exportVars => ServerInv'
<1> SUFFICES ASSUME TypeInv, AppTypeOK, ServerInv, [AppNext]_exportVars
             PROVE  ServerInv'
  OBVIOUS
<1> USE DEF ServerInv, AppTypeOK, vars, callVars
<1>1. CASE Main
  BY <1>1, DirectionIsRefused
  DEF Main, ContextCreate, ContextCreateFails, SpawnWorker, SubscribeReturns, workVars
<1>2. CASE StartServer
  BY <1>2 DEF StartServer, Startup, StartupFails, Iterate, ServerThread, ServerLocks,
              ServerUnlocks, appVars, workVars
<1>3. CASE \E w \in Workers : Worker(w)
  BY <1>3, WorkerServer
<1>4. CASE \E w \in Workers : Receive(w)
  BY <1>4 DEF Receive
<1>5. CASE UNCHANGED exportVars
  BY <1>5 DEF exportVars, appVars, workVars
<1> QED BY <1>1, <1>2, <1>3, <1>4, <1>5 DEF AppNext

------------------------------------------------------------------------------
(* Types *)

LEMMA NextAppType == TypeInv' /\ AppTypeOK /\ [AppNext]_exportVars => AppTypeOK'
<1> SUFFICES ASSUME TypeInv', AppTypeOK, [AppNext]_exportVars PROVE AppTypeOK'
  OBVIOUS
<1>0. TypeOK'
  BY DEF TypeInv
<1>p. TypeOK
  BY DEF AppTypeOK
<1> USE <1>0 DEF AppTypeOK
<1>1. CASE Main
  BY <1>1 DEF Main, ContextCreate, ContextCreateFails, SpawnWorker, SubscribeReturns,
              workVars, KeptDirection
<1>2. CASE StartServer
  BY <1>2 DEF StartServer, Startup, StartupFails, Iterate, appVars, workVars
<1>3. ASSUME NEW w \in Workers, Worker(w) PROVE AppTypeOK'
  <2>1. CASE MsgbusReady(w) BY <2>1 DEF MsgbusReady
  <2>2. CASE MsgbusFails(w) BY <2>2 DEF MsgbusFails
  <2>3. CASE PublishNext(w)
    <3>1. remaining[w] \in Seq(Topics) /\ remaining[w] # <<>>
      BY <2>3 DEF PublishNext
    <3>2. Tail(remaining[w]) \in Seq(Topics)
      BY <3>1, HeadTailProperties
    <3> QED BY <2>3, <3>2 DEF PublishNext
  <2>4. CASE PublishOn(w)
    <3>1. served' = served \/ served' = [served EXCEPT ![w] = @ \cup {Topic(w)}]
      BY <2>4 DEF PublishOn
    <3>2. Topic(w) \in Topics
      BY <1>p DEF TypeOK, Topic, Requests, Workers
    <3>3. served' \in [Workers -> SUBSET Topics]
      BY <3>1, <3>2
    <3> QED BY <2>4, <3>3 DEF PublishOn
  <2>5. CASE ContextDestroy(w) BY <2>5 DEF ContextDestroy
  <2> QED BY <1>3, <2>1, <2>2, <2>3, <2>4, <2>5 DEF Worker
<1>4. ASSUME NEW w \in Workers, Receive(w) PROVE AppTypeOK'
  BY <1>4, AppAssumption DEF Receive
<1>5. CASE UNCHANGED exportVars
  BY <1>5 DEF exportVars, appVars, workVars
<1> QED BY <1>1, <1>2, <1>3, <1>4, <1>5 DEF AppNext

\* Every variable of the application keeps its type.
THEOREM AppTypeCorrect == AppSpec => []AppTypeOK
<1>1. AppInit => AppTypeOK
  <2>1. <<>> \in Seq(Topics)
    OBVIOUS
  <2> QED BY <2>1, InitTypeInv DEF AppInit, AppTypeOK, TypeInv
<1>2. Spec => []TypeInv
  BY TypeInvariant
<1> QED BY <1>1, <1>2, NextAppType, AppImplementsPublish, PTL DEF AppSpec

------------------------------------------------------------------------------

\* However many subscribers there are and whatever fails, a worker inside the
\* library is there with a server.
THEOREM PublisherHasServer == AppSpec => []PublishersFindServer
<1>1. AppInit => ServerInv
  BY DEF AppInit, Init, ServerInv, Workers
<1>2. TypeInv /\ AppTypeOK /\ ServerInv /\ [AppNext]_exportVars => ServerInv'
  BY NextServer
<1>3. ServerInv => PublishersFindServer
  BY DEF ServerInv, PublishersFindServer, LibraryCalls
<1>4. Spec => []TypeInv
  BY TypeInvariant
<1> QED BY <1>1, <1>2, <1>3, <1>4, AppTypeCorrect, AppImplementsPublish, PTL DEF AppSpec

------------------------------------------------------------------------------
(* Every topic of a message is served *)

\* How many topics of its message a worker has taken up.
Begun(w) == Len(PubTopics) - Len(remaining[w])

\* The first n of them are served.
ServedUpTo(w, n) == \A i \in 1 .. n : PubTopics[i] \in served[w]

\* A worker goes through the topics in order, and those behind it are served.
OrderOf(w) ==
    /\ Begun(w) \in 0 .. Len(PubTopics)
    /\ \A j \in 1 .. Len(remaining[w]) : remaining[w][j] = PubTopics[Begun(w) + j]
    /\ pc[w] # "idle" =>
          /\ Begun(w) # 0 /\ request[w].topic = PubTopics[Begun(w)]
          /\ ServedUpTo(w, Begun(w) - 1)
    /\ pc[w] = "idle" /\ remaining[w] # <<>> => ServedUpTo(w, Begun(w))

OrderInv == \A w \in Workers : OrderOf(w)

\* What a step inside a call leaves as it was.
LEMMA PublishStep ==
  ASSUME TypeInv, NEW w \in Workers, Publish(w)
  PROVE  /\ UNCHANGED request
         /\ \A v \in Workers : v # w => pc'[v] = pc[v]
         /\ pc'[w] = "idle" => pc[w] = "write"
BY DEF TypeInv, TypeOK, Workers, Publish, CheckContext, MallocContext, GetNamespaceByName, AddNamespace,
       AddNamespaceFails, GetNodeContext, CompareContext, AddNode, AddNodeFails,
       CopyHead, CopyTail, LockServer, WriteValue, Goto, serverVars

\* A call returns from its write, and then its topic is served: with its node,
\* or by a failure of the library in this call.
LEMMA ReturnServes ==
  ASSUME TypeInv, AppTypeOK, CreatedInv, OrderInv, NEW w \in Workers, PublishOn(w), pc[w] = "write"
  PROVE  ServedUpTo(w, Begun(w))'
<1>1. NodeOf(w) \in nodes \/ w \in failed
  BY DEF CreatedInv, Workers
<1>2. served'[w] = served[w] \cup {Topic(w)}
  BY <1>1 DEF PublishOn, Excused, AppTypeOK
<1>3. /\ Begun(w)' = Begun(w) /\ Begun(w) \in 1 .. Len(PubTopics)
      /\ Topic(w) = PubTopics[Begun(w)] /\ ServedUpTo(w, Begun(w) - 1)
  <2>1. Begun(w)' = Begun(w)
    BY DEF PublishOn, Begun
  <2>2. Begun(w) \in 0 .. Len(PubTopics) /\ Begun(w) # 0 /\ Len(PubTopics) \in Nat
    BY AppAssumption DEF OrderInv, OrderOf
  <2> QED BY <2>1, <2>2 DEF OrderInv, OrderOf, Topic
<1>4. \A i \in 1 .. Begun(w) : i = Begun(w) \/ i \in 1 .. Begun(w) - 1
  BY <1>3, AppAssumption
<1> QED BY <1>2, <1>3, <1>4 DEF ServedUpTo

LEMMA TailProperty ==
  ASSUME NEW S, NEW seq \in Seq(S), seq # <<>>
  PROVE  /\ Len(Tail(seq)) = Len(seq) - 1 /\ Len(seq) \in Nat \ {0}
         /\ \A j \in 1 .. Len(Tail(seq)) : Tail(seq)[j] = seq[j + 1]
         /\ Head(seq) = seq[1]
<1>1. Len(seq) \in Nat \ {0}
  BY EmptySeq
<1> QED BY <1>1

LEMMA WorkerServes ==
  ASSUME TypeInv, AppTypeOK, CreatedInv, OrderInv, NEW w \in Workers, Worker(w)
  PROVE  OrderInv'
<1>1. CASE MsgbusReady(w) \/ MsgbusFails(w) \/ ContextDestroy(w)
  BY <1>1 DEF MsgbusReady, MsgbusFails, ContextDestroy, vars, callVars, Begun, ServedUpTo,
              OrderInv, OrderOf
<1>2. CASE PublishNext(w)
  <2>1. /\ UNCHANGED served /\ pc[w] = "idle" /\ pc'[w] # "idle"
        /\ \A v \in Workers : v # w => pc'[v] = pc[v] /\ request'[v] = request[v]
                                       /\ remaining'[v] = remaining[v]
    BY <1>2 DEF PublishNext, Call, Goto, serverVars, TypeInv, TypeOK, AppTypeOK, Workers
  <2>2. remaining[w] \in Seq(Topics) /\ remaining[w] # <<>>
    BY <1>2 DEF PublishNext, AppTypeOK
  <2>3. /\ remaining'[w] = Tail(remaining[w])
        /\ Len(remaining'[w]) = Len(remaining[w]) - 1 /\ Len(remaining[w]) \in Nat \ {0}
        /\ \A j \in 1 .. Len(remaining'[w]) : remaining'[w][j] = remaining[w][j + 1]
        /\ Head(remaining[w]) = remaining[w][1]
    <3>1. remaining'[w] = Tail(remaining[w])
      BY <1>2 DEF PublishNext, AppTypeOK
    <3> QED BY <2>2, <3>1, TailProperty
  <2>4. /\ Begun(w)' = Begun(w) + 1 /\ Begun(w)' \in 1 .. Len(PubTopics)
        /\ \A j \in 1 .. Len(remaining'[w]) : remaining'[w][j] = PubTopics[Begun(w)' + j]
    <3>1. Len(PubTopics) \in Nat
      BY AppAssumption
    <3>2. /\ Begun(w) = Len(PubTopics) - Len(remaining[w])
          /\ Begun(w)' = Len(PubTopics) - Len(remaining'[w])
      BY DEF Begun
    <3>3. /\ Begun(w) \in 0 .. Len(PubTopics)
          /\ \A j \in 1 .. Len(remaining[w]) : remaining[w][j] = PubTopics[Begun(w) + j]
      BY DEF OrderInv, OrderOf
    <3>4. Begun(w)' = Begun(w) + 1 /\ Begun(w)' \in 1 .. Len(PubTopics)
      BY <2>3, <3>1, <3>2, <3>3
    <3>5. ASSUME NEW j \in 1 .. Len(remaining'[w])
          PROVE  remaining'[w][j] = PubTopics[Begun(w)' + j]
      <4>1. j \in Nat /\ j + 1 \in 1 .. Len(remaining[w])
        BY <2>3
      <4>2. Begun(w) \in Nat /\ Begun(w)' = Begun(w) + 1
        BY <3>3, <3>4, <3>1
      <4>3. Begun(w) + (j + 1) = Begun(w)' + j
        BY <4>1, <4>2
      <4> QED BY <2>3, <3>3, <4>1, <4>3
    <3> QED BY <3>4, <3>5
  <2>5. request'[w].topic = PubTopics[Begun(w)']
    <3>1. remaining[w][1] = PubTopics[Begun(w) + 1]
      BY <2>3 DEF OrderInv, OrderOf
    <3> QED BY <1>2, <2>3, <2>4, <3>1 DEF PublishNext
  <2>6. ServedUpTo(w, Begun(w) - 1)' /\ Begun(w)' # 0
    <3>1. Begun(w)' - 1 = Begun(w) /\ Begun(w)' # 0
      BY <2>4, AppAssumption DEF OrderInv, OrderOf
    <3>2. ServedUpTo(w, Begun(w))
      BY <2>1, <2>2 DEF OrderInv, OrderOf
    <3> QED BY <2>1, <3>1, <3>2 DEF ServedUpTo
  <2>7. ASSUME NEW v \in Workers, v # w
        PROVE  /\ Begun(v)' = Begun(v)
               /\ ServedUpTo(v, Begun(v))' = ServedUpTo(v, Begun(v))
               /\ ServedUpTo(v, Begun(v) - 1)' = ServedUpTo(v, Begun(v) - 1)
    BY <2>1, <2>7 DEF Begun, ServedUpTo
  <2>8. Begun(w)' \in 0 .. Len(PubTopics)
    BY <2>4, AppAssumption
  <2>9. ASSUME NEW v \in Workers, v # w PROVE OrderOf(v)'
    <3>1. OrderOf(v)
      BY DEF OrderInv
    <3> QED BY <2>1, <2>7, <2>9, <3>1 DEF OrderOf
  <2>10. OrderOf(w)'
    BY <2>1, <2>4, <2>5, <2>6, <2>8 DEF OrderOf
  <2> QED BY <2>9, <2>10 DEF OrderInv
<1>3. CASE PublishOn(w)
  <2>1. /\ Publish(w) /\ pc[w] # "idle" /\ UNCHANGED <<remaining, request>>
        /\ \A v \in Workers : v # w => pc'[v] = pc[v]
        /\ pc'[w] = "idle" => pc[w] = "write"
    BY <1>3, PublishStep, PublishIsCalled DEF PublishOn
  <2>2. \A v \in Workers : served[v] \subseteq served'[v] /\ Begun(v)' = Begun(v)
    BY <1>3 DEF PublishOn, Begun, AppTypeOK
  <2>3. \A v \in Workers : \A n : ServedUpTo(v, n) => \A i \in 1 .. n : PubTopics[i] \in served'[v]
    BY <2>2 DEF ServedUpTo
  <2>4. pc'[w] = "idle" => ServedUpTo(w, Begun(w))'
    BY <1>3, <2>1, ReturnServes
  <2>5. ASSUME NEW v \in Workers PROVE OrderOf(v)'
    <3>1. OrderOf(v) /\ Begun(v)' = Begun(v)
      BY <2>2 DEF OrderInv
    <3>2. CASE v # w
      BY <2>1, <2>3, <3>1, <3>2 DEF OrderOf, ServedUpTo
    <3>3. CASE v = w
      BY <2>1, <2>3, <2>4, <3>1, <3>3 DEF OrderOf, ServedUpTo
    <3> QED BY <3>2, <3>3
  <2> QED BY <2>5 DEF OrderInv
<1> QED BY <1>1, <1>2, <1>3 DEF Worker

LEMMA NextServes ==
  TypeInv /\ AppTypeOK /\ CreatedInv /\ OrderInv /\ [AppNext]_exportVars => OrderInv'
<1> SUFFICES ASSUME TypeInv, AppTypeOK, CreatedInv, OrderInv, [AppNext]_exportVars
             PROVE  OrderInv'
  OBVIOUS
<1>1. ASSUME UNCHANGED <<pc, request, remaining, served>> PROVE OrderInv'
  BY <1>1 DEF OrderInv, OrderOf, Begun, ServedUpTo
<1>2. CASE Main
  BY <1>1, <1>2 DEF Main, ContextCreate, ContextCreateFails, SpawnWorker, SubscribeReturns,
                    workVars, vars, callVars, serverVars
<1>3. CASE StartServer
  BY <1>1, <1>3 DEF StartServer, Startup, StartupFails, Iterate, ServerThread, ServerLocks,
                    ServerUnlocks, appVars, workVars, vars, callVars, serverVars
<1>4. CASE \E w \in Workers : Worker(w)
  BY <1>4, WorkerServes
<1>5. ASSUME NEW w \in Workers, Receive(w) PROVE OrderInv'
  <2>1. /\ UNCHANGED <<pc, request>> /\ pc[w] = "idle"
        /\ remaining' = [remaining EXCEPT ![w] = PubTopics]
        /\ served' = [served EXCEPT ![w] = {}]
    BY <1>5 DEF Receive, vars, callVars, serverVars
  <2>2. Begun(w)' = 0 /\ Len(PubTopics) \in Nat /\ remaining'[w] = PubTopics
    <3>1. remaining'[w] = PubTopics
      BY <2>1 DEF AppTypeOK
    <3> QED BY <3>1, AppAssumption DEF Begun
  <2>3. \A v \in Workers : v # w => /\ remaining'[v] = remaining[v] /\ served'[v] = served[v]
                                   /\ Begun(v)' = Begun(v)
    BY <2>1 DEF Begun, AppTypeOK
  <2>4. ASSUME NEW v \in Workers, v # w PROVE OrderOf(v)'
    BY <2>1, <2>3, <2>4 DEF OrderInv, OrderOf, ServedUpTo
  <2>5. OrderOf(w)'
    BY <2>1, <2>2 DEF OrderOf, ServedUpTo
  <2> QED BY <2>4, <2>5 DEF OrderInv
<1>6. CASE UNCHANGED exportVars
  BY <1>1, <1>6 DEF exportVars, appVars, workVars, vars, callVars, serverVars
<1> QED BY <1>2, <1>3, <1>4, <1>5, <1>6 DEF AppNext

\* A worker returns from a call only by its own write.
LEMMA ReturnIsWrite ==
  ASSUME TypeInv, NEW w \in Workers, [AppNext]_exportVars, pc[w] # "idle", pc'[w] = "idle"
  PROVE  PublishOn(w) /\ pc[w] = "write"
<1>1. ASSUME NEW v \in Workers, PublishOn(v) PROVE PublishOn(w) /\ pc[w] = "write"
  BY <1>1, PublishStep DEF PublishOn
<1>2. ASSUME NEW v \in Workers, PublishNext(v) PROVE FALSE
  BY <1>2 DEF PublishNext, Call, Goto, TypeInv, TypeOK, Workers
<1>3. ASSUME UNCHANGED pc PROVE FALSE
  BY <1>3
<1>4. ASSUME Main \/ StartServer \/ UNCHANGED exportVars PROVE UNCHANGED pc
  BY <1>4 DEF Main, ContextCreate, ContextCreateFails, SpawnWorker, SubscribeReturns, StartServer,
     Startup, StartupFails, Iterate, ServerThread, ServerLocks, ServerUnlocks, exportVars, vars, callVars
<1>5. ASSUME NEW v \in Workers, MsgbusReady(v) \/ MsgbusFails(v) \/ ContextDestroy(v) \/ Receive(v)
      PROVE  UNCHANGED pc
  BY <1>5 DEF MsgbusReady, MsgbusFails, ContextDestroy, Receive, vars, callVars
<1> QED BY <1>1, <1>2, <1>3, <1>4, <1>5 DEF AppNext, Worker

\* MessageServed: for any workers, topics and messages, whatever order their calls
\* interleave in, whatever fails, and whether or not the library locks, a worker is
\* through with a message only when every configured topic had a call whose write
\* found its node, or which the library itself failed.
THEOREM EveryMessageIsServed == AppSpec => MessageServed
<1>1. AppInit => OrderInv
  <2> SUFFICES ASSUME AppInit PROVE OrderInv
    OBVIOUS
  <2>1. \A w \in Workers : pc[w] = "idle" /\ remaining[w] = <<>>
    BY DEF AppInit, Init, Workers
  <2>2. \A w \in Workers : Begun(w) = Len(PubTopics) /\ Len(remaining[w]) = 0
    BY <2>1, AppAssumption DEF Begun
  <2>3. Len(PubTopics) \in Nat
    BY AppAssumption
  <2> QED BY <2>1, <2>2, <2>3 DEF OrderInv, OrderOf
<1>2. TypeInv /\ AppTypeOK /\ CreatedInv /\ OrderInv /\ [AppNext]_exportVars => OrderInv'
  BY NextServes
<1>3. TypeInv /\ AppTypeOK /\ CreatedInv /\ OrderInv /\ [AppNext]_exportVars =>
         [\A w \in Workers :
             pc[w] # "idle" /\ pc'[w] = "idle" /\ remaining[w] = <<>> => AllServed(w)']_exportVars
  <2> SUFFICES ASSUME TypeInv, AppTypeOK, CreatedInv, OrderInv, [AppNext]_exportVars,
                      NEW w \in Workers, pc[w] # "idle", pc'[w] = "idle", remaining[w] = <<>>
               PROVE  AllServed(w)'
    OBVIOUS
  <2>1. PublishOn(w) /\ pc[w] = "write"
    BY ReturnIsWrite
  <2>2. ServedUpTo(w, Begun(w))'
    BY <2>1, ReturnServes
  <2>3. Begun(w)' = Len(PubTopics) /\ DOMAIN PubTopics = 1 .. Len(PubTopics)
    BY <2>1, AppAssumption DEF Begun, PublishOn
  <2> QED BY <2>2, <2>3 DEF AllServed, ServedUpTo
<1>4. Spec => []TypeInv /\ []CreatedInv
  BY AppOneNamespace, TypeInvariant, CreatedInvariant, PTL
<1> QED BY <1>1, <1>2, <1>3, <1>4, AppTypeCorrect, AppImplementsPublish, PTL DEF AppSpec, MessageServed

==============================================================================
