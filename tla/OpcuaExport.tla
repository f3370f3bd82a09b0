------------------------------ MODULE OpcuaExport ------------------------------
(***************************************************************************)
(* The application: OpcuaExport.go over DataBus.go, DataBusOpcua.go and    *)
(* DataBus.c.  main creates the one OPC UA server and spawns a worker for  *)
(* each subscriber of the message bus; a worker publishes every message it *)
(* receives on each configured topic, through the steps of ServerPublish,  *)
(* and a worker that cannot start calls ContextDestroy on its way out (a   *)
(* deferred call), which is to destroy the server of all of them.          *)
(*                                                                         *)
(* One run of the process.  Its /tmp is new for every container, so        *)
(* nothing is left over from an earlier run.                               *)
(***************************************************************************)
EXTENDS ServerPublish, BoundedCopy, Sequences

CONSTANTS PubTopics,      \* OpcuaDatabusTopics, in the order of the configuration
          Namespace,      \* "StreamManager"
          DirectionSize,  \* sizeof(gDirection)
          AppFaults       \* what may fail: "create", "subscriber", "startup", "msgbus"

ASSUME AppAssumption ==
    /\ PubTopics \in Seq(Topics)
    /\ Namespaces = {Namespace}
    /\ DirectionSize = 4
    /\ AppFaults \subseteq {"create", "subscriber", "startup", "msgbus"}

VARIABLES mainPc,      \* where main is
          direction,   \* gDirection of DataBus.c
          server,      \* what gServerContext.server points to
          serverLoop,  \* where the thread of startServer is
          worker,      \* what each worker is doing
          message,     \* the message it received last
          remaining,   \* the topics it has yet to publish it on
          served       \* those whose call found its node, or was failed by the library

workVars == <<worker, message, remaining, served>>
appVars == <<mainPc, direction, server, serverLoop, workVars>>
exportVars == <<vars, appVars>>

Workers == Publishers

AppInit ==
    /\ Init
    /\ mainPc = "create" /\ direction = "" /\ server = "none" /\ serverLoop = "none"
    /\ worker = [w \in Workers |-> "none"]
    /\ message \in [Workers -> Messages]
    /\ \A v, w \in Workers : message[v] = message[w]
    /\ remaining = [w \in Workers |-> <<>>]
    /\ served = [w \in Workers |-> {}]

------------------------------------------------------------------------------
(* main: NewOpcuaExport, then Subscribe *)

\* DBA_STRCPY(gDirection, "PUB")
KeptDirection == IF DbaStrcpy(DirectionSize, 3) = Copied THEN "PUB" ELSE ""

\* ContextCreate down to serverContextCreate: the direction is noted, the server
\* made, its thread started, and "0" returned without waiting for the thread.
ContextCreate ==
    /\ mainPc = "create"
    /\ direction' = KeptDirection
    /\ server' = "live" /\ serverLoop' = "startup"
    /\ mainPc' = "subscribe"
    /\ UNCHANGED <<vars, workVars>>

\* Bad endpoint, certificate that cannot be loaded, no memory: os.Exit(1), which
\* ends the process before it has another thread.
ContextCreateFails ==
    /\ mainPc = "create" /\ "create" \in AppFaults
    /\ mainPc' = "exited"
    /\ UNCHANGED <<vars, direction, server, serverLoop, workVars>>

\* go worker(...) for one more subscriber
SpawnWorker(w) ==
    /\ mainPc = "subscribe" /\ worker[w] = "none"
    /\ worker' = [worker EXCEPT ![w] = "starting"]
    /\ UNCHANGED <<vars, mainPc, direction, server, serverLoop, message, remaining, served>>

\* Subscribe returns after the last subscriber, or at one that is misconfigured;
\* main then waits in select {} for ever.
SubscribeReturns ==
    /\ mainPc = "subscribe"
    /\ "subscriber" \in AppFaults \/ \A w \in Workers : worker[w] # "none"
    /\ mainPc' = "waiting"
    /\ UNCHANGED <<vars, direction, server, serverLoop, workVars>>

Main == ContextCreate \/ ContextCreateFails \/ SubscribeReturns
            \/ \E w \in Workers : SpawnWorker(w)

------------------------------------------------------------------------------
(* startServer: UA_Server_run_startup, then the loop of ServerPublish *)

Startup ==
    /\ serverLoop = "startup"
    /\ serverLoop' = "loop"
    /\ UNCHANGED <<vars, mainPc, direction, server, workVars>>

\* The port is taken, say: logged, and the thread returns.
StartupFails ==
    /\ serverLoop = "startup" /\ "startup" \in AppFaults
    /\ serverLoop' = "returned"
    /\ UNCHANGED <<vars, mainPc, direction, server, workVars>>

\* serverRunning is never set to false.
Iterate ==
    /\ serverLoop = "loop"
    /\ ServerThread
    /\ UNCHANGED appVars

StartServer == Startup \/ StartupFails \/ Iterate

------------------------------------------------------------------------------
(* worker *)

\* The message bus client and its subscriber exist: the worker enters its loop.
MsgbusReady(w) ==
    /\ worker[w] = "starting"
    /\ worker' = [worker EXCEPT ![w] = "loop"]
    /\ UNCHANGED <<vars, mainPc, direction, server, serverLoop, message, remaining, served>>

\* NewMsgbusClient or NewSubscriber fails: worker returns through its defers.
MsgbusFails(w) ==
    /\ worker[w] = "starting" /\ "msgbus" \in AppFaults
    /\ worker' = [worker EXCEPT ![w] = "shutdown"]
    /\ UNCHANGED <<vars, mainPc, direction, server, serverLoop, message, remaining, served>>

\* ContextDestroy of DataBus.c, and the worker is gone: a server recorded as
\* "PUB" is deleted, while the threads that use it go on.
ContextDestroy(w) ==
    /\ worker[w] = "shutdown"
    /\ server' = IF direction = "PUB" THEN "deleted" ELSE server
    /\ worker' = [worker EXCEPT ![w] = "returned"]
    /\ UNCHANGED <<vars, mainPc, direction, serverLoop, message, remaining, served>>

Receive(w) ==
    /\ worker[w] = "loop" /\ pc[w] = "idle" /\ remaining[w] = <<>>
    /\ \E m \in Messages : message' = [message EXCEPT ![w] = m]
    /\ remaining' = [remaining EXCEPT ![w] = PubTopics]
    /\ served' = [served EXCEPT ![w] = {}]
    /\ UNCHANGED <<vars, mainPc, direction, server, serverLoop, worker>>

\* Mutant: the message is consumed by the first topic of the list.
PublishNextOnly(w) ==
    /\ worker[w] = "loop" /\ remaining[w] # <<>>
    /\ server # "none"
    /\ Call(w)
    /\ request'[w] = [ns |-> Namespace, topic |-> Head(remaining[w]), msg |-> message[w]]
    /\ remaining' = [remaining EXCEPT ![w] = <<>>]
    /\ UNCHANGED <<mainPc, direction, server, serverLoop, worker, message, served>>

\* OpcuaExport.Publish, one topic: databus, then serverPublish, whose check of
\* the server is a check for NULL.
PublishNext(w) ==
    /\ worker[w] = "loop" /\ remaining[w] # <<>>
    /\ server # "none"
    /\ Call(w)
    /\ request'[w] = [ns |-> Namespace, topic |-> Head(remaining[w]), msg |-> message[w]]
    /\ remaining' = [remaining EXCEPT ![w] = Tail(@)]
    /\ UNCHANGED <<mainPc, direction, server, serverLoop, worker, message, served>>

\* The library failed the call: it has failed it before the write, or the write
\* is overlapped and may miss a node that is there.
Excused(w) == w \in failed \/ Overlapped(w)

\* The steps of serverPublish.  The result of the write is ignored, and the next
\* topic's turn comes.
PublishOn(w) ==
    /\ Publish(w)
    /\ served' = IF pc[w] = "write" /\ (NodeOf(w) \in nodes \/ Excused(w))
                 THEN [served EXCEPT ![w] = @ \cup {Topic(w)}]
                 ELSE served
    /\ UNCHANGED <<mainPc, direction, server, serverLoop, worker, message, remaining>>

Worker(w) ==
    \/ MsgbusReady(w) \/ MsgbusFails(w) \/ ContextDestroy(w)
    \/ PublishNext(w) \/ PublishOn(w)

------------------------------------------------------------------------------

AppNext == Main \/ StartServer \/ \E w \in Workers : Worker(w) \/ Receive(w)

AppSpec == AppInit /\ [][AppNext]_exportVars

(* Every goroutine and the server thread keep running; the mutex is free    *)
(* again after every iteration of the server and every write.               *)
AppFairness ==
    /\ WF_exportVars(Main)
    /\ WF_exportVars(StartServer)
    /\ \A w \in Workers :
          /\ WF_exportVars(Worker(w))
          /\ SF_exportVars(LockServer(w) /\ PublishOn(w))

AppFairSpec == AppSpec /\ AppFairness

------------------------------------------------------------------------------
(* Properties *)

AppTypeOK ==
    /\ TypeOK
    /\ mainPc \in {"create", "subscribe", "waiting", "exited"}
    /\ direction \in {"", "PUB"}
    /\ server \in {"none", "live", "deleted"}
    /\ serverLoop \in {"none", "startup", "loop", "returned"}
    /\ worker \in [Workers -> {"none", "starting", "loop", "shutdown", "returned"}]
    /\ message \in [Workers -> Messages]
    /\ remaining \in [Workers -> Seq(Topics)]
    /\ served \in [Workers -> SUBSET Topics]

\* "check if server is started or not" (open62541_wrappers.c, line 427): a
\* worker that is in the library is there with a server, although the workers
\* share it and one that cannot reach the message bus asks for its destruction.
PublishersFindServer ==
    \A w \in Workers : pc[w] \in LibraryCalls => server = "live"

\* "ContextDestroy function destroys the opcua server/client context"
\* (DataBus.h, line 53).
ContextDestroyed ==
    [][\A w \in Workers :
          worker[w] = "shutdown" /\ worker'[w] = "returned" => server' = "deleted"]_exportVars

AllServed(w) == \A i \in DOMAIN PubTopics : PubTopics[i] \in served[w]

\* When a message has been taken from the bus, every configured topic comes to
\* have a call of its own for it, whose write finds the topic's node unless the
\* library failed that very call, and the worker is back to take the next.
EveryTopicServed ==
    \A w \in Workers :
        remaining[w] = PubTopics ~>
            /\ remaining[w] = <<>> /\ pc[w] = "idle"
            /\ AllServed(w)

\* Its safety half: a worker does not leave a message, and so is not ready for
\* the next, while a topic was skipped.  No call of another worker on the same
\* topics, no topicContext it left behind, and no failure of another call, of
\* this message or of one before it, makes serverPublish miss the node.
MessageServed ==
    [][\A w \in Workers :
          pc[w] # "idle" /\ pc'[w] = "idle" /\ remaining[w] = <<>> => AllServed(w)']_exportVars

==============================================================================
