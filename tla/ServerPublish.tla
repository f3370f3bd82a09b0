---------------------------- MODULE ServerPublish ----------------------------
(***************************************************************************)
(* The publishing side of open62541_wrappers.c: threads that call          *)
(* serverPublish, and the server thread started by startServer, over the   *)
(* process-wide gServerContext and gClientContext and one UA_Server.       *)
(*                                                                         *)
(* One action per point where another thread can run.  A thread at the     *)
(* label of a library call is inside that call; the action at the label is *)
(* the call's effect and return.  UA_LOCK(server->serviceMutex) in the     *)
(* library is a real lock only when UA_MULTITHREADING >= 100; the vendored *)
(* header builds with 0 (open62541.h:72), so calls of two publishers that  *)
(* overlap are a data race, whose outcomes here are a lookup that misses   *)
(* an entry and an insertion that is lost; contended notes whose call may  *)
(* have such an outcome.  An iteration of the server also                  *)
(* overlaps these calls; it reads what they insert and inserts nothing of  *)
(* its own, so their outcome does not depend on it.                        *)
(***************************************************************************)
EXTENDS Naturals

CONSTANTS Publishers,      \* threads that call serverPublish
          Namespaces,      \* values of TopicConfig.ns
          Topics,          \* values of TopicConfig.name
          Messages,        \* what tells apart two payloads of one topic
          Oversize,        \* messages longer than the bounded copy accepts
          Faults,          \* allocations that may fail: "malloc", "namespace", "node"
          Multithreading,  \* TRUE iff UA_MULTITHREADING >= 100
          NoContext,       \* the NULL topicContext
          FreshBytes,      \* what a string just allocated by malloc reads as
          NsZero,          \* namespace index 0, the result of a failed addNamespace
          NoData,          \* the zeroed dataToPublish
          Server,          \* the thread running startServer
          Free             \* an unlocked serverLock

ASSUME ConstantsAssumption ==
    /\ NoContext \notin Topics
    /\ FreshBytes \notin Topics
    /\ NsZero \notin Namespaces
    /\ Free \notin Publishers
    /\ Server \notin Publishers \cup {Free}
    /\ Oversize \subseteq Messages
    /\ Faults \subseteq {"malloc", "namespace", "node"}
    /\ Multithreading \in BOOLEAN

Payloads == [topic : Topics, msg : Messages]
Requests == [ns : Namespaces, topic : Topics, msg : Messages]
NodeIds  == Namespaces \X Topics

VARIABLES pc,             \* where each publisher is in serverPublish
          request,        \* the arguments of its current call
          nsIndex,        \* its local nsIndex (an index is named by its namespace)
          failed,         \* publishers whose current call the library failed
          namespaces,     \* server->namespaces
          nodes,          \* variable nodes in the address space
          topicContext,   \* gServerContext.topicContext, as the string it points to
          dataToPublish,  \* gClientContext.dataToPublish, as its first and last part
          contended,      \* publishers whose library call another's has overlapped
          serverLock,     \* *gServerContext.serverLock
          serverPc        \* where the server thread is in its loop

callVars   == <<pc, request, nsIndex, failed>>
serverVars == <<namespaces, nodes, topicContext>>
vars == <<callVars, serverVars, dataToPublish, contended, serverLock, serverPc>>

LibraryCalls == {"findNs", "addNs", "getContext", "addNode", "write"}
Labels == LibraryCalls \cup {"idle", "context", "malloc", "compare",
                             "copyHead", "copyTail", "lock"}

Init ==
    /\ pc = [p \in Publishers |-> "idle"]
    /\ request \in [Publishers -> Requests]
    /\ \A p, q \in Publishers : request[p] = request[q]
    /\ nsIndex = [p \in Publishers |-> NsZero]
    /\ failed = {}
    /\ namespaces = {}
    /\ nodes = {}
    /\ topicContext = NoContext
    /\ dataToPublish = [head |-> NoData, tail |-> NoData]
    /\ contended = {}
    /\ serverLock = Free
    /\ serverPc = "sleep"

Topic(p)  == request[p].topic
NodeOf(p) == <<nsIndex[p], Topic(p)>>
Goto(p, label) == pc' = [pc EXCEPT ![p] = label]
Fail(p) == failed' = failed \cup {p}

\* A library call is overlapped if another publisher is inside the library at any
\* time between its start and its end, and nothing keeps it out.
Contend ==
    contended' = {p \in Publishers :
                     /\ ~Multithreading
                     /\ pc'[p] \in LibraryCalls
                     /\ \/ \E q \in Publishers \ {p} : pc'[q] \in LibraryCalls
                        \/ p \in contended /\ pc'[p] = pc[p]}

Overlapped(p) == p \in contended

\* What a lookup that may be overlapped can answer, and whether the insertion of
\* a namespace that may be overlapped takes effect.
Lookup(p, found) == IF Overlapped(p) THEN {found, FALSE} ELSE {found}
Inserted(p) == IF Overlapped(p) THEN BOOLEAN ELSE {TRUE}

------------------------------------------------------------------------------
(* serverPublish and addTopicDataSourceVariable *)

\* serverPublish is called, and the server exists: the check for NULL that comes
\* first, and the server's lifetime, are in OpcuaExport.
Call(p) ==
    /\ pc[p] = "idle"
    /\ \E r \in Requests : request' = [request EXCEPT ![p] = r]
    /\ Goto(p, "context")
    /\ UNCHANGED <<nsIndex, failed, serverVars, dataToPublish, contended, serverLock, serverPc>>

\* if (topicContext == NULL)
CheckContext(p) ==
    /\ pc[p] = "context"
    /\ Goto(p, IF topicContext = NoContext THEN "malloc" ELSE "findNs")
    /\ UNCHANGED <<request, nsIndex, failed, serverVars, dataToPublish, serverLock, serverPc>>

\* Mutant: malloc and strcpy in one, the name before the node.
MallocContextNamed(p) ==
    /\ pc[p] = "malloc"
    /\ topicContext' = Topic(p)
    /\ Goto(p, "findNs")
    /\ UNCHANGED <<request, nsIndex, failed, namespaces, nodes, dataToPublish, serverLock, serverPc>>

\* Mutant: the result of malloc is checked, by trying again for ever.
MallocContextRetried(p) ==
    /\ pc[p] = "malloc"
    /\ topicContext' \in {FreshBytes} \cup (IF "malloc" \in Faults THEN {NoContext} ELSE {})
    /\ Goto(p, IF topicContext' = NoContext THEN "context" ELSE "findNs")
    /\ UNCHANGED <<request, nsIndex, failed, namespaces, nodes, dataToPublish, serverLock, serverPc>>

\* topicContext = malloc(...), never initialised and never checked
MallocContext(p) ==
    /\ pc[p] = "malloc"
    /\ topicContext' \in {FreshBytes} \cup (IF "malloc" \in Faults THEN {NoContext} ELSE {})
    /\ Goto(p, "findNs")
    /\ UNCHANGED <<request, nsIndex, failed, namespaces, nodes, dataToPublish, serverLock, serverPc>>

\* Mutant: the index that the lookup finds is not stored.
GetNamespaceByNameUnset(p) ==
    /\ pc[p] = "findNs"
    /\ \E found \in Lookup(p, request[p].ns \in namespaces) :
          Goto(p, IF found THEN "getContext" ELSE "addNs")
    /\ UNCHANGED <<request, nsIndex, failed, serverVars, dataToPublish, serverLock, serverPc>>

GetNamespaceByName(p) ==
    /\ pc[p] = "findNs"
    /\ \E found \in Lookup(p, request[p].ns \in namespaces) :
          /\ nsIndex' = [nsIndex EXCEPT ![p] = IF found THEN request[p].ns ELSE @]
          /\ Goto(p, IF found THEN "getContext" ELSE "addNs")
    /\ UNCHANGED <<request, failed, serverVars, dataToPublish, serverLock, serverPc>>

\* UA_Server_addNamespace searches again before it appends.
AddNamespace(p) ==
    /\ pc[p] = "addNs"
    /\ \E kept \in Inserted(p) :
          namespaces' = IF kept THEN namespaces \cup {request[p].ns} ELSE namespaces
    /\ nsIndex' = [nsIndex EXCEPT ![p] = request[p].ns]
    /\ Goto(p, "getContext")
    /\ UNCHANGED <<request, failed, nodes, topicContext, dataToPublish, serverLock, serverPc>>

\* Mutant: without the return after the failure.
AddNamespaceUnchecked(p) ==
    /\ pc[p] = "addNs"
    /\ "namespace" \in Faults
    /\ request[p].ns \notin namespaces
    /\ nsIndex' = [nsIndex EXCEPT ![p] = NsZero]
    /\ Fail(p)
    /\ Goto(p, "getContext")
    /\ UNCHANGED <<request, serverVars, dataToPublish, serverLock, serverPc>>

\* addNamespace answers 0: addTopicDataSourceVariable returns, serverPublish goes on.
AddNamespaceFails(p) ==
    /\ pc[p] = "addNs"
    /\ "namespace" \in Faults
    /\ request[p].ns \notin namespaces
    /\ nsIndex' = [nsIndex EXCEPT ![p] = NsZero]
    /\ Fail(p)
    /\ Goto(p, "copyHead")
    /\ UNCHANGED <<request, serverVars, dataToPublish, serverLock, serverPc>>

\* The node's context is the name it was added with.  An unknown node leaves
\* topicContext as the last call left it.
GetNodeContext(p) ==
    /\ pc[p] = "getContext"
    /\ \E found \in Lookup(p, NodeOf(p) \in nodes) :
          topicContext' = IF found THEN Topic(p) ELSE topicContext
    /\ Goto(p, "compare")
    /\ UNCHANGED <<request, nsIndex, failed, namespaces, nodes, dataToPublish, serverLock, serverPc>>

\* Mutant: any context stands for a node that exists.
CompareContextForNull(p) ==
    /\ pc[p] = "compare"
    /\ Goto(p, IF topicContext # NoContext THEN "copyHead" ELSE "addNode")
    /\ UNCHANGED <<request, nsIndex, failed, serverVars, dataToPublish, serverLock, serverPc>>

\* Mutant: strcmp without its negation.
CompareContextInverted(p) ==
    /\ pc[p] = "compare"
    /\ Goto(p, IF topicContext \notin {NoContext, Topic(p)} THEN "copyHead" ELSE "addNode")
    /\ UNCHANGED <<request, nsIndex, failed, serverVars, dataToPublish, serverLock, serverPc>>

\* strcmp(topicContext, topic): "Topic already exist for namespace"
CompareContext(p) ==
    /\ pc[p] = "compare"
    /\ Goto(p, IF topicContext = Topic(p) THEN "copyHead" ELSE "addNode")
    /\ UNCHANGED <<request, nsIndex, failed, serverVars, dataToPublish, serverLock, serverPc>>

\* Adding a node that exists fails, is logged, and leaves it as it is.
AddNode(p) ==
    /\ pc[p] = "addNode"
    /\ nodes' = nodes \cup {NodeOf(p)}
    /\ Goto(p, "copyHead")
    /\ UNCHANGED <<request, nsIndex, failed, namespaces, topicContext, dataToPublish, serverLock, serverPc>>

\* No memory, or the insertion is lost to a call that overlaps it.
AddNodeFails(p) ==
    /\ pc[p] = "addNode"
    /\ "node" \in Faults \/ Overlapped(p)
    /\ NodeOf(p) \notin nodes
    /\ Fail(p)
    /\ Goto(p, "copyHead")
    /\ UNCHANGED <<request, nsIndex, serverVars, dataToPublish, serverLock, serverPc>>

Payload(p) == [topic |-> Topic(p), msg |-> request[p].msg]

\* DBA_STRCPY(dataToPublish, data), byte after byte and without the lock.  strcpy_s
\* refuses a bound above RSIZE_MAX_STR, and its result is ignored.
CopyHead(p) ==
    /\ pc[p] = "copyHead"
    /\ IF request[p].msg \in Oversize
       THEN UNCHANGED dataToPublish /\ Goto(p, "lock")
       ELSE dataToPublish' = [dataToPublish EXCEPT !.head = Payload(p)] /\ Goto(p, "copyTail")
    /\ UNCHANGED <<request, nsIndex, failed, serverVars, serverLock, serverPc>>

CopyTail(p) ==
    /\ pc[p] = "copyTail"
    /\ dataToPublish' = [dataToPublish EXCEPT !.tail = Payload(p)]
    /\ Goto(p, "lock")
    /\ UNCHANGED <<request, nsIndex, failed, serverVars, serverLock, serverPc>>

\* Mutant: pthread_mutex_trylock, its result ignored.
LockServerTried(p) ==
    /\ pc[p] = "lock"
    /\ serverLock' = p
    /\ Goto(p, "write")
    /\ UNCHANGED <<request, nsIndex, failed, serverVars, dataToPublish, serverPc>>

\* UA_sleep_ms, then pthread_mutex_lock
LockServer(p) ==
    /\ pc[p] = "lock"
    /\ serverLock = Free
    /\ serverLock' = p
    /\ Goto(p, "write")
    /\ UNCHANGED <<request, nsIndex, failed, serverVars, dataToPublish, serverPc>>

\* Mutant: a write that fails returns before the lock is released.
WriteValueKeepsLock(p) ==
    /\ pc[p] = "write"
    /\ serverLock' = IF NodeOf(p) \in nodes THEN Free ELSE serverLock
    /\ failed' = failed \ {p}
    /\ Goto(p, "idle")
    /\ UNCHANGED <<request, nsIndex, serverVars, dataToPublish, serverPc>>

\* The node is written (writePublishedData stores nothing), the lock released,
\* and the call returns "0" if the write found the node and its error name
\* otherwise.  The application ignores the result, so it is not kept here.
WriteValue(p) ==
    /\ pc[p] = "write"
    /\ serverLock' = Free
    /\ failed' = failed \ {p}
    /\ Goto(p, "idle")
    /\ UNCHANGED <<request, nsIndex, serverVars, dataToPublish, serverPc>>

Publish(p) ==
    /\ \/ CheckContext(p) \/ MallocContext(p)
       \/ GetNamespaceByName(p) \/ AddNamespace(p) \/ AddNamespaceFails(p)
       \/ GetNodeContext(p) \/ CompareContext(p) \/ AddNode(p) \/ AddNodeFails(p)
       \/ CopyHead(p) \/ CopyTail(p)
       \/ LockServer(p) \/ WriteValue(p)
    /\ Contend

------------------------------------------------------------------------------
(* startServer: while (serverRunning) { lock; run_iterate; unlock; select } *)

ServerLocks ==
    /\ serverPc = "sleep"
    /\ serverLock = Free
    /\ serverLock' = Server
    /\ serverPc' = "iterate"
    /\ UNCHANGED <<callVars, serverVars, dataToPublish, contended>>

ServerUnlocks ==
    /\ serverPc = "iterate"
    /\ serverLock' = Free
    /\ serverPc' = "sleep"
    /\ UNCHANGED <<callVars, serverVars, dataToPublish, contended>>

ServerThread == ServerLocks \/ ServerUnlocks

------------------------------------------------------------------------------

Next == ServerThread \/ \E p \in Publishers : Call(p) \/ Publish(p)

Spec == Init /\ [][Next]_vars

(* A call in progress keeps being scheduled, and so does the server thread; *)
(* select() lets go of the lock between two iterations, so a publisher that *)
(* waits for it finds it free again and again.                              *)
Fairness == /\ WF_vars(ServerThread)
            /\ \A p \in Publishers : WF_vars(Publish(p)) /\ SF_vars(LockServer(p) /\ Contend)

FairSpec == Spec /\ Fairness

------------------------------------------------------------------------------
(* Properties *)

TypeOK ==
    /\ pc \in [Publishers -> Labels]
    /\ request \in [Publishers -> Requests]
    /\ nsIndex \in [Publishers -> Namespaces \cup {NsZero}]
    /\ failed \subseteq Publishers
    /\ namespaces \subseteq Namespaces
    /\ nodes \subseteq NodeIds
    /\ topicContext \in Topics \cup {NoContext, FreshBytes}
    /\ dataToPublish \in [head : Payloads \cup {NoData}, tail : Payloads \cup {NoData}]
    /\ contended \subseteq Publishers
    /\ serverLock \in Publishers \cup {Server, Free}
    /\ serverPc \in {"sleep", "iterate"}

\* serverLock does what it is for (lines 256-262 and 454-457): while a publisher
\* writes a node, no other publisher writes and the server does not iterate.
WriteExclusive ==
    \A p \in Publishers : pc[p] = "write" =>
        /\ serverPc # "iterate"
        /\ \A q \in Publishers : pc[q] = "write" => p = q

\* And it is held only by a thread that is about to release it: no way out of a
\* call, a failed write or a failed allocation among them, leaves it locked for
\* the other threads.
LockNotOrphaned ==
    serverLock # Free =>
        \/ serverLock = Server /\ serverPc = "iterate"
        \/ serverLock \in Publishers /\ pc[serverLock] = "write"

\* addTopicDataSourceVariable skips the creation of a node when topicContext,
\* a global that any thread's last lookup set, holds the topic's name (lines
\* 194-201).  That is right only if the name it holds is that of a node.
ContextNamesNode ==
    topicContext \in Topics => \E ns \in Namespaces : <<ns, topicContext>> \in nodes

\* The write under the lock (line 456) fails only if the library failed during
\* this very call, for want of memory or because, built without its lock, it lost
\* the node to a call that overlapped: no stale topicContext, no lookup that went
\* wrong and no earlier failure makes serverPublish miss the node it was to create.
WriteFindsNode ==
    \A p \in Publishers : pc[p] = "write" => NodeOf(p) \in nodes \/ p \in failed

\* A call of serverPublish returns, whatever the server thread and the other
\* publishers do.
PublishReturns == \A p \in Publishers : pc[p] # "idle" ~> pc[p] = "idle"

\* The promise of TopicRegistry, with one namespace as OpcuaExport uses it.
Registry == INSTANCE TopicRegistry WITH
    Nodes <- NodeIds,
    registered <- nodes,
    asked <- [p \in Publishers |->
                 IF pc[p] = "idle" THEN {} ELSE {<<request[p].ns, Topic(p)>>}]

RegistrySpec == Registry!Spec

==============================================================================
