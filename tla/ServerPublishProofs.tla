------------------------- MODULE ServerPublishProofs -------------------------
(***************************************************************************)
(* Theorems about ServerPublish, for any number of publishers, topics and  *)
(* messages.                                                               *)
(***************************************************************************)
EXTENDS ServerPublish, TLAPS

\* All calls name one namespace, as those of OpcuaExport do.
OneNamespace == \A m, n \in Namespaces : m = n

\* Between the lookup of the namespace and the insertion of the node, the
\* local index is that of the namespace asked for: a failed addNamespace
\* never gets here.
IndexInv ==
    \A p \in Publishers :
        pc[p] \in {"getContext", "compare", "addNode"} => nsIndex[p] = request[p].ns

\* The lock is held by exactly the thread that is inside its critical section.
LockInv ==
    /\ \A p \in Publishers : pc[p] = "write" => serverLock = p
    /\ serverPc = "iterate" => serverLock = Server
    /\ LockNotOrphaned

\* Past the insertion the node exists, unless the library failed this very call.
CreatedInv ==
    \A p \in Publishers :
        pc[p] \in {"copyHead", "copyTail", "lock", "write"} =>
            \/ NodeOf(p) \in nodes /\ nsIndex[p] = request[p].ns
            \/ p \in failed

TypeInv == TypeOK /\ IndexInv

------------------------------------------------------------------------------
(* Types *)

LEMMA InitTypeInv == Init => TypeInv
BY ConstantsAssumption DEF Init, TypeInv, IndexInv, TypeOK, Labels, LibraryCalls, NodeIds

LEMMA CallTypeInv ==
  ASSUME TypeInv, NEW p \in Publishers, Call(p)
  PROVE  TypeInv'
BY DEF TypeInv, IndexInv, TypeOK, Call, Goto, serverVars, Labels

LEMMA PublishTypeInv ==
  ASSUME TypeInv, NEW p \in Publishers, Publish(p)
  PROVE  TypeInv'
<1> USE DEF TypeInv, IndexInv, TypeOK, Goto, Fail, callVars, serverVars, Labels, LibraryCalls
<1>0. request[p] \in Requests /\ Topic(p) \in Topics /\ request[p].ns \in Namespaces
  BY DEF Topic, Requests
<1>c. contended' \subseteq Publishers
  BY DEF Publish, Contend
<1> USE <1>c
<1>1. CASE CheckContext(p) BY <1>1 DEF CheckContext
<1>2. CASE MallocContext(p) BY <1>2 DEF MallocContext
<1>3. CASE GetNamespaceByName(p)
  <2>1. PICK found \in Lookup(p, request[p].ns \in namespaces) :
           /\ nsIndex' = [nsIndex EXCEPT ![p] = IF found THEN request[p].ns ELSE @]
           /\ pc' = [pc EXCEPT ![p] = IF found THEN "getContext" ELSE "addNs"]
    BY <1>3 DEF GetNamespaceByName
  <2>2. CASE found BY <1>0, <1>3, <2>1, <2>2 DEF GetNamespaceByName
  <2>3. CASE ~found BY <1>0, <1>3, <2>1, <2>3 DEF GetNamespaceByName
  <2> QED BY <2>2, <2>3
<1>4. CASE AddNamespace(p) BY <1>0, <1>4 DEF AddNamespace
<1>5. CASE AddNamespaceFails(p) BY <1>5 DEF AddNamespaceFails
<1>6. CASE GetNodeContext(p) BY <1>0, <1>6 DEF GetNodeContext
<1>7. CASE CompareContext(p) BY <1>7 DEF CompareContext
<1>8. CASE AddNode(p)
  <2>1. NodeOf(p) \in NodeIds
    BY <1>0, <1>8 DEF AddNode, NodeOf, NodeIds
  <2>2. nodes' \subseteq NodeIds
    BY <1>8, <2>1 DEF AddNode
  <2> QED BY <1>8, <2>2 DEF AddNode
<1>9. CASE AddNodeFails(p) BY <1>9 DEF AddNodeFails
<1>10. CASE CopyHead(p) BY <1>0, <1>10 DEF CopyHead, Payload, Payloads, Requests
<1>11. CASE CopyTail(p) BY <1>0, <1>11 DEF CopyTail, Payload, Payloads, Requests
<1>13. CASE LockServer(p) BY <1>13 DEF LockServer
<1>14. CASE WriteValue(p) BY <1>14 DEF WriteValue
<1> QED
  BY <1>1, <1>2, <1>3, <1>4, <1>5, <1>6, <1>7, <1>8, <1>9, <1>10, <1>11,
     <1>13, <1>14 DEF Publish

LEMMA NextTypeInv == TypeInv /\ [Next]_vars => TypeInv'
<1> SUFFICES ASSUME TypeInv, [Next]_vars PROVE TypeInv'
  OBVIOUS
<1>1. CASE ServerThread
  BY <1>1 DEF TypeInv, IndexInv, TypeOK, ServerThread, ServerLocks, ServerUnlocks,
              callVars, serverVars
<1>2. CASE UNCHANGED vars
  BY <1>2 DEF TypeInv, IndexInv, TypeOK, vars, callVars, serverVars
<1> QED BY <1>1, <1>2, CallTypeInv, PublishTypeInv DEF Next

LEMMA TypeInvariant == Spec => []TypeInv
BY InitTypeInv, NextTypeInv, PTL DEF Spec

\* Every variable keeps its type; a node is added only under the namespace
\* its caller asked for.
THEOREM TypeCorrect == Spec => []TypeOK
<1>1. TypeInv => TypeOK
  BY DEF TypeInv
<1> QED BY <1>1, TypeInvariant, PTL

------------------------------------------------------------------------------
(* The lock *)

LEMMA LockInvariant == Spec => []LockInv
<1>1. Init => LockInv
  BY DEF Init, LockInv, LockNotOrphaned
<1>2. TypeInv /\ LockInv /\ [Next]_vars => LockInv'
  <2> SUFFICES ASSUME TypeInv, LockInv, [Next]_vars PROVE LockInv'
    OBVIOUS
  <2> USE DEF TypeInv, TypeOK, LockInv, LockNotOrphaned, Goto
  <2>1. ASSUME NEW p \in Publishers, Call(p) PROVE LockInv'
    BY <2>1 DEF Call
  <2>2. ASSUME NEW p \in Publishers, Publish(p) PROVE LockInv'
    <3>1. CASE LockServer(p)
      BY <3>1, ConstantsAssumption DEF LockServer
    <3>2. CASE WriteValue(p)
      BY <3>2, ConstantsAssumption DEF WriteValue
    <3>3. CASE pc[p] # "write" /\ pc'[p] # "write" /\ UNCHANGED <<serverLock, serverPc>>
               /\ \E l \in Labels : pc' = [pc EXCEPT ![p] = l]
      BY <3>3
    <3>4. ASSUME ~LockServer(p), ~WriteValue(p)
          PROVE  /\ pc[p] # "write" /\ pc'[p] # "write"
                 /\ UNCHANGED <<serverLock, serverPc>>
                 /\ \E l \in Labels : pc' = [pc EXCEPT ![p] = l]
      BY <2>2, <3>4 DEF Publish, Labels, LibraryCalls, CheckContext, MallocContext,
         GetNamespaceByName, AddNamespace, AddNamespaceFails, GetNodeContext,
         CompareContext, AddNode, AddNodeFails, CopyHead, CopyTail
    <3> QED BY <3>1, <3>2, <3>3, <3>4
  <2>3. CASE ServerThread
    BY <2>3, ConstantsAssumption DEF ServerThread, ServerLocks, ServerUnlocks, callVars
  <2>4. CASE UNCHANGED vars
    BY <2>4 DEF vars, callVars
  <2> QED BY <2>1, <2>2, <2>3, <2>4 DEF Next
<1> QED BY <1>1, <1>2, TypeInvariant, PTL DEF Spec

\* The server thread's iterations and the writes of publishers exclude each
\* other (serverLock, lines 256-262 and 454-457).
THEOREM WritesAreExclusive == Spec => []WriteExclusive
<1>1. LockInv => WriteExclusive
  BY ConstantsAssumption DEF LockInv, WriteExclusive
<1> QED BY <1>1, LockInvariant, PTL

\* The lock is never left locked by a thread that is past its critical section,
\* however the call ends.
THEOREM LockIsReleased == Spec => []LockNotOrphaned
<1>1. LockInv => LockNotOrphaned
  BY DEF LockInv
<1> QED BY <1>1, LockInvariant, PTL

------------------------------------------------------------------------------
(* What the wrapper believes about the address space *)

\* A publisher's step never removes a node, and changes topicContext only to a
\* name that was not known, to its own, or to that of a node it has looked up.
LEMMA PublishContext ==
  ASSUME TypeInv, ContextNamesNode, NEW p \in Publishers, Publish(p)
  PROVE  ContextNamesNode'
<1> USE DEF ContextNamesNode, serverVars
<1>1. CASE MallocContext(p)
  BY <1>1, ConstantsAssumption DEF MallocContext
<1>2. CASE GetNodeContext(p)
  <2>1. \/ topicContext' = topicContext
        \/ NodeOf(p) \in nodes /\ topicContext' = Topic(p)
    <3>1. PICK found \in Lookup(p, NodeOf(p) \in nodes) :
             topicContext' = IF found THEN Topic(p) ELSE topicContext
      BY <1>2 DEF GetNodeContext
    <3>2. found = FALSE \/ found = (NodeOf(p) \in nodes)
      BY <3>1 DEF Lookup
    <3> QED BY <3>1, <3>2
  <2>2. nsIndex[p] = request[p].ns /\ request[p].ns \in Namespaces
    BY <1>2 DEF GetNodeContext, TypeInv, IndexInv, TypeOK, Requests
  <2> QED BY <1>2, <2>1, <2>2 DEF GetNodeContext, NodeOf
<1>3. CASE AddNode(p)
  <2>1. nodes \subseteq nodes' /\ UNCHANGED topicContext
    BY <1>3 DEF AddNode
  <2> QED BY <2>1
<1>4. ASSUME ~MallocContext(p), ~GetNodeContext(p), ~AddNode(p)
      PROVE  UNCHANGED <<nodes, topicContext>>
  BY <1>4 DEF Publish, CheckContext, GetNamespaceByName, AddNamespace,
     AddNamespaceFails, CompareContext, AddNodeFails, CopyHead, CopyTail,
     LockServer, WriteValue
<1> QED BY <1>1, <1>2, <1>3, <1>4

LEMMA NextContext == TypeInv /\ ContextNamesNode /\ [Next]_vars => ContextNamesNode'
<1> SUFFICES ASSUME TypeInv, ContextNamesNode, [Next]_vars PROVE ContextNamesNode'
  OBVIOUS
<1>1. ASSUME UNCHANGED serverVars PROVE ContextNamesNode'
  BY <1>1 DEF ContextNamesNode, serverVars
<1>2. ASSUME NEW p \in Publishers, Call(p) PROVE UNCHANGED serverVars
  BY <1>2 DEF Call
<1>3. ServerThread => UNCHANGED serverVars
  BY DEF ServerThread, ServerLocks, ServerUnlocks
<1>4. UNCHANGED vars => UNCHANGED serverVars
  BY DEF vars
<1> QED BY <1>1, <1>2, <1>3, <1>4, PublishContext DEF Next

\* When topicContext holds a topic's name, a node of that topic exists: the
\* "Topic already exist" return (lines 194-201) is never taken on the word of
\* an insertion that failed, was lost to another publisher's or has not happened.
THEOREM ContextIsTrue == Spec => []ContextNamesNode
<1>1. Init => ContextNamesNode
  BY ConstantsAssumption DEF Init, ContextNamesNode
<1> QED BY <1>1, NextContext, TypeInvariant, PTL DEF Spec

------------------------------------------------------------------------------
(* What serverPublish promises *)

\* What the wrapper concludes from strcmp is so: the node whose creation it
\* skips exists.
LEMMA SkipIsRight ==
  ASSUME OneNamespace, TypeInv, ContextNamesNode,
         NEW p \in Publishers, pc[p] = "compare", topicContext = Topic(p)
  PROVE  NodeOf(p) \in nodes
<1>1. nsIndex[p] \in Namespaces /\ Topic(p) \in Topics
  BY DEF TypeInv, IndexInv, TypeOK, Requests, Topic
<1>2. PICK ns \in Namespaces : <<ns, topicContext>> \in nodes
  BY <1>1 DEF ContextNamesNode
<1> QED BY <1>1, <1>2 DEF OneNamespace, NodeOf

LEMMA PublishCreated ==
  ASSUME OneNamespace, TypeInv, ContextNamesNode, CreatedInv,
         NEW p \in Publishers, Publish(p)
  PROVE  CreatedInv'
<1> USE DEF CreatedInv, TypeInv, TypeOK, Goto, Fail, serverVars, NodeOf, Topic
<1>1. CASE CheckContext(p) BY <1>1 DEF CheckContext
<1>2. CASE MallocContext(p) BY <1>2 DEF MallocContext
<1>3. CASE GetNamespaceByName(p)
  <2>1. pc'[p] \in {"getContext", "addNs"}
    BY <1>3 DEF GetNamespaceByName
  <2> QED BY <1>3, <2>1 DEF GetNamespaceByName
<1>4. CASE AddNamespace(p) BY <1>4 DEF AddNamespace
<1>5. CASE AddNamespaceFails(p) BY <1>5 DEF AddNamespaceFails
<1>6. CASE GetNodeContext(p) BY <1>6 DEF GetNodeContext
<1>7. CASE CompareContext(p)
  BY <1>7, SkipIsRight DEF CompareContext, IndexInv
<1>8. CASE AddNode(p)
  BY <1>8 DEF AddNode, IndexInv
<1>9. CASE AddNodeFails(p) BY <1>9 DEF AddNodeFails
<1>10. CASE CopyHead(p) BY <1>10 DEF CopyHead
<1>11. CASE CopyTail(p) BY <1>11 DEF CopyTail
<1>13. CASE LockServer(p) BY <1>13 DEF LockServer
<1>14. CASE WriteValue(p) BY <1>14 DEF WriteValue
<1> QED
  BY <1>1, <1>2, <1>3, <1>4, <1>5, <1>6, <1>7, <1>8, <1>9, <1>10, <1>11,
     <1>13, <1>14 DEF Publish

LEMMA NextCreated ==
  ASSUME OneNamespace
  PROVE  TypeInv /\ ContextNamesNode /\ CreatedInv /\ [Next]_vars => CreatedInv'
<1> SUFFICES ASSUME TypeInv, ContextNamesNode, CreatedInv, [Next]_vars
             PROVE  CreatedInv'
  OBVIOUS
<1>1. ASSUME NEW p \in Publishers, Call(p) PROVE CreatedInv'
  BY <1>1 DEF Call, CreatedInv, TypeInv, TypeOK, Goto, serverVars, NodeOf, Topic
<1>2. CASE ServerThread
  BY <1>2 DEF CreatedInv, ServerThread, ServerLocks, ServerUnlocks, callVars,
              serverVars, NodeOf, Topic
<1>3. CASE UNCHANGED vars
  BY <1>3 DEF CreatedInv, vars, callVars, serverVars, NodeOf, Topic
<1> QED BY <1>1, <1>2, <1>3, PublishCreated DEF Next

LEMMA CreatedInvariant ==
  ASSUME OneNamespace
  PROVE  Spec => []CreatedInv
<1>1. Init => CreatedInv
  BY DEF Init, CreatedInv
<1>2. TypeInv /\ ContextNamesNode /\ CreatedInv /\ [Next]_vars => CreatedInv'
  BY NextCreated
<1>3. Spec => []ContextNamesNode
  BY ContextIsTrue
<1> QED BY <1>1, <1>2, <1>3, TypeInvariant, PTL DEF Spec

\* With one namespace, the write of every call of serverPublish finds its node
\* unless the library failed that very call: for want of memory or, where it does
\* not lock, because it lost the node to a call that overlapped the insertion.
THEOREM EveryWriteFindsItsNode ==
  ASSUME OneNamespace
  PROVE  Spec => []WriteFindsNode
<1>1. CreatedInv => WriteFindsNode
  BY DEF CreatedInv, WriteFindsNode
<1>2. Spec => []CreatedInv
  BY CreatedInvariant
<1> QED BY <1>1, <1>2, PTL

------------------------------------------------------------------------------
(* ServerPublish implements TopicRegistry *)

LEMMA PublishRefines ==
  ASSUME OneNamespace, TypeInv, CreatedInv,
         NEW p \in Publishers, Publish(p)
  PROVE  [Registry!Next]_(Registry!vars)
<1> DEFINE wanted == {<<request[p].ns, Topic(p)>>}
           asked  == [q \in Publishers |->
                         IF pc[q] = "idle" THEN {} ELSE {<<request[q].ns, Topic(q)>>}]
<1> USE DEF Registry!vars, TypeInv, TypeOK, Goto, Fail, serverVars
<1>0. pc[p] # "idle" /\ asked[p] = wanted
  BY DEF Publish, CheckContext, MallocContext, GetNamespaceByName, AddNamespace,
     AddNamespaceFails, GetNodeContext, CompareContext, AddNode, AddNodeFails,
     CopyHead, CopyTail, LockServer, WriteValue
<1>1. ASSUME UNCHANGED request, pc'[p] # "idle", \E l \in Labels : pc' = [pc EXCEPT ![p] = l]
      PROVE  UNCHANGED asked
  BY <1>0, <1>1 DEF Topic
<1>2. CASE AddNode(p)
  <2>1. NodeOf(p) = <<request[p].ns, Topic(p)>>
    BY <1>2 DEF AddNode, NodeOf, IndexInv
  <2>2. nodes' = nodes \cup asked[p] \/ nodes' = nodes
    BY <1>2, <1>0, <2>1 DEF AddNode
  <2>3. UNCHANGED <<asked, failed>>
    BY <1>1, <1>2 DEF AddNode, Labels, LibraryCalls
  <2>4. Registry!Register(p) \/ UNCHANGED Registry!vars
    BY <1>0, <2>2, <2>3 DEF Registry!Register
  <2> QED BY <2>4 DEF Registry!Next
<1>3. CASE AddNodeFails(p) \/ AddNamespaceFails(p)
  <2>1. UNCHANGED asked
    BY <1>1, <1>3 DEF AddNodeFails, AddNamespaceFails, Labels, LibraryCalls
  <2>2. Registry!Fail(p)
    BY <1>0, <1>3, <2>1 DEF AddNodeFails, AddNamespaceFails, Registry!Fail
  <2> QED BY <2>2 DEF Registry!Next
<1>4. CASE WriteValue(p)
  <2>1. asked[p] \subseteq nodes \/ p \in failed
    BY <1>0, <1>4 DEF WriteValue, CreatedInv, NodeOf
  <2>2. asked' = [asked EXCEPT ![p] = {}]
    BY <1>4 DEF WriteValue, Topic
  <2>3. Registry!Return(p)
    BY <1>0, <1>4, <2>1, <2>2 DEF WriteValue, Registry!Return
  <2> QED BY <2>3 DEF Registry!Next
<1>5. CASE ~AddNode(p) /\ ~AddNodeFails(p) /\ ~AddNamespaceFails(p) /\ ~WriteValue(p)
  <2>1. /\ UNCHANGED <<request, nodes, failed>>
        /\ pc'[p] # "idle"
        /\ \E l \in Labels : pc' = [pc EXCEPT ![p] = l]
    BY <1>5 DEF Publish, Labels, LibraryCalls, CheckContext, MallocContext,
       GetNamespaceByName, AddNamespace, GetNodeContext, CompareContext, CopyHead,
       CopyTail, LockServer
  <2> QED BY <1>1, <2>1
<1> QED BY <1>2, <1>3, <1>4, <1>5

LEMMA NextRefines ==
  ASSUME OneNamespace
  PROVE  TypeInv /\ CreatedInv /\ [Next]_vars => [Registry!Next]_(Registry!vars)
<1> SUFFICES ASSUME TypeInv, CreatedInv, [Next]_vars
             PROVE  [Registry!Next]_(Registry!vars)
  OBVIOUS
<1>1. ASSUME NEW p \in Publishers, Call(p) PROVE Registry!Call(p)
  <2>1. PICK r \in Requests : request' = [request EXCEPT ![p] = r]
    BY <1>1 DEF Call
  <2>2. <<r.ns, r.topic>> \in NodeIds
    BY DEF Requests, NodeIds
  <2>3. [q \in Publishers |->
            IF pc[q] = "idle" THEN {} ELSE {<<request[q].ns, Topic(q)>>}]' =
        [[q \in Publishers |->
            IF pc[q] = "idle" THEN {} ELSE {<<request[q].ns, Topic(q)>>}]
            EXCEPT ![p] = {<<r.ns, r.topic>>}]
    BY <1>1, <2>1 DEF Call, Goto, Topic, TypeInv, TypeOK
  <2> QED BY <1>1, <2>2, <2>3 DEF Call, Registry!Call, serverVars
<1>2. CASE ServerThread
  BY <1>2 DEF ServerThread, ServerLocks, ServerUnlocks, callVars, serverVars,
              Registry!vars, Topic
<1>3. CASE UNCHANGED vars
  BY <1>3 DEF vars, callVars, serverVars, Registry!vars, Topic
<1> QED BY <1>1, <1>2, <1>3, PublishRefines DEF Next, Registry!Next

\* serverPublish keeps the promise of its documentation: a call creates at most
\* the node it names, and has created it when it returns unless the library failed
\* that call.
THEOREM ImplementsRegistry ==
  ASSUME OneNamespace
  PROVE  Spec => RegistrySpec
<1>1. Init => Registry!Init
  BY DEF Init, Registry!Init
<1>2. TypeInv /\ CreatedInv /\ [Next]_vars => [Registry!Next]_(Registry!vars)
  BY NextRefines
<1>3. Spec => []CreatedInv
  BY CreatedInvariant
<1> QED BY <1>1, <1>2, <1>3, TypeInvariant, PTL DEF Spec, RegistrySpec, Registry!Spec
==============================================================================
