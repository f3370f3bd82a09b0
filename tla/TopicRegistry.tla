---------------------------- MODULE TopicRegistry ----------------------------
(***************************************************************************)
(* What serverPublish promises to its callers, with the library, the lock  *)
(* and the shared globals left out.  The promise is the documentation of   *)
(* the function in open62541_wrappers.h (lines 103-107): a call creates    *)
(* the variable node of its topic if it does not exist, writes to it, and  *)
(* returns "0" for success.  A call may fail only when the library failed  *)
(* while it was being served: a resource ran out, or it lost what it       *)
(* inserted to another call.                                               *)
(***************************************************************************)
CONSTANTS Publishers,   \* threads that call serverPublish
          Nodes         \* the <<namespace, topic>> pairs they publish on

VARIABLES registered,   \* nodes that exist in the server's address space
          asked,        \* thread -> node of its call, or {} between calls
          failed        \* threads whose current call the library failed

vars == <<registered, asked, failed>>

Init == /\ registered = {}
        /\ asked = [p \in Publishers |-> {}]
        /\ failed = {}

\* A thread calls serverPublish on a node.
Call(p) == /\ asked[p] = {}
           /\ \E n \in Nodes : asked' = [asked EXCEPT ![p] = {n}]
           /\ UNCHANGED <<registered, failed>>

\* The call adds the node it was asked for, and no other.
Register(p) == /\ asked[p] # {}
               /\ registered' = registered \cup asked[p]
               /\ UNCHANGED <<asked, failed>>

\* The library could not make, or did not keep, what the call needs.
Fail(p) == /\ asked[p] # {}
           /\ failed' = failed \cup {p}
           /\ UNCHANGED <<registered, asked>>

\* The call returns.  Its node exists then, unless the library failed the call.
Return(p) == /\ asked[p] # {}
             /\ asked[p] \subseteq registered \/ p \in failed
             /\ asked' = [asked EXCEPT ![p] = {}]
             /\ failed' = failed \ {p}
             /\ UNCHANGED registered

Next == \E p \in Publishers : Call(p) \/ Register(p) \/ Fail(p) \/ Return(p)

Spec == Init /\ [][Next]_vars

==============================================================================
