-------------------------- MODULE SubscriptionViews --------------------------
(***************************************************************************)
(* What a client and a server promise each other about the subscription of *)
(* a session.  Each end keeps a view of it.  The server makes it, and      *)
(* fills it, when it gets the request; the client knows of that when it    *)
(* gets the reply, if it does.  The server makes no second one for a       *)
(* client that knows one, and fills it once, before the client has learnt  *)
(* of any item; either end, or both, may forget it at any time, untold.    *)
(* So a client that has learnt of items knows all that are monitored and   *)
(* no other.                                                               *)
(***************************************************************************)
CONSTANT Topics

VARIABLES sub,      \* the server has a subscription
          items,    \* the topics it monitors
          known,    \* the client knows of it
          view      \* the topics it takes to be monitored

views == <<sub, items, known, view>>

Init ==
    /\ sub = FALSE /\ items = {}
    /\ known = FALSE /\ view = {}

Subscribe ==
    /\ ~sub /\ ~known
    /\ sub' = TRUE
    /\ UNCHANGED <<items, known, view>>

Learn ==
    /\ sub /\ ~known
    /\ known' = TRUE
    /\ UNCHANGED <<sub, items, view>>

AddItems(found) ==
    /\ sub /\ known
    /\ items = {} /\ view = {}
    /\ items' = found
    /\ UNCHANGED <<sub, known, view>>

LearnItems ==
    /\ sub /\ known /\ view = {}
    /\ view' = items
    /\ UNCHANGED <<sub, items, known>>

ServerForgets == sub' = FALSE /\ items' = {}
ClientForgets == known' = FALSE /\ view' = {}

Forget ==
    \/ ServerForgets /\ UNCHANGED <<known, view>>
    \/ ClientForgets /\ UNCHANGED <<sub, items>>
    \/ ServerForgets /\ ClientForgets

Next ==
    \/ Subscribe \/ Learn
    \/ \E found \in SUBSET Topics : AddItems(found)
    \/ LearnItems
    \/ Forget

Spec == Init /\ [][Next]_views

==============================================================================
