-------------------------- MODULE MCPublishSubscribe --------------------------
(* Small instances of PublishSubscribe: the model values of the configurations. *)
EXTENDS PublishSubscribe

CONSTANTS p1, p2, ns1, t1, t2

\* No topic's name is part of another's payload.
Unrelated == [t \in Topics |-> {t}]
==============================================================================
