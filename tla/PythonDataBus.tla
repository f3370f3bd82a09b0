----------------------------- MODULE PythonDataBus -----------------------------
(***************************************************************************)
(* The Python binding: databus.py over databusopcua.py, the pyx wrapper    *)
(* and the dispatch of DataBus.c.  One DataBus object, its application     *)
(* calling it in any order, the client thread of C (runClient) calling     *)
(* cb_func, and a worker thread for every call of subscribe.               *)
(*                                                                         *)
(* The interpreter lock makes what a thread does without calling Python    *)
(* again one step: a call into C keeps the lock until it returns.          *)
(* publish changes nothing here; serverPublish is in ServerPublish.        *)
(***************************************************************************)
EXTENDS Naturals, Sequences, FiniteSets

CONSTANTS Subscriptions,  \* calls of subscribe, each with a queue, a worker and a callback
          MaxMessages,    \* bound on the notifications of the client thread
          BusFaults,      \* what may fail: "server", "client", "subscribe", "decode"
          NoQueue         \* None

ASSUME BusAssumption ==
    /\ NoQueue \notin Subscriptions
    /\ MaxMessages \in Nat
    /\ BusFaults \subseteq {"server", "client", "subscribe", "decode"}

VARIABLES app,           \* where the application's thread is in the binding
          call,          \* the call of subscribe it is in
          direction,     \* DataBus.direction
          busDirection,  \* DataBus.bus.direction, "none" without a bus
          context,       \* what DataBus.c has created
          gQueue,        \* G_QUEUE
          clientThread,  \* runClient has been started
          notified,      \* notifications handed to pyxCallback so far
          undecoded,     \* those whose text cannot be decoded
          workers,       \* calls whose worker thread is running
          queue,         \* the queue of each call
          handling,      \* what its worker has taken from it, 0 for nothing
          handled        \* what its callback has been called with

appVars == <<app, call, direction, busDirection, context>>
threadVars == <<gQueue, clientThread, notified, undecoded, workers, queue, handling, handled>>
busVars == <<appVars, threadVars>>

BusInit ==
    /\ app = "idle" /\ call \in Subscriptions
    /\ direction = "NONE" /\ busDirection = "none" /\ context = "none"
    /\ gQueue = NoQueue
    /\ clientThread = FALSE
    /\ notified = 0
    /\ undecoded = {}
    /\ workers = {}
    /\ queue = [s \in Subscriptions |-> <<>>]
    /\ handling = [s \in Subscriptions |-> 0]
    /\ handled = [s \in Subscriptions |-> <<>>]

------------------------------------------------------------------------------
(* The application's thread *)

\* context_create: the bus notes the direction before C is called, the DataBus
\* after it succeeded.  Any other direction makes C answer "0" with nothing
\* created, and context_create raise.  One context is created per process.
ContextCreate(d) ==
    /\ app = "idle" /\ context = "none"
    /\ busDirection' = d
    /\ IF d \in {"PUB", "SUB"} THEN context' = d /\ direction' = d
                               ELSE UNCHANGED <<context, direction>>
    /\ UNCHANGED <<app, call, threadVars>>

\* serverContextCreate answers an error: it is raised.
ServerContextCreateFails ==
    /\ app = "idle" /\ context = "none" /\ "server" \in BusFaults
    /\ busDirection' = "PUB"
    /\ UNCHANGED <<app, call, direction, context, threadVars>>

\* clientContextCreate cannot connect: cleanupClient follows subArgs, which only
\* clientSubscribe sets.
ClientContextCreateCrashes ==
    /\ app = "idle" /\ context = "none" /\ "client" \in BusFaults
    /\ app' = "crashed"
    /\ UNCHANGED <<call, direction, busDirection, context, threadVars>>

\* subscribe: a queue and its worker, before anything is asked of the bus; with
\* another direction it returns and has done nothing.
Subscribe(s) ==
    /\ app = "idle" /\ direction = "SUB" /\ s \notin workers
    /\ workers' = workers \cup {s}
    /\ call' = s
    /\ app' = "receive"
    /\ UNCHANGED <<direction, busDirection, context, gQueue, clientThread, notified,
                   undecoded, queue, handling, handled>>

\* Mutant: without its global statement, G_QUEUE is a local variable of receive.
ReceiveLocalQueue ==
    /\ app = "receive"
    /\ app' = IF busDirection = "SUB" THEN "clientSubscribe" ELSE "idle"
    /\ UNCHANGED <<call, direction, busDirection, context, threadVars>>

\* receive: the bus of a destroyed context raises "Wrong Bus Direction".
Receive ==
    /\ app = "receive"
    /\ IF busDirection = "SUB" THEN gQueue' = call /\ app' = "clientSubscribe"
                               ELSE gQueue' = gQueue /\ app' = "idle"
    /\ UNCHANGED <<call, direction, busDirection, context, clientThread, notified,
                   undecoded, workers, queue, handling, handled>>

ClientSubscribe ==
    /\ app = "clientSubscribe"
    /\ clientThread' = TRUE
    /\ app' = "idle"
    /\ UNCHANGED <<call, direction, busDirection, context, gQueue, notified, undecoded,
                   workers, queue, handling, handled>>

\* createSubscription or pthread_create fails: raised, and the new queue stays.
ClientSubscribeFails ==
    /\ app = "clientSubscribe" /\ "subscribe" \in BusFaults
    /\ app' = "idle"
    /\ UNCHANGED <<call, direction, busDirection, context, threadVars>>

\* context_destroy: ContextDestroy of C does nothing (gDirection is empty, see
\* OpcuaExport), and only the bus forgets its direction.
ContextDestroy ==
    /\ app = "idle" /\ busDirection # "none"
    /\ busDirection' = " "
    /\ UNCHANGED <<app, call, direction, context, threadVars>>

Application ==
    \/ \E d \in {"PUB", "SUB", "NONE"} : ContextCreate(d)
    \/ ServerContextCreateFails \/ ClientContextCreateCrashes
    \/ \E s \in Subscriptions : Subscribe(s)
    \/ Receive \/ ClientSubscribe \/ ClientSubscribeFails
    \/ ContextDestroy

------------------------------------------------------------------------------
(* The client thread: pyxCallback, and in it cb_func *)

\* G_QUEUE.put; with None for a queue it raises, and pyxCallback drops it.
CbFunc ==
    /\ app # "crashed" /\ clientThread /\ notified < MaxMessages
    /\ notified' = notified + 1
    /\ queue' = [s \in Subscriptions |->
                    IF s = gQueue THEN Append(queue[s], notified') ELSE queue[s]]
    /\ UNCHANGED <<appVars, gQueue, clientThread, undecoded, workers, handling, handled>>

\* msg.decode or topic.decode raises.
CbFuncRaises ==
    /\ app # "crashed" /\ clientThread /\ notified < MaxMessages
    /\ "decode" \in BusFaults
    /\ notified' = notified + 1
    /\ undecoded' = undecoded \cup {notified'}
    /\ UNCHANGED <<appVars, gQueue, clientThread, workers, queue, handling, handled>>

------------------------------------------------------------------------------
(* worker *)

WorkerTakes(s) ==
    /\ app # "crashed" /\ s \in workers
    /\ handling[s] = 0 /\ queue[s] # <<>>
    /\ handling' = [handling EXCEPT ![s] = Head(queue[s])]
    /\ queue' = [queue EXCEPT ![s] = Tail(@)]
    /\ UNCHANGED <<appVars, gQueue, clientThread, notified, undecoded, workers, handled>>

\* Mutant: the worker ends with the exception of its callback.
WorkerEnds(s) ==
    /\ app # "crashed" /\ handling[s] # 0
    /\ handled' = [handled EXCEPT ![s] = Append(@, handling[s])]
    /\ handling' = [handling EXCEPT ![s] = 0]
    /\ workers' \in {workers, workers \ {s}}
    /\ UNCHANGED <<appVars, gQueue, clientThread, notified, undecoded, queue>>

\* Mutant: a message whose callback raised goes back to the queue.
WorkerPutsBack(s) ==
    /\ app # "crashed" /\ handling[s] # 0
    /\ handling' = [handling EXCEPT ![s] = 0]
    /\ \/ handled' = [handled EXCEPT ![s] = Append(@, handling[s])] /\ UNCHANGED queue
       \/ queue' = [queue EXCEPT ![s] = Append(@, handling[s])] /\ UNCHANGED handled
    /\ UNCHANGED <<appVars, gQueue, clientThread, notified, undecoded, workers>>

\* The callback returns, or raises what the worker swallows.
WorkerCalls(s) ==
    /\ app # "crashed" /\ handling[s] # 0
    /\ handled' = [handled EXCEPT ![s] = Append(@, handling[s])]
    /\ handling' = [handling EXCEPT ![s] = 0]
    /\ UNCHANGED <<appVars, gQueue, clientThread, notified, undecoded, workers, queue>>

Worker(s) == WorkerTakes(s) \/ WorkerCalls(s)

------------------------------------------------------------------------------

BusNext == \/ Application
           \/ CbFunc \/ CbFuncRaises
           \/ \E s \in Subscriptions : Worker(s)

BusSpec == BusInit /\ [][BusNext]_busVars

\* The workers wait for their queue in a loop that nothing ends: event is never
\* set.  The application and the publisher promise nothing.
BusFairSpec == BusSpec /\ \A s \in Subscriptions : WF_busVars(Worker(s))

------------------------------------------------------------------------------
(* Properties *)

\* The messages of a call that its callback was not called with yet, in order.
Waiting(s) == (IF handling[s] = 0 THEN <<>> ELSE <<handling[s]>>) \o queue[s]

Elements(seq) == {seq[i] : i \in 1 .. Len(seq)}

\* Every notification that can be decoded is in exactly one place: although
\* subscribe races the client thread for G_QUEUE, fails half way or is called
\* again, none is dropped, and none is given to two callbacks.
NothingLost ==
    /\ (1 .. notified) \ undecoded = UNION {Elements(handled[s] \o Waiting(s)) : s \in Subscriptions}
    /\ \A s, r \in Subscriptions :
          s # r => Elements(handled[s] \o Waiting(s)) \cap Elements(handled[r] \o Waiting(r)) = {}

\* A callback is called with its messages in the order of the notifications,
\* and never twice with one.
HandledInOrder ==
    \A s \in Subscriptions :
        LET all == handled[s] \o Waiting(s)
        IN  \A i, j \in 1 .. Len(all) : i < j => all[i] < all[j]

\* A message in a queue reaches a callback, whatever the callbacks before it
\* raised, and whether or not the call of subscribe that made the queue failed.
MessagesHandled ==
    \A s \in Subscriptions : \A m \in 1 .. MaxMessages :
        m \in Elements(queue[s]) ~> m \in Elements(handled[s])

==============================================================================
