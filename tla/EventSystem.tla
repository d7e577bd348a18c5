---------------------------- MODULE EventSystem ----------------------------
(***************************************************************************)
(* The block filters of the JSON-RPC server (rpc/namespaces/ethereum/eth/  *)
(* filters) on their topic of the event bus (rpc/ethereum/pubsub).         *)
(*                                                                         *)
(* An event of the node goes from Tendermint's websocket through the topic *)
(* channel to the publisher of that channel, from the publisher to the     *)
(* channel of every registered filter, and from there, by the filter's own *)
(* goroutine, into the list that eth_getFilterChanges hands out.  The      *)
(* goroutines are: the RPC calls, timeoutLoop, eventLoop, consumeEvents,   *)
(* one consumer per filter, one publisher per topic channel.  An action is *)
(* what one of them does between two points at which another can be seen:  *)
(* a critical section, or a rendezvous on an unbuffered channel.           *)
(*                                                                         *)
(* A topic channel is named after the filter whose installation made it.   *)
(* rpc.NewID gives every filter a name of its own, so a filter is created  *)
(* at most once.                                                           *)
(***************************************************************************)
EXTENDS Naturals, Sequences

CONSTANTS
    Filters,          \* bound: the filters that are ever asked for
    None,             \* no filter, no channel, no event
    MaxEvents         \* bound: the events of the node

ASSUME EventSystemAssumption ==
    /\ None \notin Filters /\ None \notin Nat
    /\ MaxEvents \in Nat

VARIABLES
    \* PublicFilterAPI
    filters,          \* the keys of api.filters
    creator,          \* the call that holds filtersMu across a creation
    deadline,         \* filter.deadline, see Deadlines
    hashes,           \* filter.hashes
    polled,           \* the events eth_getFilterChanges has handed out
    stage,            \* where the goroutine of the filter is, see Places
    inbox,            \* the event its consumer has received and not stored
    \* EventSystem
    index,            \* es.index
    topicChan,        \* es.topicChans[topic]
    leaving,          \* the goroutines of Unsubscribe, at es.uninstall <- s
    errClosed,        \* the subscriptions whose err channel is closed
    tmSubscribed,     \* Tendermint sends the events of the query
    responses,        \* tmWSClient.ResponsesCh
    sending,          \* what consumeEvents is about to write, and where to
    \* memEventBus
    topics,           \* m.topics[topic]
    subscribers,      \* the keys of m.subscribers[topic]
    eventCh,          \* the channels Subscribe has made: "none", "open", ...
    \* the topic channels, and what publishTopic does with each
    chan, publisher, message,
    \* the process
    emitted,          \* the events so far
    panic             \* what a goroutine has panicked of, or "none"

api == <<filters, creator, deadline, hashes, polled, stage, inbox>>
es == <<index, topicChan, leaving, errClosed, tmSubscribed>>
consume == <<responses, sending, emitted>>
bus == <<topics, subscribers, eventCh>>
topic == <<chan, publisher, message>>
eventVars == <<api, es, consume, bus, topic, panic>>

Events == 1 .. MaxEvents
Channels == {"unmade", "open", "closed"}
Deadlines == {"unmade", "running", "fired", "drained"}
Places == {"idle", "asking", "installing", "found", "registering", "live",
           "done"}
Publishers == {"none", "receiving", "publishing", "deleting", "ended"}

Idle == [event |-> None, to |-> None]

EventInit ==
    /\ filters = {} /\ creator = None
    /\ deadline = [f \in Filters |-> "unmade"]
    /\ hashes = [f \in Filters |-> <<>>]
    /\ polled = [f \in Filters |-> {}]
    /\ stage = [f \in Filters |-> "idle"]
    /\ inbox = [f \in Filters |-> None]
    /\ index = {} /\ topicChan = None /\ leaving = {} /\ errClosed = {}
    /\ tmSubscribed = FALSE
    /\ responses = <<>> /\ sending = Idle /\ emitted = 0
    /\ topics = None /\ subscribers = {}
    /\ eventCh = [f \in Filters |-> "unmade"]
    /\ chan = [c \in Filters |-> "unmade"]
    /\ publisher = [c \in Filters |-> "none"]
    /\ message = [c \in Filters |-> None]
    /\ panic = "none"

Unlocked == creator = None

-----------------------------------------------------------------------------
(* NewBlockFilter, which holds filtersMu throughout.                       *)

\* A call that ends without a filter.
CreationFails(f) ==
    /\ creator' = None
    /\ stage' = [stage EXCEPT ![f] = "done"]

\* RPCFilterCap counts the filters of every topic, so it may refuse this one
\* at any time; then subscribe looks at the topics of the bus.
NewBlockFilter(f) ==
    /\ stage[f] = "idle" /\ Unlocked
    /\ \/ CreationFails(f)
       \/ /\ creator' = f
          /\ stage' = [stage EXCEPT ![f] = IF topics = None THEN "asking"
                                                         ELSE "found"]
    /\ UNCHANGED <<filters, deadline, hashes, polled, inbox, es, consume, bus,
                   topic, panic>>

\* The query goes to Tendermint, or the websocket is down.
SubscribeTendermint(f) ==
    /\ stage[f] = "asking"
    /\ \/ /\ tmSubscribed' = TRUE
          /\ stage' = [stage EXCEPT ![f] = "installing"]
          /\ UNCHANGED creator
       \/ /\ CreationFails(f)
          /\ UNCHANGED tmSubscribed
    /\ UNCHANGED <<filters, deadline, hashes, polled, inbox, index, topicChan,
                   leaving, errClosed, consume, bus, topic, panic>>

\* Variant: the mutex stays locked when the topic is gone.
FindTopicLocked(f) ==
    /\ stage[f] = "found"
    /\ stage' = [stage EXCEPT ![f] = IF topics = None THEN "done"
                                     ELSE "registering"]
    /\ UNCHANGED <<filters, creator, deadline, hashes, polled, inbox, es,
                   consume, bus, topic, panic>>

\* memEventBus.Subscribe finds the topic under topicsMux ...
FindTopic(f) ==
    /\ stage[f] = "found"
    /\ IF topics = None
       THEN CreationFails(f)
       ELSE stage' = [stage EXCEPT ![f] = "registering"] /\ UNCHANGED creator
    /\ UNCHANGED <<filters, deadline, hashes, polled, inbox, es, consume, bus,
                   topic, panic>>

\* ... and adds the channel under subscribersMux; the filter is stored, its
\* consumer started, and filtersMu released.
Register(f) ==
    /\ stage[f] = "registering"
    /\ subscribers' = subscribers \union {f}
    /\ eventCh' = [eventCh EXCEPT ![f] = "open"]
    /\ filters' = filters \union {f}
    /\ deadline' = [deadline EXCEPT ![f] = "running"]
    /\ stage' = [stage EXCEPT ![f] = "live"]
    /\ creator' = None
    /\ UNCHANGED <<hashes, polled, inbox, es, consume, topics, topic, panic>>

Creation(f) ==
    SubscribeTendermint(f) \/ FindTopic(f) \/ Register(f)

-----------------------------------------------------------------------------
(* The other calls, and the deadline.                                      *)

\* Variant: the filter stays in the map.
UninstallFilterStored(f) ==
    /\ f \in filters /\ Unlocked
    /\ leaving' = leaving \union {f}
    /\ UNCHANGED <<api, index, topicChan, errClosed, tmSubscribed, consume, bus,
                   topic, panic>>

UninstallFilter(f) ==
    /\ f \in filters /\ Unlocked
    /\ filters' = filters \ {f}
    /\ leaving' = leaving \union {f}
    /\ UNCHANGED <<creator, deadline, hashes, polled, stage, inbox, index,
                   topicChan, errClosed, tmSubscribed, consume, bus, topic,
                   panic>>

\* Variant: the list is not emptied.
GetFilterChangesAgain(f) ==
    /\ f \in filters /\ Unlocked
    /\ deadline[f] \in {"running", "fired"}
    /\ deadline' = [deadline EXCEPT ![f] = "running"]
    /\ polled' = [polled EXCEPT ![f] = @ \union {hashes[f][i] :
                                             i \in DOMAIN hashes[f]}]
    /\ UNCHANGED <<filters, creator, hashes, stage, inbox, es, consume, bus,
                   topic, panic>>

\* Stop does not stop a timer that has fired: its value is received, and the
\* call waits for it if it is not there.
GetFilterChanges(f) ==
    /\ f \in filters /\ Unlocked
    /\ deadline[f] \in {"running", "fired"}
    /\ deadline' = [deadline EXCEPT ![f] = "running"]
    /\ hashes' = [hashes EXCEPT ![f] = <<>>]
    /\ polled' = [polled EXCEPT ![f] = @ \union {hashes[f][i] :
                                             i \in DOMAIN hashes[f]}]
    /\ UNCHANGED <<filters, creator, stage, inbox, es, consume, bus, topic,
                   panic>>

DeadlineFires(f) ==
    /\ f \in filters /\ deadline[f] = "running"
    /\ deadline' = [deadline EXCEPT ![f] = "fired"]
    /\ UNCHANGED <<filters, creator, hashes, polled, stage, inbox, es, consume,
                   bus, topic, panic>>

\* The filters whose deadline has fired.
Expired == {f \in filters : deadline[f] = "fired"}

\* Variant: the filters stay in the map.
TimeoutLoopStored ==
    /\ Unlocked /\ Expired # {}
    /\ deadline' = [f \in Filters |-> IF f \in Expired THEN "drained"
                                                       ELSE deadline[f]]
    /\ leaving' = leaving \union Expired
    /\ UNCHANGED <<filters, creator, hashes, polled, stage, inbox, index,
                   topicChan, errClosed, tmSubscribed, consume, bus, topic,
                   panic>>

\* Variant: the filters are deleted, not unsubscribed.
TimeoutLoopForgotten ==
    /\ Unlocked /\ Expired # {}
    /\ filters' = filters \ Expired
    /\ UNCHANGED <<creator, deadline, hashes, polled, stage, inbox, es,
                   consume, bus, topic, panic>>

TimeoutLoop ==
    /\ Unlocked /\ Expired # {}
    /\ filters' = filters \ Expired
    /\ deadline' = [f \in Filters |-> IF f \in Expired THEN "drained"
                                                       ELSE deadline[f]]
    /\ leaving' = leaving \union Expired
    /\ UNCHANGED <<creator, hashes, polled, stage, inbox, index, topicChan,
                   errClosed, tmSubscribed, consume, bus, topic, panic>>

-----------------------------------------------------------------------------
(* The consumer of a filter.                                               *)

StoreEvent(f) ==
    /\ inbox[f] # None /\ Unlocked
    /\ hashes' = IF f \in filters
                 THEN [hashes EXCEPT ![f] = Append(@, inbox[f])]
                 ELSE hashes
    /\ inbox' = [inbox EXCEPT ![f] = None]
    /\ UNCHANGED <<filters, creator, deadline, polled, stage, es, consume, bus,
                   topic, panic>>

\* Variant: the registration on the bus is not cancelled.
EndsRegistered(f) ==
    /\ stage[f] = "live" /\ inbox[f] = None /\ Unlocked
    /\ filters' = filters \ {f}
    /\ stage' = [stage EXCEPT ![f] = "done"]
    /\ UNCHANGED <<creator, deadline, hashes, polled, inbox, es, consume, bus,
                   topic, panic>>

\* Its channel is closed, or its err channel: it deletes the filter and
\* returns, which cancels the registration on the bus.
Ends(f) ==
    /\ stage[f] = "live" /\ inbox[f] = None /\ Unlocked
    /\ filters' = filters \ {f}
    /\ stage' = [stage EXCEPT ![f] = "done"]
    /\ subscribers' = subscribers \ {f}
    /\ UNCHANGED <<creator, deadline, hashes, polled, inbox, es, consume,
                   topics, eventCh, topic, panic>>

ChannelClosed(f) == eventCh[f] = "closed" /\ Ends(f)

\* Variant: the loop goes on, as it does in NewPendingTransactionFilter.
ErrClosedGoesOn(f) ==
    /\ f \in errClosed
    /\ stage[f] = "live" /\ inbox[f] = None /\ Unlocked
    /\ filters' = filters \ {f}
    /\ UNCHANGED <<creator, deadline, hashes, polled, stage, inbox, es,
                   consume, bus, topic, panic>>

ErrClosed(f) == f \in errClosed /\ Ends(f)

Consumer(f) == StoreEvent(f) \/ ChannelClosed(f) \/ ErrClosed(f)

-----------------------------------------------------------------------------
(* eventLoop, which handles a request under indexMux.                      *)

\* AddTopic: a topic that is there keeps its channel.
AddTopic(f) ==
    IF topics = None
    THEN /\ topics' = f /\ topicChan' = f
         /\ chan' = [chan EXCEPT ![f] = "open"]
         /\ publisher' = [publisher EXCEPT ![f] = "receiving"]
    ELSE UNCHANGED <<topics, topicChan, chan, publisher>>

Install(f) ==
    /\ stage[f] = "installing"
    /\ stage' = [stage EXCEPT ![f] = "found"]
    /\ index' = index \union {f}
    /\ AddTopic(f)
    /\ UNCHANGED <<filters, creator, deadline, hashes, polled, inbox, leaving,
                   errClosed, tmSubscribed, consume, subscribers, eventCh,
                   message, panic>>

\* Variant: the entry of topicChans stays.
RemoveUnusedTopicKept(users) ==
    /\ IF users # {} \/ topicChan = None
       THEN UNCHANGED <<tmSubscribed, topics, chan>>
       ELSE /\ tmSubscribed' = FALSE
            /\ topics' = None
            /\ chan' = [chan EXCEPT ![topicChan] = "closed"]
    /\ UNCHANGED topicChan

\* The topic goes when nobody in the index uses it.
RemoveUnusedTopic(users) ==
    IF users # {}
    THEN UNCHANGED <<tmSubscribed, topics, topicChan, chan>>
    ELSE /\ tmSubscribed' = FALSE
         /\ topicChan' = None
         /\ IF topicChan = None
            THEN UNCHANGED <<topics, chan>>
            ELSE /\ topics' = None
                 /\ chan' = [chan EXCEPT ![topicChan] = "closed"]

\* Closing what is closed panics.
ClosesTwice(f) ==
    \/ f \in errClosed
    \/ /\ index \ {f} = {} /\ topicChan # None
       /\ chan[topicChan] = "closed"

Uninstall(f) ==
    /\ f \in leaving
    /\ leaving' = leaving \ {f}
    /\ index' = index \ {f}
    /\ RemoveUnusedTopic(index \ {f})
    /\ errClosed' = errClosed \union {f}
    /\ panic' = IF ClosesTwice(f) THEN "close of closed channel" ELSE panic
    /\ UNCHANGED <<api, consume, subscribers, eventCh, publisher, message>>

EventLoop(f) == Install(f) \/ Uninstall(f)

-----------------------------------------------------------------------------
(* The node, and consumeEvents.                                            *)

Emit ==
    /\ tmSubscribed /\ emitted < MaxEvents
    /\ emitted' = emitted + 1
    /\ responses' = Append(responses, emitted + 1)
    /\ UNCHANGED <<api, es, sending, bus, topic, panic>>

\* The channel is read under indexMux, and written to without it.
LookUp ==
    /\ sending = Idle /\ responses # <<>>
    /\ responses' = Tail(responses)
    /\ sending' = IF topicChan = None
                  THEN Idle
                  ELSE [event |-> Head(responses), to |-> topicChan]
    /\ UNCHANGED <<api, es, emitted, bus, topic, panic>>

\* The publisher receives the event ...
Send ==
    /\ sending # Idle
    /\ chan[sending.to] = "open" /\ publisher[sending.to] = "receiving"
    /\ publisher' = [publisher EXCEPT ![sending.to] = "publishing"]
    /\ message' = [message EXCEPT ![sending.to] = sending.event]
    /\ sending' = Idle
    /\ UNCHANGED <<api, es, responses, emitted, bus, chan, panic>>

\* ... or does not within a second ...
Drop ==
    /\ sending # Idle
    /\ sending' = Idle
    /\ UNCHANGED <<api, es, responses, emitted, bus, topic, panic>>

\* ... or the channel has been closed, and writing to it panics.
SendOnClosed ==
    /\ sending # Idle
    /\ chan[sending.to] = "closed"
    /\ panic' = "send on closed channel"
    /\ UNCHANGED <<api, es, consume, bus, topic>>

ConsumeEvents == LookUp \/ Send \/ Drop \/ SendOnClosed

-----------------------------------------------------------------------------
(* publishTopic, for the topic channel c.                                  *)

\* A send that does not wait reaches the consumers that wait for it.
Publish(c) ==
    /\ publisher[c] = "publishing"
    /\ \E heard \in SUBSET {f \in subscribers : /\ stage[f] = "live"
                                                /\ inbox[f] = None} :
          inbox' = [f \in Filters |-> IF f \in heard THEN message[c]
                                                     ELSE inbox[f]]
    /\ panic' = IF \E f \in subscribers : eventCh[f] = "closed"
                THEN "send on closed channel" ELSE panic
    /\ publisher' = [publisher EXCEPT ![c] = "receiving"]
    /\ message' = [message EXCEPT ![c] = None]
    /\ UNCHANGED <<filters, creator, deadline, hashes, polled, stage, es,
                   consume, bus, chan>>

\* The registered channels, whoever published to them, are closed and
\* forgotten ...
CloseAllSubscribers(c) ==
    /\ publisher[c] = "receiving" /\ chan[c] = "closed"
    /\ eventCh' = [f \in Filters |-> IF f \in subscribers THEN "closed"
                                                          ELSE eventCh[f]]
    /\ panic' = IF \E f \in subscribers : eventCh[f] = "closed"
                THEN "close of closed channel" ELSE panic
    /\ subscribers' = {}
    /\ publisher' = [publisher EXCEPT ![c] = "deleting"]
    /\ UNCHANGED <<api, es, consume, topics, chan, message>>

\* ... and then the topic, whatever channel it has by now.
DeleteTopic(c) ==
    /\ publisher[c] = "deleting"
    /\ topics' = None
    /\ publisher' = [publisher EXCEPT ![c] = "ended"]
    /\ UNCHANGED <<api, es, consume, subscribers, eventCh, chan, message,
                   panic>>

PublishTopic(c) == Publish(c) \/ CloseAllSubscribers(c) \/ DeleteTopic(c)

-----------------------------------------------------------------------------
\* A panic in a goroutine ends the process.
Running == panic = "none"

EventNext ==
    /\ Running
    /\ \/ \E f \in Filters :
            \/ NewBlockFilter(f) \/ Creation(f)
            \/ UninstallFilter(f) \/ GetFilterChanges(f) \/ DeadlineFires(f)
            \/ Consumer(f) \/ EventLoop(f) \/ PublishTopic(f)
       \/ TimeoutLoop
       \/ Emit
       \/ ConsumeEvents

EventSpec == EventInit /\ [][EventNext]_eventVars

\* Goroutines that can go on do; clients, deadlines and the node need not.
\* eventLoop's select, and the consumers', choose among what is ready at
\* random, so that neither request is put off for ever.
EventFairness ==
    /\ \A f \in Filters :
          /\ WF_eventVars(Running /\ Creation(f))
          /\ WF_eventVars(Running /\ StoreEvent(f))
          /\ WF_eventVars(Running /\ ChannelClosed(f))
          /\ WF_eventVars(Running /\ ErrClosed(f))
          /\ WF_eventVars(Running /\ Install(f))
          /\ WF_eventVars(Running /\ Uninstall(f))
          /\ WF_eventVars(Running /\ PublishTopic(f))
    /\ WF_eventVars(Running /\ ConsumeEvents)

FairEventSpec == EventSpec /\ EventFairness

-----------------------------------------------------------------------------
(* Properties.                                                             *)

\* Every variable has its type.
EventTypeOK ==
    /\ filters \subseteq Filters
    /\ creator \in Filters \union {None}
    /\ deadline \in [Filters -> Deadlines]
    /\ hashes \in [Filters -> Seq(Events)]
    /\ polled \in [Filters -> SUBSET Events]
    /\ stage \in [Filters -> Places]
    /\ inbox \in [Filters -> Events \union {None}]
    /\ index \subseteq Filters
    /\ topicChan \in Filters \union {None}
    /\ leaving \subseteq Filters /\ errClosed \subseteq Filters
    /\ tmSubscribed \in BOOLEAN
    /\ responses \in Seq(Events)
    /\ sending \in [event : Events, to : Filters] \union {Idle}
    /\ emitted \in 0 .. MaxEvents
    /\ topics \in Filters \union {None}
    /\ subscribers \subseteq Filters
    /\ eventCh \in [Filters -> Channels]
    /\ chan \in [Filters -> Channels]
    /\ publisher \in [Filters -> Publishers]
    /\ message \in [Filters -> Events \union {None}]
    /\ panic \in {"none", "send on closed channel", "close of closed channel"}

\* However uninstalls, time-outs, late publishers and new installations
\* interleave, no channel is closed twice: neither a topic channel nor an err
\* channel by eventLoop, nor a filter's channel by two publishers of the
\* topic.
NeverClosedTwice == panic # "close of closed channel"

\* A channel the bus would send to or close is open and has a running
\* consumer: a publisher's send cannot panic, and a filter that is gone is
\* not kept on the bus.
RegisteredAreServed ==
    \A f \in subscribers : eventCh[f] = "open" /\ stage[f] = "live"

\* The channel consumeEvents would find is open, with a publisher that comes
\* back to receive from it.
TopicChanIsServed ==
    topicChan # None =>
        /\ chan[topicChan] = "open"
        /\ publisher[topicChan] \in {"receiving", "publishing"}

\* Whoever holds a channel of a topic finds it open with someone at the other
\* end, the bus towards the filters' consumers and eventLoop towards the
\* publisher.
TopicsServed == RegisteredAreServed /\ TopicChanIsServed

\* A client is handed an event at most once, however many publishers of the
\* topic there are and however polls and events interleave.
SeenOnce ==
    \A f \in Filters : \A i \in DOMAIN hashes[f] :
        /\ hashes[f][i] \notin polled[f]
        /\ \A j \in DOMAIN hashes[f] : hashes[f][i] = hashes[f][j] => i = j

\* GetFilterChanges, which holds filtersMu, never waits for a deadline that
\* timeoutLoop has received already: every call would wait behind it.
PollNeverWaits == \A f \in filters : deadline[f] \in {"running", "fired"}

\* A consumer whose filter is gone from the API has been told, or is about
\* to be told, to stop; and a stored filter has its consumer.
NoLostConsumer ==
    \A f \in Filters :
        /\ f \in filters => stage[f] = "live"
        /\ stage[f] = "live" => f \in filters \union leaving \union errClosed

\* filtersMu is always released: a creation in progress ends, although it
\* waits for eventLoop with the mutex held.
CreationEnds ==
    \A f \in Filters : (creator = f) ~> (creator # f \/ ~Running)

\* The consumer of an uninstalled or timed out filter ends, whether or not
\* the topic stays in use.
UninstallEnds ==
    \A f \in Filters : (f \in leaving) ~> (stage[f] = "done" \/ ~Running)

\* Every request of a client comes to its end: the creation of a filter, with
\* filtersMu held, and its removal, which eventLoop and the consumer finish.
RequestsEnd == CreationEnds /\ UninstallEnds

\* Refuted by TLC when the run's cfg names it:
\* filter_system.go: "remove topic only when channel is not used by other
\* subscriptions".  When a topic channel is closed, only filters that are
\* themselves being uninstalled are registered on the bus.
RemovedOnlyWhenUnused ==
    [][\A c \in Filters : chan[c] = "open" /\ chan'[c] = "closed" =>
          subscribers \subseteq leaving \union errClosed]_eventVars
=============================================================================
