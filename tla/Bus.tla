-------------------------------- MODULE Bus --------------------------------
(***************************************************************************)
(* The Global Workspace's bus: broadcasts that are logged and then         *)
(* published, the listener that hands them to the registered agents and    *)
(* re-broadcasts what they emit, and the sockets that show the recent past *)
(* and then tail the channel (brain/workspace.py, brain/agents/base.py,    *)
(* johnny/api/ws.py, repl/cockpit.py).                                     *)
(*                                                                         *)
(* Two tasks broadcast: the Mind's loop and the bus listener itself.       *)
(* The agents of this commit subscribe to nothing (the registry takes any  *)
(* that do), so the agents here are those the registry is made for.  Rows  *)
(* are numbered in the order of their timestamps.                          *)
(***************************************************************************)
EXTENDS Integers, Sequences, SequencesExt

CONSTANTS
    Agents,        \* what may be registered
    Types,         \* event types
    SubscribesTo,  \* [Agents -> SUBSET (Types \cup {"*"})]
    Emissions,     \* what a handler may return: sequences of types
    MaxHops,       \* DEFAULT_MAX_HOPS
    Clients,       \* sockets and cockpits
    Wanted,        \* [Clients -> SUBSET Types]: the types of its stream
    Limit,         \* [Clients -> Nat]: how many events its backfill holds
    MaxBroadcasts  \* bound: what the Mind broadcasts

ASSUME BusAssumption ==
    /\ SubscribesTo \in [Agents -> SUBSET (Types \cup {"*"})]
    /\ Emissions \subseteq Seq(Types)
    /\ MaxHops \in Nat /\ MaxBroadcasts \in Nat
    /\ Wanted \in [Clients -> SUBSET Types]
    /\ Limit \in [Clients -> Nat]

Publishers == {"mind", "bus"}

VARIABLES
    log,        \* workspace_event: its rows in order, an id is an index
    flight,     \* per publisher: the row it logged and has not published, or 0
    listener,   \* the listener task: "off", "on" or "dead"
    inbox,      \* the listener's subscription, oldest first
    event,      \* the row being dispatched, or 0
    todo,       \* the handlers dispatch() has still to invoke
    emitted,    \* what the last of them returned, still to be broadcast
    due,        \* history: the handlers the event was for when it came
    asked,      \* history: those of them that have been invoked, in order
    outage,     \* history: Redis or Postgres failed the listener
    registry,   \* the registered agents, in order
    client,     \* per client: "away", "primed" (backfill sent) or "live"
    shown,      \* per client: the rows of its backfill, as sent
    feed,       \* per client: its subscription
    seen        \* per client: the rows it was sent live

dispatching == <<due, asked>>
listening == <<listener, inbox, event, todo, emitted, due, asked, outage>>
watching == <<client, shown, feed, seen>>
vars == <<log, flight, listening, registry, watching>>

\* "depth" is history: how many re-broadcasts led to the row.
Rows == [type : Types, by : Publishers, hops : Nat, depth : Nat]

TypeOK ==
    /\ log \in Seq(Rows)
    /\ flight \in [Publishers -> 0..Len(log)]
    /\ listener \in {"off", "on", "dead"}
    /\ inbox \in Seq(1..Len(log))
    /\ event \in 0..Len(log)
    /\ todo \in Seq(Agents) /\ registry \in Seq(Agents)
    /\ due \in Seq(Agents) /\ asked \in Seq(Agents) /\ outage \in BOOLEAN
    /\ emitted \in Seq(Types)
    /\ client \in [Clients -> {"away", "primed", "live"}]
    /\ shown \in [Clients -> Seq(1..Len(log))]
    /\ feed \in [Clients -> Seq(1..Len(log))]
    /\ seen \in [Clients -> Seq(1..Len(log))]

\* The elements of s that are in S, in their order.  (A recursive function and
\* not SelectSeq, whose definition the proofs cannot open.)
Among(s, S) ==
    LET upTo[n \in 0..Len(s)] ==
            IF n = 0 THEN <<>>
            ELSE IF s[n] \in S THEN Append(upTo[n - 1], s[n]) ELSE upTo[n - 1]
    IN  upTo[Len(s)]

----------------------------------------------------------------------------
(* Publishing.                                                             *)

Persist(p, t, h, d) ==
    /\ flight[p] = 0
    /\ log' = Append(log, [type |-> t, by |-> p, hops |-> h, depth |-> d])
    /\ flight' = [flight EXCEPT ![p] = Len(log) + 1]

\* Every subscription gets the message, whoever wants it.
Publish(p) ==
    /\ flight[p] # 0
    /\ flight' = [flight EXCEPT ![p] = 0]
    /\ inbox' = IF listener = "on" THEN Append(inbox, flight[p]) ELSE inbox
    /\ feed' = [c \in Clients |-> IF client[c] = "live" THEN Append(feed[c], flight[p])
                                  ELSE feed[c]]
    /\ UNCHANGED <<log, listener, event, todo, emitted, dispatching, outage, registry>>
    /\ UNCHANGED <<client, shown, seen>>

\* A stage of the tick broadcasts.  An insert that fails changes nothing.
MindBroadcasts(t) ==
    /\ Len(SelectSeq(log, LAMBDA r : r.by = "mind")) < MaxBroadcasts
    /\ Persist("mind", t, 0, 0)
    /\ UNCHANGED <<listening, registry, watching>>

\* The stage ends with an error: the row stays, nobody hears of it.
MindPublishFails ==
    /\ flight["mind"] # 0
    /\ flight' = [flight EXCEPT !["mind"] = 0]
    /\ UNCHANGED <<log, listening, registry, watching>>

----------------------------------------------------------------------------
(* The registry.                                                           *)

Register(a) ==
    /\ a \notin Range(registry)
    /\ registry' = Append(registry, a)
    /\ UNCHANGED <<log, flight, listening, watching>>

Unregister(a) ==
    /\ a \in Range(registry)
    /\ registry' = Among(registry, Agents \ {a})
    /\ UNCHANGED <<log, flight, listening, watching>>

\* Handlers of the type first, then those of everything.
HandlersFor(t) ==
    Among(registry, {a \in Agents : t \in SubscribesTo[a]})
        \o Among(registry, {a \in Agents : "*" \in SubscribesTo[a]})

----------------------------------------------------------------------------
(* The listener.                                                           *)

ListenerSubscribes ==
    /\ listener = "off" /\ listener' = "on"
    /\ UNCHANGED <<log, flight, inbox, event, todo, emitted, dispatching, outage>>
    /\ UNCHANGED <<registry, watching>>

GetMessage ==
    /\ listener = "on" /\ event = 0 /\ inbox # <<>>
    /\ event' = Head(inbox) /\ inbox' = Tail(inbox)
    /\ due' = HandlersFor(log[Head(inbox)].type)
    /\ todo' = due' /\ asked' = <<>>
    /\ UNCHANGED <<log, flight, listener, emitted, outage, registry, watching>>

\* No emission of an earlier handler waits to be broadcast.
HandlersTurn == event # 0 /\ emitted = <<>> /\ flight["bus"] = 0

\* The next handler is invoked.
Invoke ==
    /\ HandlersTurn /\ todo # <<>>
    /\ asked' = Append(asked, Head(todo))
    /\ UNCHANGED <<log, flight, listener, inbox, event, due, outage, registry, watching>>

Handle_CapForgotten(out) ==
    /\ Invoke
    /\ todo' = Tail(todo) /\ emitted' = out

Handle(out) ==
    /\ Invoke
    /\ todo' = Tail(todo)
    /\ emitted' = IF log[event].hops >= MaxHops THEN <<>> ELSE out

\* The try is around the loop and not inside it.
HandlerRaises_RestSkipped ==
    /\ Invoke
    /\ todo' = <<>>
    /\ UNCHANGED emitted

\* A handler that raises is logged and skipped.
HandlerRaises ==
    /\ Invoke
    /\ todo' = Tail(todo)
    /\ UNCHANGED emitted

BroadcastEmission ==
    /\ emitted # <<>>
    /\ Persist("bus", Head(emitted), log[event].hops + 1, log[event].depth + 1)
    /\ emitted' = Tail(emitted)
    /\ UNCHANGED <<listener, inbox, event, todo, dispatching, outage, registry, watching>>

DispatchEnds ==
    /\ HandlersTurn /\ todo = <<>>
    /\ event' = 0 /\ due' = <<>> /\ asked' = <<>>
    /\ UNCHANGED <<log, flight, listener, inbox, todo, emitted, outage, registry, watching>>

\* Neither the poll nor the re-broadcast is inside the try that isolates the
\* handlers: Redis or Postgres failing there ends the task, and nothing
\* starts it again.
ListenerDies ==
    /\ listener = "on"
    /\ event = 0 \/ emitted # <<>> \/ flight["bus"] # 0
    /\ listener' = "dead" /\ outage' = TRUE
    /\ inbox' = <<>> /\ event' = 0 /\ todo' = <<>> /\ emitted' = <<>>
    /\ due' = <<>> /\ asked' = <<>>
    /\ flight' = [flight EXCEPT !["bus"] = 0]
    /\ UNCHANGED <<log, registry, watching>>

----------------------------------------------------------------------------
(* The sockets.                                                            *)

\* recent_events: the newest rows of the types, newest first.
Recent(types, n) ==
    LET ids == {i \in 1..Len(log) : log[i].type \in types}
        newest == Among(Reverse([i \in 1..Len(log) |-> i]), ids)
    IN  SubSeq(newest, 1, IF Len(newest) < n THEN Len(newest) ELSE n)

Connect_NewestFirst(c) ==
    /\ client[c] = "away"
    /\ client' = [client EXCEPT ![c] = "primed"]
    /\ shown' = [shown EXCEPT ![c] = Recent(Wanted[c], Limit[c])]
    /\ UNCHANGED <<log, flight, listening, registry, feed, seen>>

\* A client connects and is sent the backfill, oldest first.
Connect(c) ==
    /\ client[c] = "away"
    /\ client' = [client EXCEPT ![c] = "primed"]
    /\ shown' = [shown EXCEPT ![c] = Reverse(Recent(Wanted[c], Limit[c]))]
    /\ UNCHANGED <<log, flight, listening, registry, feed, seen>>

\* stream() subscribes when its first event is asked for.
Subscribe(c) ==
    /\ client[c] = "primed"
    /\ client' = [client EXCEPT ![c] = "live"]
    /\ UNCHANGED <<log, flight, listening, registry, shown, feed, seen>>

Receive(c) ==
    /\ feed[c] # <<>>
    /\ feed' = [feed EXCEPT ![c] = Tail(@)]
    /\ seen' = [seen EXCEPT ![c] = IF log[Head(feed[c])].type \in Wanted[c]
                                   THEN Append(@, Head(feed[c])) ELSE @]
    /\ UNCHANGED <<log, flight, listening, registry, client, shown>>

Away == [c \in Clients |-> <<>>]

Disconnect(c) ==
    /\ client[c] # "away"
    /\ client' = [client EXCEPT ![c] = "away"]
    /\ shown' = [shown EXCEPT ![c] = <<>>]
    /\ feed' = [feed EXCEPT ![c] = <<>>]
    /\ seen' = [seen EXCEPT ![c] = <<>>]
    /\ UNCHANGED <<log, flight, listening, registry>>

----------------------------------------------------------------------------
\* The process dies and comes back: the table is what is left.
Restart ==
    /\ listener' = "off" /\ inbox' = <<>> /\ event' = 0
    /\ todo' = <<>> /\ emitted' = <<>> /\ registry' = <<>>
    /\ due' = <<>> /\ asked' = <<>> /\ outage' = FALSE
    /\ flight' = [p \in Publishers |-> 0]
    /\ client' = [c \in Clients |-> "away"]
    /\ shown' = Away /\ feed' = Away /\ seen' = Away
    /\ UNCHANGED log

Init ==
    /\ log = <<>> /\ flight = [p \in Publishers |-> 0]
    /\ listener = "off" /\ inbox = <<>> /\ event = 0
    /\ todo = <<>> /\ emitted = <<>> /\ registry = <<>>
    /\ due = <<>> /\ asked = <<>> /\ outage = FALSE
    /\ client = [c \in Clients |-> "away"]
    /\ shown = Away /\ feed = Away /\ seen = Away

ListenerStep ==
    \/ GetMessage
    \/ \E out \in Emissions : Handle(out)
    \/ HandlerRaises
    \/ BroadcastEmission
    \/ Publish("bus")
    \/ DispatchEnds

Next ==
    \/ \E t \in Types : MindBroadcasts(t)
    \/ Publish("mind")
    \/ MindPublishFails
    \/ \E a \in Agents : Register(a) \/ Unregister(a)
    \/ ListenerSubscribes
    \/ ListenerStep
    \/ ListenerDies
    \/ \E c \in Clients : Connect(c) \/ Subscribe(c) \/ Receive(c) \/ Disconnect(c)
    \/ Restart

Spec == Init /\ [][Next]_vars

\* A ready task runs: the listener, which need not fail, and each socket's.
Fairness == WF_vars(ListenerStep) /\ \A c \in Clients : WF_vars(Receive(c))

FairSpec == Spec /\ Fairness

----------------------------------------------------------------------------
(* Properties.                                                             *)

(* However handlers answer each other's events, no event is more than      *)
(* MaxHops re-broadcasts away from what the Mind said (dispatch's hop      *)
(* count, carried in the message and not in the row).                      *)
ChainsAreShort == \A i \in 1..Len(log) : log[i].depth <= MaxHops

\* Of each publisher, the rows of s come in the order it broadcast them.
SameVoice(i, j) == log[i].by = log[j].by
InOrder(s) == \A i, j \in DOMAIN s : i < j /\ SameVoice(s[i], s[j]) => s[i] < s[j]

(* A client is never taken back in time: the backfill and the live events  *)
(* of one publisher come in the order they were broadcast, and none twice  *)
(* but the last of the backfill, which was logged before the read and      *)
(* published after the subscription (consciousness, state, stream).        *)
NeverBackwards ==
    /\ TypeOK
    /\ \A c \in Clients :
           LET live == seen[c] \o feed[c]
           IN  /\ InOrder(shown[c]) /\ InOrder(live)
               /\ \A i \in DOMAIN shown[c], j \in DOMAIN live :
                      SameVoice(shown[c][i], live[j]) => shown[c][i] <= live[j]

\* Bound: the rows that are followed.
Ids == 1..2 * MaxBroadcasts

Pending(i) == event = i \/ i \in Range(inbox)

\* Every handler the event was for has been invoked, once and in its order.
Answered(i) == event = i /\ todo = <<>> /\ asked = due

(* An event that reached the listener reaches every handler it is for,     *)
(* whatever those before it raise or emit, and whatever is dispatched      *)
(* before it: only Redis or Postgres failing the listener, or the end of   *)
(* the process, come in between ("one broken reflex must not stop the      *)
(* bus", dispatch).                                                        *)
BrokenReflexStopsNothing ==
    \A i \in Ids :
        Pending(i) ~> \/ Answered(i)
                      \/ listener = "dead" /\ outage
                      \/ listener = "off"

=============================================================================
