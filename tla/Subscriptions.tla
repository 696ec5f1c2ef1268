---------------------------- MODULE Subscriptions ----------------------------
(***************************************************************************)
(* The live subscriptions of the inventory service: SubscribeInventory,    *)
(* UnsubscribeInventory and notifyInventorySubscribers (service.go) with   *)
(* the websocket loop streamInventoryToClient (transport_http.go).  The    *)
(* reservation side has the same shape.  A critical section of subsMu is   *)
(* one step; a send on a client's channel is not part of any.              *)
(***************************************************************************)
EXTENDS Naturals, Sequences

CONSTANTS
  Client,            \* websocket connections, each with its channel of capacity 1
  MaxUpdates,        \* bound: publications
  MaxWriteFailures   \* bound: websocket writes that fail

\* Publications, in their order, each with its notifying goroutine
Update == 1 .. MaxUpdates
None == 0

ASSUME SubscriptionsAssumption ==
  /\ MaxUpdates \in Nat /\ MaxWriteFailures \in Nat
  /\ None \notin Client \cup Update

VARIABLES
  subs,      \* inventorySubs: the registered clients
  stream,    \* streamInventoryToClient of each client
  ch,        \* the buffer of each client's channel
  closed,    \* closed channels
  held,      \* the update each stream has received and not yet written
  got,       \* how often each client was sent each update
  notifier,  \* the goroutine of each update
  todo,      \* the part of its snapshot it has still to serve
  target,    \* the client it is sending to; with none left the goroutine ends
  panicked,  \* the process died
  failures

streams   == <<stream, held, got>>
notifiers == <<notifier, todo, target>>
vars == <<subs, streams, ch, closed, notifiers, panicked, failures>>

Init ==
  /\ subs = {} /\ closed = {}
  /\ stream = [c \in Client |-> "new"]
  /\ ch = [c \in Client |-> <<>>]
  /\ held = [c \in Client |-> None]
  /\ got = [c \in Client |-> [u \in Update |-> 0]]
  /\ notifier = [u \in Update |-> "idle"]
  /\ todo = [u \in Update |-> {}]
  /\ target = [u \in Update |-> None]
  /\ panicked = FALSE
  /\ failures = 0

TypeOK ==
  /\ subs \subseteq Client /\ closed \subseteq Client
  /\ stream \in [Client -> {"new", "range", "write", "stuck", "leave", "gone"}]
  /\ ch \in [Client -> Seq(Update)] /\ \A c \in Client : Len(ch[c]) <= 1
  /\ got \in [Client -> [Update -> Nat]]
  /\ held \in [Client -> Update \cup {None}]
  /\ notifier \in [Update -> {"idle", "started", "sending"}]
  /\ todo \in [Update -> SUBSET Client]
  /\ target \in [Update -> Client \cup {None}]
  /\ panicked \in BOOLEAN
  /\ failures \in 0 .. MaxWriteFailures

Goto(c, l) == stream' = [stream EXCEPT ![c] = l]

-----------------------------------------------------------------------------
(* streamInventoryToClient *)

SubscribeInventory(c) ==
  /\ stream[c] = "new"
  /\ subs' = subs \cup {c}
  /\ Goto(c, "range")
  /\ UNCHANGED <<held, got, ch, closed, notifiers, panicked, failures>>

\* range ch
Receive(c) ==
  /\ stream[c] = "range" /\ ch[c] # <<>>
  /\ held' = [held EXCEPT ![c] = Head(ch[c])]
  /\ ch' = [ch EXCEPT ![c] = Tail(@)]
  /\ Goto(c, "write")
  /\ UNCHANGED <<subs, got, closed, notifiers, panicked, failures>>

WriteText(c) ==
  /\ stream[c] = "write"
  /\ got' = [got EXCEPT ![c][held[c]] = @ + 1]
  /\ held' = [held EXCEPT ![c] = None]
  /\ Goto(c, "range")
  /\ UNCHANGED <<subs, ch, closed, notifiers, panicked, failures>>

\* The write fails: the loop returns into its deferred Unsubscribe.
WriteFails(c) ==
  /\ stream[c] = "write"
  /\ failures < MaxWriteFailures /\ failures' = failures + 1
  /\ held' = [held EXCEPT ![c] = None]
  /\ Goto(c, "leave")
  /\ UNCHANGED <<subs, got, ch, closed, notifiers, panicked>>

\* The peer stays connected and stops reading: no deadline is set, the write
\* never ends.
WriteHangs(c) ==
  /\ stream[c] = "write"
  /\ Goto(c, "stuck")
  /\ UNCHANGED <<subs, held, got, ch, closed, notifiers, panicked, failures>>

\* Mutant: the client is taken off the list and its channel stays open.
UnsubscribeKeepsOpen(c) ==
  /\ stream[c] = "leave"
  /\ subs' = subs \ {c}
  /\ Goto(c, "gone")
  /\ UNCHANGED <<held, got, ch, closed, notifiers, panicked, failures>>

\* close(ch) and delete under subsMu.
UnsubscribeInventory(c) ==
  /\ stream[c] = "leave"
  /\ closed' = closed \cup {c}
  /\ subs' = subs \ {c}
  /\ Goto(c, "gone")
  /\ UNCHANGED <<held, got, ch, notifiers, panicked, failures>>

-----------------------------------------------------------------------------
(* publishInventory and notifyInventorySubscribers *)

\* go s.notifyInventorySubscribers(pi)
Publish(u) ==
  /\ notifier[u] = "idle" /\ \A v \in 1 .. u - 1 : notifier[v] # "idle"
  /\ notifier' = [notifier EXCEPT ![u] = "started"]
  /\ UNCHANGED <<subs, streams, ch, closed, todo, target, panicked, failures>>

\* The copy of inventorySubs made under subsMu.
Snapshot(u) ==
  /\ notifier[u] = "started"
  /\ todo' = [todo EXCEPT ![u] = subs]
  /\ notifier' = [notifier EXCEPT ![u] = "sending"]
  /\ UNCHANGED <<subs, streams, ch, closed, target, panicked, failures>>

\* range subs: map order is any order.
Pick(u, c) ==
  /\ notifier[u] = "sending" /\ target[u] = None
  /\ c \in todo[u]
  /\ target' = [target EXCEPT ![u] = c]
  /\ UNCHANGED <<subs, streams, ch, closed, notifier, todo, panicked, failures>>

\* Mutant: the copy is not advanced past the client that was served.
SentAgain(u, c) ==
  /\ todo' \in {todo, [todo EXCEPT ![u] = @ \ {c}]}
  /\ target' = [target EXCEPT ![u] = None]

\* The send to c is over.
Sent(u, c) ==
  /\ todo' = [todo EXCEPT ![u] = @ \ {c}]
  /\ target' = [target EXCEPT ![u] = None]

\* Mutant: a full channel is skipped instead of waited for.
SendDrops(u) ==
  /\ target[u] # None /\ target[u] \notin closed
  /\ ch' = IF Len(ch[target[u]]) < 1 THEN [ch EXCEPT ![target[u]] = Append(@, u)] ELSE ch
  /\ Sent(u, target[u])
  /\ UNCHANGED <<subs, streams, closed, notifier, panicked, failures>>

\* ch <- pi: waits for room.
Send(u) ==
  /\ target[u] # None /\ target[u] \notin closed
  /\ Len(ch[target[u]]) < 1
  /\ ch' = [ch EXCEPT ![target[u]] = Append(@, u)]
  /\ Sent(u, target[u])
  /\ UNCHANGED <<subs, streams, closed, notifier, panicked, failures>>

\* A send on a closed channel, one that was waiting included, is a run-time
\* panic: nothing recovers in the goroutine, the process ends.
SendPanics(u) ==
  /\ target[u] # None /\ target[u] \in closed
  /\ panicked' = TRUE
  /\ UNCHANGED <<subs, streams, ch, closed, notifiers, failures>>

-----------------------------------------------------------------------------

ClientStep(c) ==
  Receive(c) \/ WriteText(c) \/ WriteFails(c) \/ WriteHangs(c) \/ UnsubscribeInventory(c)

NotifyStep(u) ==
  Snapshot(u) \/ (\E c \in Client : Pick(u, c)) \/ Send(u) \/ SendPanics(u)

Next ==
  /\ ~panicked
  /\ \/ \E c \in Client : SubscribeInventory(c) \/ ClientStep(c)
     \/ \E u \in Update : Publish(u) \/ NotifyStep(u)

Spec == Init /\ [][Next]_vars

\* Goroutines that can run do; a write may still hang (WriteHangs).
FairSpec ==
  /\ Spec
  /\ \A c \in Client : WF_vars(~panicked /\ ClientStep(c))
  /\ \A u \in Update : WF_vars(~panicked /\ NotifyStep(u))

-----------------------------------------------------------------------------
(* Properties *)

\* A client is sent an update at most once, however clients come, go and hang
\* while several notifiers work on copies of the list (service.go 590-602).
NotifiedOnce == \A c \in Client, u \in Update : got[c][u] <= 1

\* The notifier of u has served its copy of the list.
Returned(u) == notifier[u] = "sending" /\ todo[u] = {}

\* The notifier of u waits for room in the channel of a client whose write hangs.
HeldUp(u) == \E c \in Client : target[u] = c /\ stream[c] = "stuck" /\ ch[c] # <<>>

\* A client that is registered when an update is published gets it, although
\* its channel holds one update only and other notifiers compete for it, unless
\* a connection fails, its own write hangs, or the notifier is held up by the
\* hanging write of a client that comes before it in the order of the map
\* (service.go 598-601, transport_http.go 133).
EveryoneNotified ==
  \A c \in Client, u \in Update :
    (c \in subs /\ notifier[u] = "started")
      ~> (got[c][u] > 0 \/ failures > 0 \/ stream[c] = "stuck" \/ HeldUp(u))

\* A notifying goroutine ends, whatever clients fail and leave while it waits
\* for them, unless the write of a client that is still connected hangs: who
\* leaves closes its channel (service.go 422), which ends the wait, if only by
\* the panic of a send on a closed channel.
NotifiersEnd ==
  \A u \in Update :
    (notifier[u] = "started") ~> (Returned(u) \/ panicked \/ HeldUp(u))
=============================================================================
