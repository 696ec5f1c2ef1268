------------------------ MODULE SubscriptionsProofs ------------------------
(***************************************************************************)
(* Proofs about the live subscriptions (Subscriptions), for any number of  *)
(* clients, updates and failed writes.                                     *)
(***************************************************************************)
EXTENDS Subscriptions, SequencesExt, SequenceTheorems, TLAPS

-----------------------------------------------------------------------------
(* The parts of the inductive invariant *)

\* A stream has an update in its hands exactly while it writes, however long.
HeldWhileWriting ==
  \A c \in Client : (stream[c] \in {"write", "stuck"}) <=> (held[c] # None)

\* u is on its way to client c, or was sent to it.
Reached(u, c) == u \in ToSet(ch[c]) \/ held[c] = u \/ got[c][u] > 0

\* A notifier sends to clients of its snapshot, and has served nobody before it
\* took one.
SendsToSnapshot ==
  \A u \in Update :
    /\ target[u] # None => target[u] \in todo[u]
    /\ notifier[u] \in {"idle", "started"} =>
         todo[u] = {} /\ \A c \in Client : ~Reached(u, c)

\* A client it has still to serve has not been reached.
ServedOnce == \A u \in Update : \A c \in todo[u] : ~Reached(u, c)

\* An update is in one place on its way: the channel, the stream, the client.
OnePlace ==
  \A c \in Client, u \in Update :
    /\ u \in ToSet(ch[c]) => held[c] # u /\ got[c][u] = 0
    /\ held[c] = u => got[c][u] = 0

\* The inductive invariant
NotifyInv ==
  TypeOK /\ HeldWhileWriting /\ SendsToSnapshot /\ ServedOnce /\ OnePlace /\ NotifiedOnce
-----------------------------------------------------------------------------
(* Sequences *)

\* Appending adds one element.
LEMMA ToSetAppend ==
  ASSUME NEW S, NEW s \in Seq(S), NEW m \in S
  PROVE  ToSet(Append(s, m)) = ToSet(s) \cup {m}
<1>1. /\ DOMAIN s = 1 .. Len(s) /\ DOMAIN Append(s, m) = 1 .. Len(s) + 1
      /\ Len(s) \in Nat
      /\ \A i \in 1 .. Len(s) : Append(s, m)[i] = s[i]
      /\ Append(s, m)[Len(s) + 1] = m
  OBVIOUS
<1>2. \A x : x \in ToSet(Append(s, m)) <=> \E i \in 1 .. Len(s) + 1 : x = Append(s, m)[i]
  BY <1>1 DEF ToSet
<1>3. \A x : x \in ToSet(s) <=> \E i \in 1 .. Len(s) : x = s[i]
  BY <1>1 DEF ToSet
<1>4. ASSUME NEW i \in 1 .. Len(s) + 1 PROVE Append(s, m)[i] \in ToSet(s) \cup {m}
  <2>1. i \in 1 .. Len(s) \/ i = Len(s) + 1
    BY <1>1
  <2>2. QED BY <1>1, <1>3, <2>1
<1>5. ASSUME NEW i \in 1 .. Len(s) PROVE s[i] \in ToSet(Append(s, m))
  <2>1. i \in 1 .. Len(s) + 1 /\ s[i] = Append(s, m)[i]
    BY <1>1
  <2>2. QED BY <1>2, <2>1
<1>6. m \in ToSet(Append(s, m))
  <2>1. Len(s) + 1 \in 1 .. Len(s) + 1
    BY <1>1
  <2>2. QED BY <1>1, <1>2, <2>1
<1>7. QED BY <1>2, <1>3, <1>4, <1>5, <1>6

\* The empty sequence has no elements.
LEMMA ToSetEmpty == ToSet(<<>>) = {}
BY DEF ToSet

\* The buffer of a channel holds one update at most: what is received is all
\* there was, what is sent is all there is.
LEMMA BufferOfOne ==
  ASSUME NEW q \in Seq(Update), Len(q) <= 1
  PROVE  /\ q # <<>> => /\ Head(q) \in Update /\ ToSet(q) = {Head(q)}
                        /\ Tail(q) = <<>>
         /\ Len(q) < 1 => q = <<>>
<1>1. Len(q) \in Nat /\ DOMAIN q = 1 .. Len(q)
  OBVIOUS
<1>2. ASSUME q # <<>>
      PROVE  Head(q) \in Update /\ ToSet(q) = {Head(q)} /\ Tail(q) = <<>>
  <2>1. Len(q) = 1
    <3>1. Len(q) # 0
      BY <1>2
    <3>2. QED BY <1>1, <3>1
  <2>2. Head(q) = q[1] /\ q[1] \in Update
    BY <2>1
  <2>3. ToSet(q) = {q[1]}
    <3>1. DOMAIN q = {1}
      BY <1>1, <2>1
    <3>2. QED BY <3>1 DEF ToSet
  <2>4. Tail(q) = <<>>
    <3>1. Tail(q) \in Seq(Update) /\ Len(Tail(q)) = 0
      BY <1>2, <2>1
    <3>2. QED BY <3>1
  <2>5. QED BY <2>2, <2>3, <2>4
<1>3. ASSUME Len(q) < 1 PROVE q = <<>>
  <2>1. Len(q) = 0
    BY <1>1, <1>3
  <2>2. QED BY <2>1
<1>4. QED BY <1>2, <1>3
-----------------------------------------------------------------------------
(* The invariant holds at first *)

\* At first nobody is subscribed and nothing is sent.
LEMMA InitInv == Init => NotifyInv
<1> SUFFICES ASSUME Init PROVE NotifyInv OBVIOUS
<1>1. TypeOK
  <2>1. failures \in 0 .. MaxWriteFailures
    BY SubscriptionsAssumption DEF Init
  <2>2. panicked \in BOOLEAN
    BY Zenon DEF Init
  <2>3. QED BY <2>1, <2>2 DEF Init, TypeOK
<1>2. HeldWhileWriting
  BY DEF Init, HeldWhileWriting
<1>3. \A c \in Client, u \in Update : ~Reached(u, c)
  BY ToSetEmpty, SubscriptionsAssumption DEF Init, Reached
<1>4. SendsToSnapshot /\ ServedOnce
  BY <1>3 DEF Init, SendsToSnapshot, ServedOnce
<1>5. OnePlace
  BY <1>3 DEF Reached, OnePlace
<1>6. NotifiedOnce
  BY DEF Init, NotifiedOnce
<1>7. QED BY <1>1, <1>2, <1>4, <1>5, <1>6 DEF NotifyInv

-----------------------------------------------------------------------------
(* Types *)

\* The steps of a client keep the types.
LEMMA ClientTypes ==
  ASSUME TypeOK, HeldWhileWriting, NEW c \in Client, SubscribeInventory(c) \/ ClientStep(c)
  PROVE  TypeOK'
<1> USE DEF TypeOK, Goto, notifiers
<1>1. CASE SubscribeInventory(c)
  BY <1>1 DEF SubscribeInventory
<1>2. CASE Receive(c)
  <2>1. Head(ch[c]) \in Update /\ Tail(ch[c]) = <<>>
    BY <1>2, BufferOfOne DEF Receive
  <2>2. ch' \in [Client -> Seq(Update)] /\ \A d \in Client : Len(ch'[d]) <= 1
    BY <1>2, <2>1 DEF Receive
  <2>3. QED BY <1>2, <2>1, <2>2 DEF Receive
<1>3. CASE WriteText(c)
  <2>1. held[c] \in Update
    BY <1>3 DEF WriteText, HeldWhileWriting
  <2>2. got' \in [Client -> [Update -> Nat]]
    BY <1>3, <2>1 DEF WriteText
  <2>3. QED BY <1>3, <2>2 DEF WriteText
<1>4. CASE WriteFails(c)
  BY <1>4, SubscriptionsAssumption DEF WriteFails
<1>5. CASE WriteHangs(c)
  BY <1>5 DEF WriteHangs
<1>6. CASE UnsubscribeInventory(c)
  BY <1>6 DEF UnsubscribeInventory
<1>7. QED BY <1>1, <1>2, <1>3, <1>4, <1>5, <1>6 DEF ClientStep

\* The steps of a notifier keep the types.
LEMMA NotifierTypes ==
  ASSUME TypeOK, NEW u \in Update, Publish(u) \/ NotifyStep(u)
  PROVE  TypeOK'
<1> USE DEF TypeOK, streams, notifiers
<1>1. CASE Publish(u)
  BY <1>1 DEF Publish
<1>2. CASE Snapshot(u)
  BY <1>2 DEF Snapshot
<1>3. CASE \E c \in Client : Pick(u, c)
  BY <1>3 DEF Pick
<1>4. CASE Send(u)
  <2>1. target[u] \in Client
    BY <1>4 DEF Send
  <2>2. ch[target[u]] = <<>>
    BY <1>4, <2>1, BufferOfOne DEF Send
  <2>3. ch' \in [Client -> Seq(Update)] /\ \A d \in Client : Len(ch'[d]) <= 1
    BY <1>4, <2>1, <2>2 DEF Send
  <2>4. QED BY <1>4, <2>3 DEF Send, Sent
<1>5. CASE SendPanics(u)
  <2>1. panicked' \in BOOLEAN
    BY <1>5, Zenon DEF SendPanics
  <2>2. QED BY <1>5, <2>1 DEF SendPanics
<1>6. QED BY <1>1, <1>2, <1>3, <1>4, <1>5 DEF NotifyStep

-----------------------------------------------------------------------------
(* The clients' streams *)

\* Nothing an update goes through changes, and no notifier moves.
LEMMA NothingMoves ==
  ASSUME NotifyInv, ch' = ch, held' = held, got' = got, todo' = todo, target' = target,
         notifier' = notifier
  PROVE  SendsToSnapshot' /\ ServedOnce' /\ OnePlace' /\ NotifiedOnce'
<1>1. \A u, c : Reached(u, c)' <=> Reached(u, c)
  BY DEF Reached
<1>2. SendsToSnapshot' /\ ServedOnce'
  BY <1>1 DEF NotifyInv, SendsToSnapshot, ServedOnce
<1>3. OnePlace' /\ NotifiedOnce'
  BY DEF NotifyInv, OnePlace, NotifiedOnce
<1>4. QED BY <1>2, <1>3

\* An update moves along its way to c, or is dropped there: it reaches nobody
\* who was not reached before.
LEMMA ReachesNoMore ==
  ASSUME SendsToSnapshot, ServedOnce, todo' = todo, target' = target, notifier' = notifier,
         todo \in [Update -> SUBSET Client],
         \A u \in Update, c \in Client : Reached(u, c)' => Reached(u, c)
  PROVE  SendsToSnapshot' /\ ServedOnce'
<1>1. SendsToSnapshot'
  BY DEF SendsToSnapshot
<1>2. ServedOnce'
  BY DEF ServedOnce
<1>3. QED BY <1>1, <1>2

\* A client moves an update from its channel to its hands to the socket.
LEMMA ClientKeepsInv ==
  ASSUME NotifyInv, NEW c \in Client, SubscribeInventory(c) \/ ClientStep(c)
  PROVE  NotifyInv'
<1> USE DEF Goto
<1>1. TypeOK /\ TypeOK'
  BY ClientTypes DEF NotifyInv
<1>2. CASE SubscribeInventory(c)
  <2>1. HeldWhileWriting'
    BY <1>1, <1>2 DEF SubscribeInventory, NotifyInv, HeldWhileWriting, TypeOK
  <2>2. QED BY <1>1, <1>2, <2>1, NothingMoves DEF NotifyInv, SubscribeInventory, notifiers
<1>3. CASE Receive(c)
  <2>1. Head(ch[c]) \in Update /\ ToSet(ch[c]) = {Head(ch[c])} /\ Tail(ch[c]) = <<>>
    BY <1>1, <1>3, BufferOfOne DEF Receive, TypeOK
  <2>2. /\ held'[c] = Head(ch[c]) /\ ToSet(ch'[c]) = {} /\ held[c] = None
        /\ \A d \in Client \ {c} : held'[d] = held[d] /\ ch'[d] = ch[d]
        /\ got' = got
    BY <1>1, <1>3, <2>1, ToSetEmpty, ZenonT(30) DEF Receive, TypeOK, NotifyInv, HeldWhileWriting
  <2>3. \A u \in Update, d \in Client : Reached(u, d)' => Reached(u, d)
    BY <2>1, <2>2 DEF Reached
  <2>4. HeldWhileWriting'
    BY <1>1, <1>3, <2>1, SubscriptionsAssumption DEF Receive, NotifyInv, HeldWhileWriting, TypeOK
  <2>5. SendsToSnapshot' /\ ServedOnce'
    BY <1>1, <1>3, <2>3, ReachesNoMore DEF Receive, NotifyInv, TypeOK, notifiers
  <2>6. OnePlace'
    BY <2>1, <2>2 DEF NotifyInv, OnePlace
  <2>7. NotifiedOnce'
    BY <2>2 DEF NotifyInv, NotifiedOnce
  <2>8. QED BY <1>1, <2>4, <2>5, <2>6, <2>7 DEF NotifyInv
<1>4. CASE WriteText(c)
  <2>1. held[c] \in Update /\ got \in [Client -> [Update -> Nat]]
    BY <1>1, <1>4 DEF WriteText, TypeOK, NotifyInv, HeldWhileWriting
  <2>2. /\ held'[c] = None /\ ch' = ch
        /\ \A d \in Client \ {c} : held'[d] = held[d] /\ got'[d] = got[d]
    BY <1>1, <1>4 DEF WriteText, TypeOK
  <2>3. /\ got'[c][held[c]] = got[c][held[c]] + 1
        /\ \A u \in Update \ {held[c]} : got'[c][u] = got[c][u]
    BY <1>4, <2>1 DEF WriteText
  <2>4. \A u \in Update, d \in Client : Reached(u, d)' => Reached(u, d)
    BY <2>2, <2>3, SubscriptionsAssumption DEF Reached
  <2>5. HeldWhileWriting'
    BY <1>1, <1>4, <2>1 DEF WriteText, NotifyInv, HeldWhileWriting, TypeOK
  <2>6. SendsToSnapshot' /\ ServedOnce'
    BY <1>1, <1>4, <2>4, ReachesNoMore DEF WriteText, NotifyInv, TypeOK, notifiers
  <2>7. OnePlace'
    BY <2>1, <2>2, <2>3, SubscriptionsAssumption DEF NotifyInv, OnePlace
  <2>8. NotifiedOnce'
    <3>1. got[c][held[c]] = 0
      BY <2>1 DEF NotifyInv, OnePlace
    <3>2. QED BY <2>2, <2>3, <3>1 DEF NotifyInv, NotifiedOnce
  <2>9. QED BY <1>1, <2>5, <2>6, <2>7, <2>8 DEF NotifyInv
<1>5. CASE WriteFails(c)
  <2>1. /\ held'[c] = None /\ got' = got /\ ch' = ch
        /\ \A d \in Client \ {c} : held'[d] = held[d]
    BY <1>1, <1>5 DEF WriteFails, TypeOK
  <2>2. \A u \in Update, d \in Client : Reached(u, d)' => Reached(u, d)
    BY <2>1, SubscriptionsAssumption DEF Reached
  <2>3. HeldWhileWriting'
    BY <1>1, <1>5 DEF WriteFails, NotifyInv, HeldWhileWriting, TypeOK
  <2>4. SendsToSnapshot' /\ ServedOnce'
    BY <1>1, <1>5, <2>2, ReachesNoMore DEF WriteFails, NotifyInv, TypeOK, notifiers
  <2>5. OnePlace' /\ NotifiedOnce'
    BY <2>1, SubscriptionsAssumption DEF NotifyInv, OnePlace, NotifiedOnce
  <2>6. QED BY <1>1, <2>3, <2>4, <2>5 DEF NotifyInv
<1>6. CASE UnsubscribeInventory(c)
  <2>1. HeldWhileWriting'
    BY <1>1, <1>6 DEF UnsubscribeInventory, NotifyInv, HeldWhileWriting, TypeOK
  <2>2. QED BY <1>1, <1>6, <2>1, NothingMoves DEF NotifyInv, UnsubscribeInventory, notifiers
<1>7. CASE WriteHangs(c)
  <2>1. HeldWhileWriting'
    BY <1>1, <1>7 DEF WriteHangs, NotifyInv, HeldWhileWriting, TypeOK
  <2>2. QED BY <1>1, <1>7, <2>1, NothingMoves DEF NotifyInv, WriteHangs, notifiers
<1>8. QED BY <1>2, <1>3, <1>4, <1>5, <1>6, <1>7 DEF ClientStep
-----------------------------------------------------------------------------
(* The notifiers *)

\* A notifier puts its update only into channels it has not served.
LEMMA NotifierKeepsInv ==
  ASSUME NotifyInv, NEW u \in Update, Publish(u) \/ NotifyStep(u)
  PROVE  NotifyInv'
<1> USE DEF streams, notifiers
<1>1. TypeOK /\ TypeOK'
  BY NotifierTypes DEF NotifyInv
<1>2. HeldWhileWriting'
  <2>1. stream' = stream /\ held' = held
    BY DEF Publish, NotifyStep, Snapshot, Pick, Send, SendPanics
  <2>2. QED BY <2>1 DEF NotifyInv, HeldWhileWriting
<1>3. CASE UNCHANGED <<streams, ch>>
  <2>1. \A v, c : Reached(v, c)' <=> Reached(v, c)
    BY <1>3 DEF Reached
  <2>2. OnePlace' /\ NotifiedOnce'
    BY <1>3 DEF NotifyInv, OnePlace, NotifiedOnce
  <2>3. CASE Publish(u)
    BY <1>1, <1>2, <2>1, <2>2, <2>3
    DEF Publish, NotifyInv, SendsToSnapshot, ServedOnce, TypeOK
  <2>4. CASE Snapshot(u)
    <3>1. \A c \in Client : ~Reached(u, c)
      BY <2>4 DEF Snapshot, NotifyInv, SendsToSnapshot
    <3>2. /\ subs \subseteq Client /\ todo'[u] = subs /\ target' = target
          /\ \A v \in Update \ {u} : todo'[v] = todo[v]
          /\ todo[u] = {} /\ notifier'[u] = "sending"
          /\ \A v \in Update \ {u} : notifier'[v] = notifier[v]
      BY <1>1, <2>4 DEF Snapshot, TypeOK, NotifyInv, SendsToSnapshot
    <3>3. SendsToSnapshot'
      BY <2>1, <3>2 DEF NotifyInv, SendsToSnapshot
    <3>4. ServedOnce'
      BY <2>1, <3>1, <3>2 DEF NotifyInv, ServedOnce
    <3>5. QED BY <1>1, <1>2, <2>2, <3>3, <3>4 DEF NotifyInv
  <2>5. CASE \E c \in Client : Pick(u, c)
    <3>1. PICK c \in Client : Pick(u, c)
      BY <2>5
    <3>2. SendsToSnapshot' /\ ServedOnce'
      BY <1>1, <2>1, <3>1 DEF Pick, NotifyInv, SendsToSnapshot, ServedOnce, TypeOK
    <3>3. QED BY <1>1, <1>2, <2>2, <3>2 DEF NotifyInv
  <2>6. CASE SendPanics(u)
    BY <1>1, <1>2, <2>1, <2>2, <2>6 DEF SendPanics, NotifyInv, SendsToSnapshot, ServedOnce
  <2>7. CASE Send(u)
    <3>1. target[u] \in Client /\ ch[target[u]] \in Seq(Update)
      BY <1>1, <2>7 DEF Send, TypeOK
    <3>2. ch'[target[u]] = Append(ch[target[u]], u)
      BY <1>1, <2>7, <3>1 DEF Send, TypeOK
    <3>3. Len(Append(ch[target[u]], u)) # Len(ch[target[u]])
      BY <3>1
    <3>4. QED BY <1>3, <3>2, <3>3
  <2>8. QED BY <2>3, <2>4, <2>5, <2>6, <2>7 DEF NotifyStep
<1>4. CASE Send(u)
  <2> DEFINE c == target[u]
  <2>1. c \in Client /\ c \in todo[u] /\ ch[c] \in Seq(Update)
    BY <1>1, <1>4 DEF Send, TypeOK, NotifyInv, SendsToSnapshot
  <2>2. ~Reached(u, c)
    BY <2>1 DEF NotifyInv, ServedOnce
  <2>3. /\ ch'[c] = Append(ch[c], u)
        /\ \A d \in Client \ {c} : ch'[d] = ch[d]
        /\ held' = held /\ got' = got /\ notifier' = notifier
        /\ todo'[u] = todo[u] \ {c} /\ target'[u] = None
        /\ \A v \in Update \ {u} : todo'[v] = todo[v] /\ target'[v] = target[v]
    BY <1>1, <1>4, <2>1 DEF Send, Sent, TypeOK
  <2>4. ToSet(ch'[c]) = ToSet(ch[c]) \cup {u}
    BY <2>1, <2>3, ToSetAppend
  <2>5. \A v \in Update, d \in Client : Reached(v, d)' => Reached(v, d) \/ (v = u /\ d = c)
    BY <2>3, <2>4 DEF Reached
  <2>6. \A v \in Update : todo[v] \subseteq Client
    BY <1>1 DEF TypeOK
  <2>7. SendsToSnapshot'
    <3>1. notifier[u] \notin {"idle", "started"}
      BY <2>1 DEF NotifyInv, SendsToSnapshot
    <3>2. ASSUME NEW v \in Update, target'[v] # None PROVE target'[v] \in todo'[v]
      BY <2>3, <3>2 DEF NotifyInv, SendsToSnapshot
    <3>3. ASSUME NEW v \in Update, notifier'[v] \in {"idle", "started"}
          PROVE  todo'[v] = {} /\ \A d \in Client : ~Reached(v, d)'
      <4>1. v # u /\ notifier[v] \in {"idle", "started"}
        BY <2>3, <3>1, <3>3
      <4>2. todo[v] = {} /\ \A d \in Client : ~Reached(v, d)
        BY <4>1 DEF NotifyInv, SendsToSnapshot
      <4>3. QED BY <2>3, <2>5, <4>1, <4>2
    <3>4. QED BY <3>2, <3>3 DEF SendsToSnapshot
  <2>8. ServedOnce'
    <3>1. SUFFICES ASSUME NEW v \in Update, NEW d \in todo'[v] PROVE ~Reached(v, d)'
      BY DEF ServedOnce
    <3>2. d \in todo[v] /\ d \in Client /\ ~(v = u /\ d = c)
      BY <2>3, <2>6
    <3>3. ~Reached(v, d)
      BY <3>2 DEF NotifyInv, ServedOnce
    <3>4. QED BY <2>5, <3>2, <3>3
  <2>9. OnePlace'
    <3>1. SUFFICES ASSUME NEW d \in Client, NEW v \in Update
          PROVE  /\ v \in ToSet(ch'[d]) => held'[d] # v /\ got'[d][v] = 0
                 /\ held'[d] = v => got'[d][v] = 0
      BY DEF OnePlace
    <3>2. CASE d = c /\ v = u
      BY <1>1, <2>2, <2>3, <3>2 DEF Reached, TypeOK
    <3>3. CASE d # c \/ v # u
      BY <2>3, <2>4, <3>3 DEF NotifyInv, OnePlace
    <3>4. QED BY <3>2, <3>3
  <2>10. NotifiedOnce'
    BY <2>3 DEF NotifyInv, NotifiedOnce
  <2>11. QED BY <1>1, <1>2, <2>7, <2>8, <2>9, <2>10 DEF NotifyInv
<1>5. QED
  <2>1. CASE Send(u)
    BY <1>4, <2>1
  <2>2. CASE ~Send(u)
    <3>1. UNCHANGED <<streams, ch>>
      BY <2>2 DEF Publish, NotifyStep, Snapshot, Pick, SendPanics
    <3>2. QED BY <1>3, <3>1
  <2>3. QED BY <2>1, <2>2

-----------------------------------------------------------------------------
(* The theorems *)

\* Nothing happens when nothing changes.
LEMMA StutterInv == ASSUME NotifyInv, UNCHANGED vars PROVE NotifyInv'
<1> USE DEF vars, streams, notifiers
<1>1. TypeOK' /\ HeldWhileWriting'
  BY DEF NotifyInv, TypeOK, HeldWhileWriting
<1>2. QED BY <1>1, NothingMoves DEF NotifyInv

\* The invariant always holds.
LEMMA InvHolds == Spec => []NotifyInv
<1>1. NotifyInv /\ [Next]_vars => NotifyInv'
  <2> SUFFICES ASSUME NotifyInv, [Next]_vars PROVE NotifyInv' OBVIOUS
  <2>1. CASE Next
    BY <2>1, ClientKeepsInv, NotifierKeepsInv DEF Next
  <2>2. QED BY <2>1, StutterInv
<1>2. QED BY InitInv, <1>1, PTL DEF Spec

\* The subscriptions keep their types: a channel never holds more than the one
\* update its capacity allows.
THEOREM SubsTypeCorrect == Spec => []TypeOK
<1>1. NotifyInv => TypeOK
  BY DEF NotifyInv
<1>2. QED BY InvHolds, <1>1, PTL

\* A client is sent an update at most once, however many clients and notifiers
\* there are (service.go 590-602).
THEOREM ClientsNotifiedOnce == Spec => []NotifiedOnce
<1>1. NotifyInv => NotifiedOnce
  BY DEF NotifyInv
<1>2. QED BY InvHolds, <1>1, PTL
=============================================================================
