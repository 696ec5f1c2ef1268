----------------------------- MODULE AmqpProofs -----------------------------
(***************************************************************************)
(* Proofs about AMQP, for any number of messages, failed dials and broken  *)
(* connections: the publishing loop by itself (AmqpPublisher), and the     *)
(* product queue with the dead-letter loop it feeds (ProductQueue).        *)
(***************************************************************************)
EXTENDS ProductQueue, SequenceTheorems, TLAPS

-----------------------------------------------------------------------------
(* The parts of the inductive invariant of the publishing loop *)

\* A message is received from the channel once, and is nowhere before that.
TakenOnce ==
  /\ IsInjective(taken)
  /\ \A m \in Msg : send[m] # "sent" =>
       /\ m \notin ToSet(taken) /\ m \notin ToSet(pending) /\ m \notin ToSet(inflight)
       /\ m \notin late /\ m \notin ToSet(broker)

\* It is in one place at a time: to be published, on its way in this session or
\* in one that is over, or at the exchange.
OnePlace ==
  \A m \in Msg :
    /\ m \in ToSet(pending) => m \notin ToSet(inflight) \cup late \cup ToSet(broker)
    /\ m \in ToSet(inflight) => m \notin late \cup ToSet(broker)
    /\ m \in late => m \notin ToSet(broker)

\* A session works on one message, the last one received, until its
\* confirmation; between sessions nothing is on its way in one.
OneAtATime ==
  /\ loop # "open" => inflight = <<>>
  /\ loop = "open" =>
       /\ reading => pending = <<>> /\ inflight = <<>> /\ confirm = <<>>
       /\ pending # <<>> => inflight = <<>> /\ confirm = <<>> /\ pending = body
       /\ inflight # <<>> => confirm = <<>> /\ inflight = body
       /\ ~reading => taken # <<>> /\ body = <<taken[Len(taken)]>>

\* Messages whose span ended Ok, and the one whose acknowledgement is waiting
\* to be read
Acked(m) == m \in spanOk \/ (loop = "open" /\ confirm = <<"ack">> /\ m \in ToSet(body))

\* Acknowledged messages are at the exchange in the order they were received.
AckedInOrder ==
  \A i, j \in DOMAIN taken :
    i <= j /\ Acked(taken[i]) /\ Acked(taken[j]) =>
      \E a, b \in DOMAIN broker :
        a <= b /\ broker[a] = taken[i] /\ broker[b] = taken[j]

\* A span ended Ok only for a message that was received.
SpansTaken == spanOk \subseteq ToSet(taken)

\* The inductive invariant
PublishInv ==
  /\ TypeOK /\ TakenOnce /\ SpansTaken /\ OnePlace /\ AtMostOnce
  /\ OneAtATime /\ AckedInOrder

-----------------------------------------------------------------------------
(* Sequences *)

\* The empty sequence has no elements.
LEMMA ToSetEmpty == ToSet(<<>>) = {}
BY DEF ToSet

\* A slot of one message holds that message.
LEMMA ToSetOne == ASSUME NEW m PROVE ToSet(<<m>>) = {m}
BY DEF ToSet

\* Appending adds one element.
LEMMA ToSetAppend ==
  ASSUME NEW S, NEW s \in Seq(S), NEW m \in S
  PROVE  ToSet(Append(s, m)) = ToSet(s) \cup {m}
<1>1. /\ DOMAIN s = 1 .. Len(s) /\ DOMAIN Append(s, m) = 1 .. Len(s) + 1
      /\ Len(s) \in Nat
      /\ \A i \in 1 .. Len(s) : Append(s, m)[i] = s[i]
      /\ Append(s, m)[Len(s) + 1] = m
  OBVIOUS
<1>2. ToSet(Append(s, m)) \subseteq ToSet(s) \cup {m}
  <2> SUFFICES ASSUME NEW i \in 1 .. Len(s) + 1 PROVE Append(s, m)[i] \in ToSet(s) \cup {m}
    BY <1>1 DEF ToSet
  <2>1. CASE i \in 1 .. Len(s)
    BY <1>1, <2>1 DEF ToSet
  <2>2. CASE i = Len(s) + 1
    BY <1>1, <2>2
  <2>3. QED BY <1>1, <2>1, <2>2
<1>3. ToSet(s) \subseteq ToSet(Append(s, m))
  <2> SUFFICES ASSUME NEW i \in 1 .. Len(s) PROVE s[i] \in ToSet(Append(s, m))
    BY <1>1 DEF ToSet
  <2>1. i \in DOMAIN Append(s, m) /\ Append(s, m)[i] = s[i]
    BY <1>1
  <2>2. QED BY <2>1 DEF ToSet
<1>4. m \in ToSet(Append(s, m))
  <2>1. Len(s) + 1 \in DOMAIN Append(s, m)
    BY <1>1
  <2>2. QED BY <1>1, <2>1 DEF ToSet
<1>5. QED BY <1>2, <1>3, <1>4

\* A fresh element keeps a sequence without repetition so.
LEMMA InjectiveAppend ==
  ASSUME NEW S, NEW s \in Seq(S), NEW m \in S, IsInjective(s), m \notin ToSet(s)
  PROVE  IsInjective(Append(s, m))
BY DEF IsInjective, ToSet

\* A sequence of at most one element
LEMMA ShortSeq ==
  ASSUME NEW S, NEW q \in Seq(S), Len(q) <= 1
  PROVE  q = <<>> \/ \E m \in S : q = <<m>>
<1>1. CASE Len(q) = 0
  BY <1>1
<1>2. CASE Len(q) = 1
  <2>1. q[1] \in S /\ <<q[1]>> \in Seq(S) /\ Len(<<q[1]>>) = 1
    BY <1>2
  <2>2. \A i \in 1 .. Len(q) : q[i] = <<q[1]>>[i]
    BY <1>2
  <2>3. q = <<q[1]>>
    BY <1>2, <2>1, <2>2, SeqEqual
  <2>4. QED BY <2>1, <2>3
<1>3. Len(q) = 0 \/ Len(q) = 1
  <2>1. Len(q) \in Nat
    OBVIOUS
  <2>2. \A n \in Nat : n <= 1 => n = 0 \/ n = 1
    OBVIOUS
  <2>3. QED BY <2>1, <2>2, Zenon
<1>4. QED BY <1>1, <1>2, <1>3, Zenon

\* Concatenating one message is appending it.
LEMMA ConcatOne ==
  ASSUME NEW S, NEW s \in Seq(S), NEW m \in S
  PROVE  s \o <<m>> = Append(s, m)
OBVIOUS

-----------------------------------------------------------------------------
(* Types *)

\* Nothing was taken, published or confirmed at first.
LEMMA InitInv == Init => PublishInv
<1> SUFFICES ASSUME Init PROVE PublishInv OBVIOUS
<1> USE ToSetEmpty DEF Init, SessionInit
<1>1. TypeOK
  <2>1. 0 \in 0 .. MaxFaults
    BY SessionAssumption
  <2>2. SessionTypeOK
    BY <2>1, Zenon DEF SessionTypeOK
  <2>3. reading \in BOOLEAN /\ confirms \in BOOLEAN
    BY Zenon
  <2>4. QED BY <2>2, <2>3 DEF TypeOK
<1>2. TakenOnce /\ SpansTaken /\ OnePlace /\ AtMostOnce
  BY DEF TakenOnce, SpansTaken, OnePlace, AtMostOnce, IsInjective
<1>3. OneAtATime /\ AckedInOrder
  BY DEF OneAtATime, AckedInOrder
<1>4. QED BY <1>1, <1>2, <1>3 DEF PublishInv

\* The session's own variables
LEMMA SessionType ==
  ASSUME SessionTypeOK,
         SessionStep \/ SessionFault \/ HandOver \/ Leave
  PROVE  SessionTypeOK'
<1> USE SessionAssumption DEF SessionTypeOK
<1>1. CASE SessionStep
  BY <1>1 DEF SessionStep, Offer, DialOk, DialAgain, FactoryStops, RangeEnds, ConnDown
<1>2. CASE SessionFault
  <2>1. CASE Cancel
    BY <2>1, Zenon DEF Cancel
  <2>2. CASE DialFails
    BY <2>2 DEF DialFails, Fault
  <2>3. CASE ConnBreaks
    BY <2>3 DEF ConnBreaks, Fault
  <2>4. QED BY <1>2, <2>1, <2>2, <2>3 DEF SessionFault
<1>3. CASE HandOver \/ Leave
  BY <1>3 DEF HandOver, Leave
<1>4. QED BY <1>1, <1>2, <1>3

\* Every step of the loop keeps the types.
LEMMA TypeStep == TypeOK /\ [Next]_vars => TypeOK'
<1> SUFFICES ASSUME TypeOK, [Next]_vars PROVE TypeOK' OBVIOUS
<1>0. ASSUME UNCHANGED sessionVars PROVE SessionTypeOK'
  BY <1>0 DEF TypeOK, sessionVars, SessionTypeOK
<1> USE DEF TypeOK
<1>1. CASE UNCHANGED vars
  BY <1>1 DEF vars, sessionVars, SessionTypeOK, slots, wire
<1>2. CASE (SessionStep \/ SessionFault) /\ Keep
  BY <1>2, SessionType DEF Keep, slots, wire
<1>3. ASSUME NEW m \in Msg, PublishInventory(m) PROVE TypeOK'
  BY <1>3 DEF PublishInventory, sessionVars, SessionTypeOK, slots, wire
<1>4. CASE Open
  <2>1. SessionTypeOK'
    BY <1>4, SessionType DEF Open
  <2>2. QED BY <1>4, <2>1 DEF Open, wire
<1>5. ASSUME NEW m \in Msg, Read(m) PROVE TypeOK'
  <2>1. /\ SessionTypeOK' /\ reading' \in BOOLEAN
        /\ UNCHANGED <<confirms, confirm, wire, spanOk, failed>>
    BY <1>0, <1>5, Zenon DEF Read
  <2>2. /\ send' = [send EXCEPT ![m] = "sent"] /\ taken' = Append(taken, m)
        /\ body' = <<m>> /\ pending' = <<m>>
    BY <1>5, Zenon DEF Read
  <2>3. QED BY <2>1, <2>2 DEF wire
<1>6. ASSUME NEW m \in Msg, BrokerLate(m) PROVE TypeOK'
  <2>1. broker' \in Seq(Msg)
    <3>1. Append(broker, m) \in Seq(Msg) /\ broker \in Seq(Msg)
      OBVIOUS
    <3>2. QED BY <1>6, <3>1, Zenon DEF BrokerLate
  <2>2. SessionTypeOK'
    BY <1>0, <1>6 DEF BrokerLate
  <2>3. QED BY <1>6, <2>1, <2>2 DEF BrokerLate, slots
<1>7. CASE PublishOk
  BY <1>7 DEF PublishOk, sessionVars, SessionTypeOK
<1>8. CASE PublishError
  <2>1. SessionTypeOK'
    BY <1>8, SessionType DEF PublishError, LeaveSession
  <2>2. QED BY <1>8, <2>1 DEF PublishError, LeaveSession, ToSet
<1>9. CASE Confirmed
  BY <1>9 DEF Confirmed, sessionVars, SessionTypeOK, wire, ToSet
<1>10. CASE ConfirmClosed
  <2>1. SessionTypeOK'
    BY <1>10, SessionType DEF ConfirmClosed, LeaveSession
  <2>2. QED BY <1>10, <2>1 DEF ConfirmClosed, LeaveSession, slots, ToSet
<1>11. CASE BrokerAnswers
  <2>1. broker' \in Seq(Msg) /\ inflight' = <<>>
    <3>1. broker \in Seq(Msg) /\ inflight \in Seq(Msg)
      OBVIOUS
    <3>2. broker \o inflight \in Seq(Msg)
      BY <3>1
    <3>3. QED BY <1>11, <3>1, <3>2, Zenon DEF BrokerAnswers
  <2>2. confirm' \in Seq({"ack", "nack"}) /\ Len(confirm') <= 1
    BY <1>11 DEF BrokerAnswers
  <2>3. SessionTypeOK'
    BY <1>0, <1>11 DEF BrokerAnswers
  <2>4. QED BY <1>11, <2>1, <2>2, <2>3 DEF BrokerAnswers
<1>12. QED
  BY <1>1, <1>2, <1>3, <1>4, <1>5, <1>6, <1>7, <1>8, <1>9, <1>10, <1>11 DEF Next, Step

-----------------------------------------------------------------------------
(* The steps *)

\* Appending leaves the earlier elements where they were.
LEMMA AppendKeeps ==
  ASSUME NEW S, NEW s \in Seq(S), NEW m \in S
  PROVE  /\ DOMAIN s = 1 .. Len(s) /\ Len(s) \in Nat
         /\ DOMAIN Append(s, m) = 1 .. Len(s) + 1
         /\ Len(Append(s, m)) = Len(s) + 1
         /\ \A i \in DOMAIN s : i \in DOMAIN Append(s, m) /\ Append(s, m)[i] = s[i]
         /\ Append(s, m)[Len(s) + 1] = m
OBVIOUS

\* Steps outside the publishing loop neither enter nor leave a session.
LEMMA SessionQuiet ==
  ASSUME SessionStep \/ SessionFault
  PROVE  (loop' = "open") <=> (loop = "open")
BY DEF SessionStep, SessionFault, Offer, DialOk, DialAgain, FactoryStops, RangeEnds, ConnDown,
   Cancel, DialFails, ConnBreaks

\* A step that moves no message keeps every part of the invariant.
LEMMA QuietStep ==
  ASSUME PublishInv, UNCHANGED <<taken, slots, wire, spanOk>>,
         (loop' = "open") <=> (loop = "open"),
         \A m \in Msg : send'[m] = "sent" <=> send[m] = "sent"
  PROVE  /\ TakenOnce' /\ SpansTaken' /\ OnePlace' /\ AtMostOnce'
         /\ OneAtATime' /\ AckedInOrder'
<1> USE DEF PublishInv, slots, wire
<1>1. TakenOnce' /\ SpansTaken' /\ OnePlace' /\ AtMostOnce'
  BY DEF TakenOnce, SpansTaken, OnePlace, AtMostOnce
<1>2. OneAtATime'
  BY DEF OneAtATime
<1>3. AckedInOrder'
  BY DEF AckedInOrder, Acked
<1>4. QED BY <1>1, <1>2, <1>3

\* A new session starts with nothing in its slots.
LEMMA OpenStep ==
  ASSUME PublishInv, Open
  PROVE  /\ TakenOnce' /\ SpansTaken' /\ OnePlace' /\ AtMostOnce'
         /\ OneAtATime' /\ AckedInOrder'
<1> USE DEF PublishInv
<1>1. /\ UNCHANGED <<send, taken, inflight, late, broker, spanOk>>
      /\ pending' = <<>> /\ confirm' = <<>> /\ reading' = TRUE
      /\ loop' = "open" /\ loop = "waiting"
  BY Zenon DEF Open, HandOver, wire
<1>2. TakenOnce' /\ SpansTaken' /\ OnePlace' /\ AtMostOnce'
  BY <1>1, ToSetEmpty DEF TakenOnce, SpansTaken, OnePlace, AtMostOnce
<1>3. OneAtATime'
  BY <1>1 DEF OneAtATime
<1>4. \A m : Acked(m)' => Acked(m)
  BY <1>1 DEF Acked
<1>5. AckedInOrder'
  BY <1>1, <1>4 DEF AckedInOrder
<1>6. QED BY <1>2, <1>3, <1>5

\* The message read is new to the loop, and nothing else is at work.
LEMMA ReadStep ==
  ASSUME PublishInv, NEW m \in Msg, Read(m)
  PROVE  /\ TakenOnce' /\ SpansTaken' /\ OnePlace' /\ AtMostOnce'
         /\ OneAtATime' /\ AckedInOrder'
<1> USE DEF PublishInv
<1>1. /\ loop = "open" /\ loop' = "open" /\ reading /\ ~reading' /\ send[m] = "blocked"
      /\ send' = [send EXCEPT ![m] = "sent"] /\ taken' = Append(taken, m)
      /\ body' = <<m>> /\ pending' = <<m>>
      /\ UNCHANGED <<confirm, inflight, late, broker, spanOk>>
  BY Zenon DEF Read, sessionVars, wire
<1>2. taken \in Seq(Msg) /\ pending = <<>> /\ inflight = <<>> /\ confirm = <<>>
  BY <1>1 DEF TypeOK, OneAtATime
<1>3. m \notin ToSet(taken) \cup ToSet(pending) \cup ToSet(inflight) \cup late \cup ToSet(broker)
  BY <1>1 DEF TakenOnce
<1>4. ToSet(taken') = ToSet(taken) \cup {m} /\ ToSet(pending') = {m}
  BY <1>1, <1>2, ToSetAppend, ToSetOne
<1>5. TakenOnce'
  <2>1. IsInjective(taken')
    BY <1>1, <1>2, <1>3, InjectiveAppend DEF TakenOnce
  <2>2. \A n \in Msg : send'[n] # "sent" => send[n] # "sent" /\ n # m
    BY <1>1 DEF TypeOK
  <2>3. QED BY <1>1, <1>4, <2>1, <2>2 DEF TakenOnce
<1>6. SpansTaken' /\ OnePlace' /\ AtMostOnce'
  BY <1>1, <1>3, <1>4 DEF SpansTaken, OnePlace, AtMostOnce
<1>7. taken' # <<>> /\ taken'[Len(taken')] = m
  BY <1>1, <1>2, AppendKeeps
<1>8. OneAtATime'
  BY <1>1, <1>2, <1>7 DEF OneAtATime
<1>9. AckedInOrder'
  <2> SUFFICES ASSUME NEW i \in DOMAIN taken', NEW j \in DOMAIN taken', i <= j,
                      taken'[i] \in spanOk, taken'[j] \in spanOk
               PROVE  \E a, b \in DOMAIN broker :
                        a <= b /\ broker[a] = taken'[i] /\ broker[b] = taken'[j]
    BY <1>1, <1>2 DEF AckedInOrder, Acked
  <2>1. m \notin spanOk
    BY <1>3 DEF SpansTaken
  <2>2. i \in DOMAIN taken /\ j \in DOMAIN taken /\ taken'[i] = taken[i] /\ taken'[j] = taken[j]
    BY <1>1, <1>2, <2>1, AppendKeeps
  <2>3. QED BY <2>2 DEF AckedInOrder, Acked
<1>10. QED BY <1>5, <1>6, <1>8, <1>9

\* Publishing moves the pending message on its way, once.
LEMMA PublishOkStep ==
  ASSUME PublishInv, PublishOk
  PROVE  /\ TakenOnce' /\ SpansTaken' /\ OnePlace' /\ AtMostOnce'
         /\ OneAtATime' /\ AckedInOrder'
<1> USE DEF PublishInv
<1>1. /\ loop = "open" /\ loop' = "open" /\ pending # <<>>
      /\ body' = pending /\ pending' = <<>> /\ inflight' = pending
      /\ UNCHANGED <<send, taken, reading, confirm, late, broker, spanOk>>
  BY Zenon DEF PublishOk, sessionVars
<1>2. inflight = <<>> /\ confirm = <<>> /\ pending = body /\ ~reading
  BY <1>1 DEF OneAtATime
<1>3. TakenOnce' /\ SpansTaken' /\ OnePlace' /\ AtMostOnce'
  BY <1>1, <1>2, ToSetEmpty DEF TakenOnce, SpansTaken, OnePlace, AtMostOnce
<1>4. OneAtATime'
  BY <1>1, <1>2 DEF OneAtATime
<1>5. AckedInOrder'
  BY <1>1, <1>2 DEF AckedInOrder, Acked
<1>6. QED BY <1>3, <1>4, <1>5

\* A session is left: what was on its way may arrive later, what was not
\* published is dropped.
LEMMA LeaveStep ==
  ASSUME PublishInv, PublishError \/ ConfirmClosed
  PROVE  /\ TakenOnce' /\ SpansTaken' /\ OnePlace' /\ AtMostOnce'
         /\ OneAtATime' /\ AckedInOrder'
<1> USE DEF PublishInv
<1>1. /\ loop = "open" /\ loop' = "range"
      /\ late' = late \cup ToSet(inflight) /\ inflight' = <<>>
      /\ UNCHANGED <<send, taken, pending, broker, spanOk>>
  BY Zenon DEF PublishError, ConfirmClosed, LeaveSession, Leave, slots
<1>2. TakenOnce' /\ SpansTaken' /\ OnePlace' /\ AtMostOnce'
  BY <1>1, ToSetEmpty DEF TakenOnce, SpansTaken, OnePlace, AtMostOnce
<1>3. OneAtATime'
  BY <1>1 DEF OneAtATime
<1>4. AckedInOrder'
  BY <1>1 DEF AckedInOrder, Acked
<1>5. QED BY <1>2, <1>3, <1>4

\* The confirmation read is the one of the message in body.
LEMMA ConfirmedStep ==
  ASSUME PublishInv, Confirmed
  PROVE  /\ TakenOnce' /\ SpansTaken' /\ OnePlace' /\ AtMostOnce'
         /\ OneAtATime' /\ AckedInOrder'
<1> USE DEF PublishInv
<1>1. /\ loop = "open" /\ loop' = "open" /\ confirm # <<>> /\ confirm' = <<>> /\ reading'
      /\ UNCHANGED <<send, taken, pending, body, inflight, late, broker>>
  BY Zenon DEF Confirmed, sessionVars, wire
<1>2. spanOk' = IF confirm = <<"ack">> THEN spanOk \cup ToSet(body) ELSE spanOk
  BY DEF Confirmed
<1>3. pending = <<>> /\ inflight = <<>> /\ taken # <<>> /\ body = <<taken[Len(taken)]>>
  BY <1>1 DEF OneAtATime
<1>4. ToSet(body) \subseteq ToSet(taken)
  <2>1. Len(taken) \in DOMAIN taken
    BY <1>3 DEF TypeOK
  <2>2. QED BY <1>3, <2>1, ToSetOne DEF ToSet
<1>5. TakenOnce' /\ SpansTaken' /\ OnePlace' /\ AtMostOnce'
  BY <1>1, <1>2, <1>4 DEF TakenOnce, SpansTaken, OnePlace, AtMostOnce
<1>6. OneAtATime'
  BY <1>1, <1>3 DEF OneAtATime
<1>7. AckedInOrder'
  BY <1>1, <1>2 DEF AckedInOrder, Acked
<1>8. QED BY <1>5, <1>6, <1>7

\* What the exchange takes it takes after everything acknowledged so far.
LEMMA BrokerAnswersStep ==
  ASSUME PublishInv, BrokerAnswers
  PROVE  /\ TakenOnce' /\ SpansTaken' /\ OnePlace' /\ AtMostOnce'
         /\ OneAtATime' /\ AckedInOrder'
<1> USE DEF PublishInv
<1>1. /\ inflight # <<>> /\ inflight' = <<>>
      /\ UNCHANGED <<loop, send, taken, reading, pending, body, late, spanOk>>
  BY Zenon DEF BrokerAnswers, sessionVars
<1>2. loop = "open" /\ confirm = <<>> /\ inflight = body /\ pending = <<>> /\ ~reading
  BY <1>1 DEF OneAtATime
<1>3. taken # <<>> /\ body = <<taken[Len(taken)]>> /\ taken \in Seq(Msg) /\ broker \in Seq(Msg)
  BY <1>2 DEF OneAtATime, TypeOK
<1> DEFINE newest == Len(taken)
<1> DEFINE m == taken[newest]
<1>4. newest \in DOMAIN taken /\ m \in Msg /\ \A i \in DOMAIN taken : i <= newest
  BY <1>3
<1>5. ToSet(inflight) = {m} /\ broker \o inflight = Append(broker, m)
  BY <1>2, <1>3, <1>4, ToSetOne, ConcatOne
<1>6. \/ broker' = Append(broker, m) /\ confirm' = <<"ack">>
      \/ broker' = broker /\ confirm' = <<"nack">>
  BY <1>5, Zenon DEF BrokerAnswers
<1>7. ToSet(broker') \subseteq ToSet(broker) \cup {m}
  BY <1>3, <1>4, <1>6, ToSetAppend, ZenonT(30)
<1>8. TakenOnce' /\ SpansTaken' /\ OnePlace'
  BY <1>1, <1>2, <1>4, <1>5, <1>7, ToSetEmpty DEF TakenOnce, SpansTaken, OnePlace
<1>9. AtMostOnce'
  BY <1>3, <1>4, <1>5, <1>6, InjectiveAppend DEF AtMostOnce, OnePlace
<1>10. OneAtATime'
  BY <1>1, <1>2, <1>3, <1>6 DEF OneAtATime
<1>11. AckedInOrder'
  <2> SUFFICES ASSUME NEW i \in DOMAIN taken, NEW j \in DOMAIN taken, i <= j,
                      Acked(taken[i])', Acked(taken[j])'
               PROVE  \E a, b \in DOMAIN broker' :
                        a <= b /\ broker'[a] = taken[i] /\ broker'[b] = taken[j]
    BY <1>1 DEF AckedInOrder, Acked
  <2>1. CASE broker' = broker /\ confirm' = <<"nack">>
    BY <1>1, <1>2, <2>1 DEF AckedInOrder, Acked
  <2>2. CASE broker' = Append(broker, m) /\ confirm' = <<"ack">>
    <3> DEFINE end == Len(broker) + 1
    <3>1. taken[i] \in spanOk \cup {m} /\ taken[j] \in spanOk \cup {m}
      BY <1>1, <1>2, <1>3, <2>2, ToSetOne DEF Acked
    <3>2. end \in DOMAIN broker' /\ broker'[end] = m /\ \A a \in DOMAIN broker' : a <= end
      BY <1>3, <1>4, <2>2, AppendKeeps
    <3>3. \A a \in DOMAIN broker : a \in DOMAIN broker' /\ broker'[a] = broker[a]
      BY <1>3, <1>4, <2>2, AppendKeeps
    <3>4. CASE taken[i] \in spanOk /\ taken[j] \in spanOk
      BY <3>3, <3>4 DEF AckedInOrder, Acked
    <3>5. CASE taken[j] = m /\ taken[i] \in spanOk
      <4>1. PICK a \in DOMAIN broker : broker[a] = taken[i]
        BY <1>3, <3>5 DEF AckedInOrder, Acked
      <4>2. QED BY <3>2, <3>3, <3>5, <4>1
    <3>6. CASE taken[j] = m /\ taken[i] = m
      BY <3>2, <3>6
    <3>7. CASE taken[i] = m /\ taken[j] # m
      <4>1. i = newest
        BY <1>4, <3>7 DEF TakenOnce, IsInjective
      <4>2. QED BY <1>3, <1>4, <3>7, <4>1
    <3>8. QED BY <3>1, <3>4, <3>5, <3>6, <3>7
  <2>3. QED BY <1>6, <2>1, <2>2
<1>12. QED BY <1>8, <1>9, <1>10, <1>11

\* A frame of a session that is over reaches the exchange late, once.
LEMMA BrokerLateStep ==
  ASSUME PublishInv, NEW m \in Msg, BrokerLate(m)
  PROVE  /\ TakenOnce' /\ SpansTaken' /\ OnePlace' /\ AtMostOnce'
         /\ OneAtATime' /\ AckedInOrder'
<1> USE DEF PublishInv
<1>1. /\ m \in late /\ late' = late \ {m}
      /\ UNCHANGED <<loop, send, taken, reading, pending, body, confirm, inflight, spanOk>>
      /\ broker' = broker \/ broker' = Append(broker, m)
  BY Zenon DEF BrokerLate, sessionVars, slots
<1>2. broker \in Seq(Msg)
  BY DEF TypeOK
<1>3. ToSet(broker') \subseteq ToSet(broker) \cup {m}
  BY <1>1, <1>2, ToSetAppend, ZenonT(30)
<1>4. TakenOnce' /\ SpansTaken' /\ OnePlace'
  BY <1>1, <1>3 DEF TakenOnce, SpansTaken, OnePlace
<1>5. AtMostOnce'
  BY <1>1, <1>2, InjectiveAppend DEF AtMostOnce, OnePlace
<1>6. OneAtATime'
  BY <1>1 DEF OneAtATime
<1>7. \A a \in DOMAIN broker : a \in DOMAIN broker' /\ broker'[a] = broker[a]
  BY <1>1, <1>2, AppendKeeps
<1>8. AckedInOrder'
  BY <1>1, <1>7 DEF AckedInOrder, Acked
<1>9. QED BY <1>4, <1>5, <1>6, <1>8

\* Every step of the publishing loop keeps the invariant.
LEMMA StepInv == PublishInv /\ [Next]_vars => PublishInv'
<1> SUFFICES ASSUME PublishInv, [Next]_vars PROVE PublishInv' OBVIOUS
<1>1. TypeOK'
  BY TypeStep DEF PublishInv
<1> DEFINE Rest == /\ TakenOnce /\ SpansTaken /\ OnePlace /\ AtMostOnce
                   /\ OneAtATime /\ AckedInOrder
<1>2. CASE UNCHANGED vars
  <2>1. Rest'
    BY <1>2, QuietStep DEF vars, sessionVars
  <2>2. QED BY <1>1, <2>1 DEF PublishInv
<1>3. CASE (SessionStep \/ SessionFault) /\ Keep
  <2>1. Rest'
    BY <1>3, QuietStep, SessionQuiet DEF Keep
  <2>2. QED BY <1>1, <2>1 DEF PublishInv
<1>4. ASSUME NEW m \in Msg, PublishInventory(m) PROVE PublishInv'
  <2>1. \A n \in Msg : send'[n] = "sent" <=> send[n] = "sent"
    BY <1>4 DEF PublishInventory, PublishInv, TypeOK
  <2>2. Rest'
    BY <1>4, <2>1, QuietStep DEF PublishInventory, sessionVars
  <2>3. QED BY <1>1, <2>2 DEF PublishInv
<1>5. CASE Step
  <2>1. Rest'
    BY <1>3, <1>5, OpenStep, ReadStep, PublishOkStep, LeaveStep, ConfirmedStep, BrokerAnswersStep,
       BrokerLateStep DEF Step, PublishInv
  <2>2. QED BY <1>1, <2>1 DEF PublishInv
<1>6. QED BY <1>2, <1>3, <1>4, <1>5 DEF Next

-----------------------------------------------------------------------------
(* The publishing loop by itself *)

\* The publisher's invariant always holds.
LEMMA PublishInvariant == Spec => []PublishInv
BY InitInv, StepInv, PTL DEF Spec

\* Types of the publishing loop: a session never has more than one message in
\* its slots, on its way, or waiting for its confirmation to be read.
THEOREM TypeCorrect == Spec => []TypeOK
<1>1. PublishInv => TypeOK
  BY DEF PublishInv
<1>2. QED BY <1>1, PublishInvariant, PTL

\* No message reaches the exchange twice, however often the connection breaks.
THEOREM PublishedAtMostOnce == Spec => []AtMostOnce
<1>1. PublishInv => AtMostOnce
  BY DEF PublishInv
<1>2. QED BY <1>1, PublishInvariant, PTL

\* Spans end Ok for messages the exchange has, in the order they were sent.
THEOREM ConfirmationsInOrder == Spec => []ConfirmedInOrder
<1>1. PublishInv => ConfirmedInOrder
  BY DEF PublishInv, AckedInOrder, Acked, ConfirmedInOrder
<1>2. QED BY <1>1, PublishInvariant, PTL
-----------------------------------------------------------------------------
(* The product queue: the parts of its inductive invariant *)

QueueTypeOK ==
  /\ queue \in Seq(DOMAIN Inbound)
  /\ of \in [Msg -> Nat]
  /\ cur = <<>> \/ \E d \in Msg : cur = <<d>> /\ of[d] \in DOMAIN Inbound

\* The loop is past its channel send only with a message the handler received.
AckAfterHandOver == cur # <<>> /\ acking => of[cur[1]] \in handled

\* The inductive invariant of the whole
QueueInv == PublishInv /\ QueueTypeOK /\ AckAfterHandOver /\ HandledBeforeForgotten
-----------------------------------------------------------------------------
(* The dead-letter loop in the product queue *)

\* A step outside the loop counts a fault or has the handler wait at its channel.
LEMMA OutsideStep ==
  ASSUME PublishInv, faults' \in 0 .. MaxFaults,
         UNCHANGED <<ctxDone, factory, loop, conn, taken, slots, wire, spanOk, failed>>,
         \/ send' = send
         \/ \E d \in Msg : send[d] = "idle" /\ send' = [send EXCEPT ![d] = "blocked"]
  PROVE  PublishInv'
<1>1. SessionTypeOK'
  <2>1. SessionTypeOK
    BY DEF PublishInv, TypeOK
  <2>2. QED BY <2>1 DEF SessionTypeOK
<1>2. /\ send' \in [Msg -> {"idle", "blocked", "sent"}]
      /\ \A m \in Msg : send'[m] = "sent" <=> send[m] = "sent"
  BY DEF PublishInv, TypeOK
<1>3. TypeOK'
  BY <1>1, <1>2 DEF PublishInv, TypeOK, slots, wire
<1>4. QED BY <1>2, <1>3, QuietStep DEF PublishInv

\* Failures stay within their bound.
LEMMA FaultsCounted == SessionTypeOK /\ (Fault \/ UNCHANGED faults) => faults' \in 0 .. MaxFaults
BY SessionAssumption DEF SessionTypeOK, Fault

\* In the product queue the dead-letter loop keeps the publisher's invariant.
LEMMA LoopInQueue == PublishInv /\ [QNext]_qVars => PublishInv'
<1> SUFFICES ASSUME PublishInv, [QNext]_qVars PROVE PublishInv' OBVIOUS
<1>0. SessionTypeOK
  BY DEF PublishInv, TypeOK
<1>1. CASE UNCHANGED vars
  BY <1>1, StepInv
<1>2. CASE DltStep
  BY <1>2, StepInv DEF DltStep, Next
<1>3. CASE SessionFault /\ Keep
  BY <1>3, StepInv DEF Next
<1>4. CASE UNCHANGED <<ctxDone, pubVars>> /\ (Fault \/ UNCHANGED faults)
  BY <1>0, <1>4, FaultsCounted, OutsideStep DEF pubVars
<1>5. CASE SubStep
  <2>1. CASE Sub!SessionStep /\ UNCHANGED <<pubVars, consumer, ready>>
    <3>1. UNCHANGED <<ctxDone, faults>>
      BY <2>1 DEF Sub!SessionStep, Sub!Offer, Sub!DialOk, Sub!DialAgain, Sub!FactoryStops,
                  Sub!RangeEnds, Sub!ConnDown
    <3>2. QED BY <1>4, <2>1, <3>1
  <2>2. CASE SubOpen \/ SubLeave
    BY <1>4, <2>2 DEF SubOpen, SubLeave, Sub!HandOver, Sub!Leave
  <2>3. CASE ConsumeFails
    BY <1>4, <2>3 DEF ConsumeFails
  <2>4. CASE (\E d \in Msg : Deliver(d)) \/ HandToHandler \/ Ack
    BY <1>1, <2>4 DEF Deliver, HandToHandler, Ack
  <2>5. QED BY <1>5, <2>1, <2>2, <2>3, <2>4 DEF SubStep
<1>6. CASE HandlerStep
  <2>1. CASE \E d \in Msg : HandleProduct(d) \/ DltTaken(d)
    BY <1>1, <2>1 DEF HandleProduct, DltTaken
  <2>2. CASE \E d \in Msg : SendToDlt(d)
    <3>1. PICK d \in Msg : SendToDlt(d)
      BY <2>2
    <3>2. Fault \/ UNCHANGED faults
      BY <3>1 DEF SendToDlt
    <3>3. /\ send[d] = "idle" /\ send' = [send EXCEPT ![d] = "blocked"]
          /\ UNCHANGED <<ctxDone, factory, loop, conn, taken, slots, wire, spanOk, failed>>
      BY <3>1 DEF SendToDlt, Working
    <3>4. QED BY <1>0, <3>2, <3>3, FaultsCounted, OutsideStep
  <2>3. QED BY <1>6, <2>1, <2>2 DEF HandlerStep
<1>7. CASE Age
  BY <1>1, <1>7 DEF Age
<1>8. CASE (Sub!DialFails \/ Sub!ConnBreaks) /\ UNCHANGED <<pubVars, consumer, ready>>
  <2>1. UNCHANGED ctxDone /\ Fault
    BY <1>8 DEF Sub!DialFails, Sub!ConnBreaks, Sub!Fault, Fault
  <2>2. QED BY <1>4, <1>8, <2>1
<1>9. QED BY <1>1, <1>2, <1>3, <1>5, <1>6, <1>7, <1>8 DEF QNext, qVars

-----------------------------------------------------------------------------
(* Deliveries of the product queue *)

\* A sequence is its head and its tail.
LEMMA HeadAndTail ==
  ASSUME NEW S, NEW s \in Seq(S), s # <<>>
  PROVE  Head(s) \in S /\ Tail(s) \in Seq(S) /\ ToSet(s) = ToSet(Tail(s)) \cup {Head(s)}
<1>1. /\ Len(s) \in Nat \ {0} /\ DOMAIN s = 1 .. Len(s) /\ Head(s) = s[1]
      /\ Tail(s) \in Seq(S) /\ DOMAIN Tail(s) = 1 .. Len(s) - 1
      /\ \A i \in 1 .. Len(s) - 1 : Tail(s)[i] = s[i + 1]
  OBVIOUS
<1>2. \A x : x \in ToSet(s) <=> \E i \in 1 .. Len(s) : x = s[i]
  BY <1>1 DEF ToSet
<1>3. \A x : x \in ToSet(Tail(s)) <=> \E i \in 1 .. Len(s) - 1 : x = s[i + 1]
  BY <1>1 DEF ToSet
<1>4. ASSUME NEW i \in 1 .. Len(s) PROVE s[i] \in ToSet(Tail(s)) \cup {Head(s)}
  <2>1. i = 1 \/ (i - 1 \in 1 .. Len(s) - 1 /\ i = (i - 1) + 1)
    BY <1>1
  <2>2. QED BY <1>1, <1>3, <2>1
<1>5. ASSUME NEW i \in 1 .. Len(s) - 1 PROVE s[i + 1] \in ToSet(s)
  <2>1. i + 1 \in 1 .. Len(s)
    BY <1>1
  <2>2. QED BY <1>2, <2>1
<1>6. Head(s) \in ToSet(s)
  BY <1>1, <1>2
<1>7. Head(s) \in S
  BY <1>1
<1>8. QED BY <1>1, <1>2, <1>3, <1>4, <1>5, <1>6, <1>7

\* A message put back at the front of a queue loses no other.
LEMMA ToSetPrepend ==
  ASSUME NEW S, NEW s \in Seq(S), NEW m \in S
  PROVE  <<m>> \o s \in Seq(S) /\ ToSet(s) \subseteq ToSet(<<m>> \o s)
<1>1. /\ <<m>> \o s \in Seq(S) /\ Len(s) \in Nat /\ DOMAIN s = 1 .. Len(s)
      /\ DOMAIN (<<m>> \o s) = 1 .. Len(s) + 1
      /\ \A i \in 1 .. Len(s) : (<<m>> \o s)[i + 1] = s[i]
  OBVIOUS
<1>2. ASSUME NEW i \in DOMAIN s PROVE s[i] \in ToSet(<<m>> \o s)
  <2>1. i + 1 \in DOMAIN (<<m>> \o s) /\ (<<m>> \o s)[i + 1] = s[i]
    BY <1>1
  <2>2. QED BY <2>1 DEF ToSet
<1>3. QED BY <1>1, <1>2 DEF ToSet

\* At first every message is in the queue, and the loops are idle.
LEMMA QueueInit == QInit => QueueInv
<1> SUFFICES ASSUME QInit PROVE QueueInv OBVIOUS
<1>1. PublishInv
  BY InitInv DEF QInit
<1>2. Inbound \in Seq(Raw) /\ DOMAIN Inbound = 1 .. Len(Inbound) /\ Len(Inbound) \in Nat
  BY QueueAssumption
<1>3. queue = [i \in DOMAIN Inbound |-> i] /\ of = [d \in Msg |-> 0] /\ cur = <<>>
  BY DEF QInit
<1>4. queue \in Seq(DOMAIN Inbound)
  BY <1>2, <1>3
<1>5. QueueTypeOK
  BY <1>3, <1>4 DEF QueueTypeOK
<1>6. \A i \in DOMAIN Inbound : i \in ToSet(queue)
  BY <1>2, <1>3 DEF ToSet
<1>7. AckAfterHandOver /\ HandledBeforeForgotten
  BY <1>3, <1>6 DEF AckAfterHandOver, HandledBeforeForgotten, Owned
<1>8. QED BY <1>1, <1>5, <1>7 DEF QueueInv

\* Steps that leave the deliveries alone
LEMMA DeliveriesKept ==
  ASSUME QueueTypeOK, AckAfterHandOver, HandledBeforeForgotten,
         UNCHANGED <<queue, of, cur, acking, handled>>
  PROVE  QueueTypeOK' /\ AckAfterHandOver' /\ HandledBeforeForgotten'
<1>1. QueueTypeOK' /\ AckAfterHandOver'
  BY DEF QueueTypeOK, AckAfterHandOver
<1>2. HandledBeforeForgotten'
  BY DEF HandledBeforeForgotten, Owned
<1>3. QED BY <1>1, <1>2

\* A message leaves the queue for the loop, and the loop for good only after
\* the hand-over.
LEMMA DeliveryStep ==
  ASSUME QueueTypeOK, AckAfterHandOver, HandledBeforeForgotten, [QNext]_qVars
  PROVE  QueueTypeOK' /\ AckAfterHandOver' /\ HandledBeforeForgotten'
<1>1. CASE UNCHANGED <<queue, of, cur, acking, handled>>
  BY <1>1, DeliveriesKept
<1>2. ASSUME NEW d \in Msg, Deliver(d)
      PROVE  QueueTypeOK' /\ AckAfterHandOver' /\ HandledBeforeForgotten'
  <2>1. /\ queue \in Seq(DOMAIN Inbound) /\ queue # <<>> /\ cur = <<>>
        /\ of' = [of EXCEPT ![d] = Head(queue)] /\ queue' = Tail(queue)
        /\ cur' = <<d>> /\ handled' = handled /\ of \in [Msg -> Nat]
    BY <1>2 DEF Deliver, QueueTypeOK
  <2>2. ~acking'
    BY <1>2 DEF Deliver
  <2>3. /\ Head(queue) \in DOMAIN Inbound /\ Tail(queue) \in Seq(DOMAIN Inbound)
        /\ ToSet(queue) = ToSet(queue') \cup {Head(queue)}
    BY <2>1, HeadAndTail
  <2>4. Head(queue) \in Nat
    BY <2>3, QueueAssumption
  <2>5. of' \in [Msg -> Nat] /\ of'[d] = Head(queue)
    BY <2>1, <2>4
  <2>6. QueueTypeOK' /\ AckAfterHandOver'
    BY <2>1, <2>2, <2>3, <2>5 DEF QueueTypeOK, AckAfterHandOver
  <2>7. HandledBeforeForgotten'
    <3>1. ToSet(cur) = {} /\ ToSet(cur') = {d}
      BY <2>1, ToSetEmpty, ToSetOne
    <3>2. QED BY <2>1, <2>3, <2>5, <3>1 DEF HandledBeforeForgotten, Owned
  <2>8. QED BY <2>6, <2>7
<1>3. CASE HandToHandler
  <2>1. UNCHANGED <<queue, of, cur>> /\ handled' = handled \cup {of[cur[1]]}
    BY <1>3 DEF HandToHandler
  <2>2. QueueTypeOK' /\ AckAfterHandOver'
    BY <2>1 DEF QueueTypeOK, AckAfterHandOver
  <2>3. HandledBeforeForgotten'
    BY <2>1 DEF HandledBeforeForgotten, Owned
  <2>4. QED BY <2>2, <2>3
<1>4. CASE Ack
  <2>1. /\ cur # <<>> /\ cur' = <<>> /\ UNCHANGED <<of, handled>>
        /\ queue' = IF subConn = "up" THEN queue ELSE <<of[cur[1]]>> \o queue
    BY <1>4 DEF Ack
  <2>2. PICK d \in Msg : cur = <<d>> /\ of[d] \in DOMAIN Inbound
    BY <2>1 DEF QueueTypeOK
  <2>3. of[d] \in handled
    BY <1>4, <2>2 DEF Ack, AckAfterHandOver
  <2>4. queue' \in Seq(DOMAIN Inbound) /\ ToSet(queue) \subseteq ToSet(queue')
    BY <2>1, <2>2, ToSetPrepend DEF QueueTypeOK
  <2>5. QueueTypeOK' /\ AckAfterHandOver'
    BY <2>1, <2>4 DEF QueueTypeOK, AckAfterHandOver
  <2>6. HandledBeforeForgotten'
    BY <2>1, <2>2, <2>3, <2>4, ToSetOne DEF HandledBeforeForgotten, Owned
  <2>7. QED BY <2>5, <2>6
<1>5. QED
  <2>1. \/ UNCHANGED <<queue, of, cur, acking, handled>>
        \/ (\E d \in Msg : Deliver(d)) \/ HandToHandler \/ Ack
    BY DEF QNext, qVars, consumer, DltStep, SubStep, SubOpen, ConsumeFails, SubLeave, Age,
           HandlerStep, HandleProduct, DltTaken, SendToDlt
  <2>2. QED BY <1>1, <1>2, <1>3, <1>4, <2>1

\* The invariant of the product queue always holds.
LEMMA QueueInvariant == QSpec => []QueueInv
<1>1. QueueInv /\ [QNext]_qVars => QueueInv'
  BY LoopInQueue, DeliveryStep DEF QueueInv
<1>2. QED BY QueueInit, <1>1, PTL DEF QSpec

-----------------------------------------------------------------------------
(* The product queue and its dead-letter loop *)

\* No product message is lost before the handler has it, however often the
\* subscription's connection breaks around hand-over and acknowledgement
\* (queue.go 444-448).
THEOREM NothingForgotten == QSpec => []HandledBeforeForgotten
<1>1. QueueInv => HandledBeforeForgotten
  BY DEF QueueInv
<1>2. QED BY <1>1, QueueInvariant, PTL

\* The dead-letter loop keeps its promises when it is fed by the handler: a
\* dead letter reaches its exchange at most once, and spans that ended Ok are in
\* order (transport_queue.go 139-155, 199-240).
THEOREM DeadLettersAtMostOnce == QSpec => [](AtMostOnce /\ ConfirmedInOrder)
<1>1. QueueInv => AtMostOnce /\ ConfirmedInOrder
  BY DEF QueueInv, PublishInv, AckedInOrder, Acked, ConfirmedInOrder
<1>2. QED BY <1>1, QueueInvariant, PTL
=============================================================================
