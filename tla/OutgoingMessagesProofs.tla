----------------------- MODULE OutgoingMessagesProofs -----------------------
(***************************************************************************)
(* Proofs about OutgoingMessages, for any messages, sockets and bounds.    *)
(***************************************************************************)
EXTENDS OutgoingMessages, FiniteSetTheorems, TLAPS

USE OutgoingAssumption

-----------------------------------------------------------------------------
(* One flush at a time.                                                      *)

FlushInv ==
    \/ flushing = FALSE /\ flushes = <<>>
    \/ flushing = TRUE /\ \E m \in Messages : flushes = <<m>>

LEMMA RemoveOnly ==
    ASSUME NEW m \in Messages
    PROVE  /\ DOMAIN <<m>> = {1}
           /\ RemoveAt(<<m>>, 1) = <<>>
BY DEF RemoveAt

LEMMA AppendOnly ==
    ASSUME NEW m
    PROVE  Append(<<>>, m) = <<m>>
OBVIOUS

LEMMA QueueParts ==
    ASSUME queue \in Seq(Messages), queue # <<>>
    PROVE  /\ Head(queue) \in Messages
           /\ Tail(queue) \in Seq(Messages)
OBVIOUS
-----------------------------------------------------------------------------
(* Type correctness.                                                         *)

ConnOK ==
    /\ connected \in BOOLEAN
    /\ sockets \in [Sockets -> {"none", "connecting", "open"}]
    /\ sock \in Sockets \cup {NoSocket}
    /\ attempts \in [Kinds -> Nat]
    /\ timers \in Nat
    /\ ended \in Nat
    /\ reopens \in Nat

QueueOK ==
    /\ queue \in Seq(Messages)
    /\ FlushInv
    /\ sending \subseteq Messages

FilesOK ==
    /\ files \subseteq Messages
    /\ watcher \in Messages \cup {NoMessage}

PastOK ==
    /\ received \in [Messages -> Nat]
    /\ lost \subseteq Messages
    /\ uncertain \subseteq Messages
    /\ unsent \subseteq Messages
    /\ restarts \in Nat

TypeInv == ConnOK /\ QueueOK /\ FilesOK /\ PastOK

LEMMA TypeInvImplies == TypeInv => TypeOK
<1>1. FlushInv => flushing \in BOOLEAN
  BY DEF FlushInv
<1>2. FlushInv => flushes \in Seq(Messages)
  <2>1. \A m \in Messages : <<m>> \in Seq(Messages)
    OBVIOUS
  <2>2. <<>> \in Seq(Messages)
    OBVIOUS
  <2> QED BY <2>1, <2>2 DEF FlushInv
<1> QED BY <1>1, <1>2 DEF TypeInv, ConnOK, QueueOK, FilesOK, PastOK, TypeOK

LEMMA SentTypes ==
    ASSUME QueueOK, NEW m \in Messages, SendMessage(m), UNCHANGED <<flushing, flushes>>
    PROVE  QueueOK'
BY DEF QueueOK, SendMessage, FlushInv

LEMMA ReturnsTypes ==
    ASSUME QueueOK, FilesOK, NEW m \in Messages, Returns(m),
           UNCHANGED <<flushing, flushes>>,
           queue' = queue \/ queue' = Append(queue, m)
    PROVE  QueueOK' /\ FilesOK'
BY DEF QueueOK, FilesOK, Returns, FlushInv, fileVars

LEMMA ReceiveTypes ==
    ASSUME PastOK, NEW m \in Messages, Receive(m)
    PROVE  received' \in [Messages -> Nat]
<1>1. received[m] + 1 \in Nat
  BY DEF PastOK
<1> QED BY <1>1 DEF Receive, PastOK

LEMMA RejectedTypes ==
    ASSUME PastOK, NEW m \in Messages, Rejected(m)
    PROVE  received' \in [Messages -> Nat] /\ uncertain' \subseteq Messages
BY ReceiveTypes DEF Rejected, PastOK

LEMMA FlushTypes ==
    ASSUME QueueOK, StartFlush, UNCHANGED sending
    PROVE  QueueOK'
<1>1. CASE UNCHANGED <<queue, flushing, flushes>>
  BY <1>1 DEF QueueOK, FlushInv
<1>2. CASE /\ flushing = FALSE /\ queue # <<>> /\ flushing' = TRUE
           /\ flushes' = Append(flushes, Head(queue)) /\ queue' = Tail(queue)
  <2>1. flushes' = <<Head(queue)>>
    BY <1>2, AppendOnly DEF QueueOK, FlushInv
  <2> QED BY <1>2, <2>1, QueueParts DEF QueueOK, FlushInv
<1>3. flushing \in BOOLEAN
  BY DEF QueueOK, FlushInv
<1> QED BY <1>1, <1>2, <1>3 DEF StartFlush

\* What a step of the flush finds.
LEMMA OneFlush ==
    ASSUME QueueOK, NEW i \in DOMAIN flushes
    PROVE  /\ i = 1 /\ flushing = TRUE
           /\ flushes[1] \in Messages
           /\ flushes = <<flushes[1]>>
           /\ RemoveAt(flushes, i) = <<>>
<1>1. flushes # <<>>
  OBVIOUS
<1>2. PICK m \in Messages : flushes = <<m>> /\ flushing = TRUE
  BY <1>1 DEF QueueOK, FlushInv
<1>3. i = 1 /\ flushes[1] = m
  BY <1>2, RemoveOnly
<1> QED BY <1>2, <1>3, RemoveOnly

LEMMA SocketTypes ==
    ASSUME ConnOK
    PROVE  /\ \A s \in Sockets, x \in {"none", "connecting", "open"} :
                 [sockets EXCEPT ![s] = x]
                     \in [Sockets -> {"none", "connecting", "open"}]
           /\ \A k \in Kinds : /\ attempts[k] \in Nat
                               /\ [attempts EXCEPT ![k] = @ + 1] \in [Kinds -> Nat]
                               /\ attempts[k] > 0 =>
                                     [attempts EXCEPT ![k] = @ - 1] \in [Kinds -> Nat]
<1>1. ASSUME NEW k \in Kinds
      PROVE  /\ attempts[k] \in Nat
             /\ attempts[k] + 1 \in Nat
             /\ attempts[k] > 0 => attempts[k] - 1 \in Nat
  BY <1>1 DEF ConnOK
<1> QED BY <1>1 DEF ConnOK

LEMMA TypeInvStep == TypeInv /\ [Next]_vars => TypeInv'
<1> SUFFICES ASSUME TypeInv, [Next]_vars PROVE TypeInv'
  OBVIOUS
<1>0. ConnOK /\ QueueOK /\ FilesOK /\ PastOK
  BY DEF TypeInv
<1>k. {"first", "again", "last"} = Kinds
  BY DEF Kinds
<1>a. UNCHANGED connVars => ConnOK'
  BY <1>0 DEF connVars, ConnOK
<1>b. UNCHANGED queueVars => QueueOK'
  BY <1>0 DEF queueVars, QueueOK, FlushInv
<1>c. UNCHANGED fileVars => FilesOK'
  BY <1>0 DEF fileVars, FilesOK
<1>d. UNCHANGED <<pastVars, unsent, restarts>> => PastOK'
  BY <1>0 DEF pastVars, PastOK
<1>1. ASSUME NEW m \in Messages, HostSends(m)
      PROVE  TypeInv'
  <2>1. QueueOK'
    BY <1>0, <1>1, SentTypes DEF HostSends
  <2>2. PastOK'
    BY <1>0, <1>1 DEF HostSends, PastOK, pastVars
  <2> QED BY <1>1, <1>a, <1>c, <2>1, <2>2 DEF HostSends, TypeInv
<1>2. ASSUME NEW m \in Messages, AgentWrites(m)
      PROVE  TypeInv'
  <2>1. FilesOK' /\ PastOK'
    BY <1>0, <1>2 DEF AgentWrites, FilesOK, PastOK, pastVars
  <2> QED BY <1>2, <1>a, <1>b, <2>1 DEF AgentWrites, TypeInv
<1>3. ASSUME NEW m \in Messages, WatcherSends(m)
      PROVE  TypeInv'
  <2>1. QueueOK'
    BY <1>0, <1>3, SentTypes DEF WatcherSends
  <2>2. FilesOK'
    BY <1>0, <1>3 DEF WatcherSends, FilesOK
  <2> QED BY <1>3, <1>a, <1>d, <2>1, <2>2 DEF WatcherSends, TypeInv
<1>3d. ASSUME NEW m \in Messages, WatcherDrops(m)
       PROVE  TypeInv'
  <2>1. FilesOK' /\ PastOK'
    BY <1>0, <1>3d DEF WatcherDrops, FilesOK, PastOK
  <2> QED BY <1>3d, <1>a, <1>b, <2>1 DEF WatcherDrops, TypeInv
<1>4. ASSUME NEW m \in Messages, SendSucceeds(m)
      PROVE  TypeInv'
  <2>1. QueueOK' /\ FilesOK'
    BY <1>0, <1>4, ReturnsTypes DEF SendSucceeds
  <2>2. PastOK'
    BY <1>0, <1>4, ReceiveTypes DEF SendSucceeds, PastOK
  <2> QED BY <1>4, <1>a, <2>1, <2>2 DEF SendSucceeds, TypeInv
<1>5. ASSUME NEW m \in Messages, SendFails(m)
      PROVE  TypeInv'
  <2>1. QueueOK' /\ FilesOK'
    BY <1>0, <1>5, ReturnsTypes DEF SendFails
  <2>2. PastOK'
    BY <1>0, <1>5, RejectedTypes DEF SendFails, PastOK
  <2> QED BY <1>5, <1>a, <2>1, <2>2 DEF SendFails, TypeInv
<1>6. ASSUME NEW i \in DOMAIN flushes, FlushSucceeds(i)
      PROVE  TypeInv'
  <2>1. i = 1 /\ flushes[1] \in Messages /\ RemoveAt(flushes, i) = <<>>
        /\ flushing = TRUE
    BY <1>0, OneFlush
  <2>2. QueueOK'
    <3>1. CASE queue = <<>>
      BY <1>0, <1>6, <2>1, <3>1 DEF FlushSucceeds, QueueOK, FlushInv
    <3>2. CASE queue # <<>>
      <4>1. /\ flushes' = Append(<<>>, Head(queue)) /\ queue' = Tail(queue)
            /\ flushing' = TRUE /\ sending' = sending
        BY <1>6, <2>1, <3>2 DEF FlushSucceeds
      <4>2. Head(queue) \in Messages /\ Tail(queue) \in Seq(Messages)
        BY <1>0, <3>2, QueueParts DEF QueueOK
      <4> QED BY <1>0, <4>1, <4>2, AppendOnly DEF QueueOK, FlushInv
    <3> QED BY <3>1, <3>2
  <2>3. PastOK'
    BY <1>0, <1>6, <2>1, ReceiveTypes DEF FlushSucceeds, PastOK
  <2> QED BY <1>6, <1>a, <1>c, <2>2, <2>3 DEF FlushSucceeds, TypeInv
<1>7. ASSUME NEW i \in DOMAIN flushes, FlushFails(i)
      PROVE  TypeInv'
  <2>1. i = 1 /\ flushes[1] \in Messages /\ RemoveAt(flushes, i) = <<>>
    BY <1>0, OneFlush
  <2>2. QueueOK'
    BY <1>0, <1>7, <2>1 DEF FlushFails, QueueOK, FlushInv
  <2>3. PastOK'
    BY <1>0, <1>7, <2>1, RejectedTypes DEF FlushFails, PastOK
  <2> QED BY <1>7, <1>a, <1>c, <2>2, <2>3 DEF FlushFails, TypeInv
<1>8. ASSUME NEW k \in Kinds, Connects(k) \/ ConnectFails(k)
      PROVE  TypeInv'
  <2>1. ConnOK'
    BY <1>0, <1>8, SocketTypes DEF Connects, ConnectFails, ConnOK, Live
  <2> QED BY <1>8, <1>b, <1>c, <1>d, <2>1 DEF Connects, ConnectFails, TypeInv
<1>9. CASE TimerFires
  <2>1. ConnOK'
    BY <1>0, <1>9, <1>k, SocketTypes DEF TimerFires, ConnOK
  <2> QED BY <1>9, <1>b, <1>c, <1>d, <2>1 DEF TimerFires, TypeInv
<1>10. ASSUME NEW s \in Sockets, Opens(s)
       PROVE  TypeInv'
  <2>1. ConnOK'
    BY <1>0, <1>10, SocketTypes DEF Opens, ConnOK
  <2>2. QueueOK'
    BY <1>0, <1>10, FlushTypes DEF Opens
  <2> QED BY <1>10, <1>c, <1>d, <2>1, <2>2 DEF Opens, TypeInv
<1>11. ASSUME NEW s \in Sockets, Closes(s)
       PROVE  TypeInv'
  <2>1. attempts' \in [Kinds -> Nat] /\ ended' \in Nat
    <3>1. CASE attempts' = [attempts EXCEPT !["again"] = @ + 1] /\ UNCHANGED ended
      BY <1>0, <1>k, <3>1, SocketTypes DEF ConnOK
    <3>2. CASE ended' = ended + 1 /\ UNCHANGED attempts
      BY <1>0, <3>2 DEF ConnOK
    <3> QED BY <1>11, <3>1, <3>2 DEF Closes
  <2>2. ConnOK'
    BY <1>0, <1>11, <2>1, SocketTypes DEF Closes, ConnOK
  <2> QED BY <1>11, <1>b, <1>c, <1>d, <2>2 DEF Closes, TypeInv
<1>12. CASE ReopenChannel
  <2>1. attempts' \in [Kinds -> Nat]
    <3>1. /\ attempts["again"] + 1 \in Nat /\ attempts["first"] + 1 \in Nat
      BY <1>0, <1>k DEF ConnOK
    <3>2. CASE attempts' = [attempts EXCEPT !["again"] = @ + 1, !["first"] = @ + 1]
      BY <1>0, <1>k, <3>1, <3>2 DEF ConnOK
    <3>3. CASE attempts' = [attempts EXCEPT !["first"] = @ + 1]
      BY <1>0, <1>k, <3>1, <3>3 DEF ConnOK
    <3> QED BY <1>12, <3>2, <3>3 DEF ReopenChannel
  <2>2. /\ sockets' \in [Sockets -> {"none", "connecting", "open"}]
        /\ reopens' \in Nat
    <3>1. \A s \in Sockets : [sockets EXCEPT ![s] = "none"]
                                 \in [Sockets -> {"none", "connecting", "open"}]
      BY <1>0, SocketTypes
    <3> QED BY <1>0, <1>12, <3>1 DEF ReopenChannel, ConnOK, Live
  <2>3. ConnOK'
    BY <1>0, <1>12, <2>1, <2>2 DEF ReopenChannel, ConnOK
  <2> QED BY <1>12, <1>b, <1>c, <1>d, <2>3 DEF ReopenChannel, TypeInv
<1>13. CASE HostRestarts
  <2>1. ConnOK'
    BY <1>13 DEF HostRestarts, ConnOK, FirstAttempt
  <2>2. QueueOK' /\ FilesOK'
    BY <1>0, <1>13 DEF HostRestarts, QueueOK, FlushInv, FilesOK
  <2>3. PastOK'
    <3>1. PICK through \in SUBSET (sending \cup {m \in Messages : InFlush(m)}) :
             /\ received' = [m \in Messages |-> IF m \in through THEN received[m] + 1
                                                                 ELSE received[m]]
             /\ uncertain' = uncertain \cup through
      BY <1>13 DEF HostRestarts
    <3>2. \A m \in Messages : received[m] \in Nat /\ received[m] + 1 \in Nat
      BY <1>0 DEF PastOK
    <3>3. received' \in [Messages -> Nat]
      BY <3>1, <3>2
    <3>4. uncertain' \subseteq Messages
      BY <1>0, <3>1 DEF PastOK, QueueOK
    <3>5. /\ lost' \subseteq Messages /\ unsent' = unsent /\ restarts' = restarts + 1
      BY <1>0, <1>13 DEF HostRestarts, PastOK, QueueOK
    <3> QED BY <1>0, <3>3, <3>4, <3>5 DEF PastOK
  <2> QED BY <2>1, <2>2, <2>3 DEF TypeInv
<1>14. CASE UNCHANGED vars
  BY <1>14, <1>a, <1>b, <1>c, <1>d DEF vars, TypeInv
<1> QED BY <1>1, <1>2, <1>3, <1>3d, <1>4, <1>5, <1>6, <1>7, <1>8, <1>9, <1>10, <1>11, <1>12,
           <1>13, <1>14 DEF Next

LEMMA TypeInvariant == Spec => []TypeInv
<1>1. Init => TypeInv
  <2> SUFFICES ASSUME Init PROVE TypeInv
    OBVIOUS
  <2>1. FirstAttempt \in [Kinds -> Nat]
    BY DEF FirstAttempt
  <2>2. ConnOK
    BY <2>1 DEF Init, ConnOK
  <2>3. <<>> \in Seq(Messages)
    OBVIOUS
  <2>4. QueueOK /\ FilesOK
    BY <2>3 DEF Init, QueueOK, FilesOK, FlushInv
  <2>5. PastOK
    BY DEF Init, PastOK
  <2> QED BY <2>2, <2>4, <2>5 DEF TypeInv
<1> QED BY <1>1, TypeInvStep, PTL DEF Spec

\* The connection, the queue, the files and the history keep their types; no
\* two flushes are at work.
THEOREM TypeCorrect == Spec => []TypeOK
BY TypeInvariant, TypeInvImplies, PTL

-----------------------------------------------------------------------------
(* The order of a flush.                                                     *)

LEMMA FlushOrder ==
    ASSUME QueueOK, PastOK, NEW i \in DOMAIN flushes, FlushSucceeds(i) \/ FlushFails(i),
           received' # received
    PROVE  received'[Head(flushes \o queue)] > received[Head(flushes \o queue)]
<1>1. /\ i = 1
      /\ flushes[1] \in Messages
      /\ flushes = <<flushes[1]>>
  BY OneFlush
<1>2. Receive(flushes[1])
  BY <1>1 DEF FlushSucceeds, FlushFails, Rejected
<1>3. received[flushes[1]] \in Nat
  BY <1>1 DEF PastOK
<1>4. received'[flushes[1]] = received[flushes[1]] + 1
  BY <1>1, <1>2 DEF Receive, PastOK
<1>5. Head(flushes \o queue) = flushes[1]
  <2>1. ASSUME NEW m \in Messages PROVE Head(<<m>> \o queue) = m
    BY DEF QueueOK
  <2> QED BY <1>1, <2>1
<1> QED BY <1>3, <1>4, <1>5

\* A flush sends in the order of the queue: what a step of a flush gets
\* through is the first of what waits.
THEOREM FlushInOrder == Spec => InOrder
<1>1. TypeInv /\ [Next]_vars
      => [/\ flushes' # flushes
          /\ received' # received
          /\ restarts' = restarts
          => LET next == Head(flushes \o queue)
             IN  received'[next] > received[next]]_vars
  <2> SUFFICES ASSUME TypeInv, Next, flushes' # flushes, received' # received,
                      restarts' = restarts
               PROVE  received'[Head(flushes \o queue)] > received[Head(flushes \o queue)]
    BY DEF vars, queueVars
  <2>1. ~HostRestarts
    BY DEF HostRestarts, TypeInv, PastOK
  <2>2. \A m \in Messages : ~HostSends(m) /\ ~AgentWrites(m) /\ ~WatcherSends(m)
                           /\ ~WatcherDrops(m)
    BY DEF HostSends, AgentWrites, WatcherSends, WatcherDrops, queueVars
  <2>3. \A m \in Messages : ~SendSucceeds(m) /\ ~SendFails(m)
    BY DEF SendSucceeds, SendFails
  <2>4. \A k \in Kinds : ~Connects(k) /\ ~ConnectFails(k)
    BY DEF Connects, ConnectFails, queueVars
  <2>5. \A s \in Sockets : ~Opens(s) /\ ~Closes(s)
    BY DEF Opens, Closes, queueVars, pastVars
  <2>6. ~TimerFires /\ ~ReopenChannel
    BY DEF TimerFires, ReopenChannel, queueVars
  <2>7. PICK i \in DOMAIN flushes : FlushSucceeds(i) \/ FlushFails(i)
    BY <2>1, <2>2, <2>3, <2>4, <2>5, <2>6 DEF Next
  <2> QED BY <2>7, FlushOrder DEF TypeInv
<1> QED BY <1>1, TypeInvariant, PTL DEF Spec, InOrder

-----------------------------------------------------------------------------
(* The connection: how many sockets, calls and timers carry it on.           *)

LEMMA LiveFinite == IsFiniteSet(Live) /\ Cardinality(Live) \in Nat
<1>1. IsFiniteSet(Live)
  BY FS_Subset DEF Live
<1> QED BY <1>1, FS_CardinalityType

LEMMA LiveGrows ==
    ASSUME ConnOK, NEW s \in Sockets \ Live, sockets' = [sockets EXCEPT ![s] = "connecting"]
    PROVE  Live' = Live \cup {s} /\ Cardinality(Live') = Cardinality(Live) + 1
<1>1. Live' = Live \cup {s}
  BY DEF Live, ConnOK
<1>2. s \notin Live
  OBVIOUS
<1>3. Cardinality(Live \cup {s}) = Cardinality(Live) + 1
  BY <1>2, LiveFinite, FS_AddElement
<1> QED BY <1>1, <1>3

LEMMA LiveShrinks ==
    ASSUME ConnOK, NEW s \in Live, sockets' = [sockets EXCEPT ![s] = "none"]
    PROVE  Live' = Live \ {s} /\ Cardinality(Live') = Cardinality(Live) - 1
<1>1. Live' = Live \ {s}
  BY DEF Live, ConnOK
<1>2. Cardinality(Live \ {s}) = Cardinality(Live) - 1
  BY LiveFinite, FS_RemoveElement
<1> QED BY <1>1, <1>2

LEMMA LiveKept ==
    ASSUME ConnOK, NEW s \in Sockets, sockets[s] = "connecting",
           sockets' = [sockets EXCEPT ![s] = "open"]
    PROVE  Live' = Live
BY DEF Live, ConnOK

LEMMA NoneLive ==
    ASSUME sockets = [s \in Sockets |-> "none"]
    PROVE  Live = {} /\ Cardinality(Live) = 0
<1>1. Live = {}
  BY DEF Live
<1> QED BY <1>1, FS_EmptySet

LEMMA ConnTypes ==
    ASSUME ConnOK
    PROVE  /\ attempts["first"] \in Nat /\ attempts["again"] \in Nat
           /\ attempts["last"] \in Nat /\ timers \in Nat /\ ended \in Nat
           /\ reopens \in Nat
BY DEF ConnOK, Kinds

LEMMA ConnectionsStep ==
    TypeInv /\ ConnectionsExact /\ [Next]_vars => ConnectionsExact'
<1> SUFFICES ASSUME TypeInv, ConnectionsExact, [Next]_vars PROVE ConnectionsExact'
  OBVIOUS
<1>0. ConnOK /\ ConnOK'
  BY TypeInvStep DEF TypeInv
<1>t. /\ attempts["first"] \in Nat /\ attempts["again"] \in Nat
      /\ attempts["last"] \in Nat /\ timers \in Nat /\ ended \in Nat
      /\ reopens \in Nat /\ Cardinality(Live) \in Nat
  BY <1>0, ConnTypes, LiveFinite
<1>a. UNCHANGED connVars => ConnectionsExact'
  BY DEF connVars, ConnectionsExact, Live
<1>k. DOMAIN attempts = {"first", "again", "last"}
  BY <1>0 DEF ConnOK, Kinds
<1>1. ASSUME NEW m \in Messages,
             HostSends(m) \/ AgentWrites(m) \/ WatcherSends(m) \/ WatcherDrops(m)
                \/ SendSucceeds(m) \/ SendFails(m)
      PROVE  ConnectionsExact'
  BY <1>1, <1>a DEF HostSends, AgentWrites, WatcherSends, WatcherDrops, SendSucceeds, SendFails
<1>2. ASSUME NEW i \in DOMAIN flushes, FlushSucceeds(i) \/ FlushFails(i)
      PROVE  ConnectionsExact'
  BY <1>2, <1>a DEF FlushSucceeds, FlushFails
<1>3. ASSUME NEW k \in Kinds, Connects(k)
      PROVE  ConnectionsExact'
  <2>1. Cardinality(Live') = Cardinality(Live) + 1
    BY <1>0, <1>3, LiveGrows DEF Connects
  <2>2. k \in {"first", "again", "last"} /\ attempts' = [attempts EXCEPT ![k] = @ - 1]
        /\ timers' = timers /\ ended' = ended /\ reopens' = reopens
    BY <1>3 DEF Connects, Kinds
  <2> QED BY <1>t, <1>k, <2>1, <2>2 DEF ConnectionsExact
<1>4. ASSUME NEW k \in Kinds, ConnectFails(k)
      PROVE  ConnectionsExact'
  <2>1. Live' = Live
    BY <1>4 DEF ConnectFails, Live
  <2>2. k \in {"first", "again", "last"} /\ attempts' = [attempts EXCEPT ![k] = @ - 1]
        /\ reopens' = reopens
    BY <1>4 DEF ConnectFails, Kinds
  <2>3. CASE timers' = timers + 1 /\ ended' = ended
    BY <1>t, <1>k, <2>1, <2>2, <2>3 DEF ConnectionsExact
  <2>4. CASE timers' = timers /\ ended' = ended + 1
    BY <1>t, <1>k, <2>1, <2>2, <2>4 DEF ConnectionsExact
  <2> QED BY <1>4, <2>3, <2>4 DEF ConnectFails
<1>5. CASE TimerFires
  <2>1. Live' = Live
    BY <1>5 DEF TimerFires, Live
  <2> QED BY <1>t, <1>k, <1>5, <2>1 DEF TimerFires, ConnectionsExact
<1>6. ASSUME NEW s \in Sockets, Opens(s)
      PROVE  ConnectionsExact'
  <2>1. Live' = Live
    BY <1>0, <1>6, LiveKept DEF Opens
  <2> QED BY <1>6, <2>1 DEF Opens, ConnectionsExact
<1>7. ASSUME NEW s \in Sockets, Closes(s)
      PROVE  ConnectionsExact'
  <2>1. Cardinality(Live') = Cardinality(Live) - 1
    BY <1>0, <1>7, LiveShrinks DEF Closes
  <2> QED BY <1>t, <1>k, <1>7, <2>1 DEF Closes, ConnectionsExact
<1>8. CASE ReopenChannel
  <2>1. CASE sock \in Live
    <3>1. Cardinality(Live') = Cardinality(Live) - 1
      BY <1>0, <1>8, <2>1, LiveShrinks DEF ReopenChannel
    <3> QED BY <1>t, <1>k, <1>8, <2>1, <3>1 DEF ReopenChannel, ConnectionsExact
  <2>2. CASE sock \notin Live
    <3>1. Live' = Live
      BY <1>8, <2>2 DEF ReopenChannel, Live
    <3> QED BY <1>t, <1>k, <1>8, <2>2, <3>1 DEF ReopenChannel, ConnectionsExact
  <2> QED BY <2>1, <2>2
<1>9. CASE HostRestarts
  <2>1. Live' = {}
    BY <1>9 DEF HostRestarts, Live
  <2>2. Cardinality(Live') = 0
    BY <2>1, FS_EmptySet
  <2> QED BY <1>9, <2>2 DEF HostRestarts, FirstAttempt, Kinds, ConnectionsExact
<1>10. CASE UNCHANGED vars
  BY <1>10, <1>a DEF vars
<1> QED BY <1>1, <1>2, <1>3, <1>4, <1>5, <1>6, <1>7, <1>8, <1>9, <1>10 DEF Next

LEMMA ConnectionsInvariant == Spec => []ConnectionsExact
<1>1. Init => ConnectionsExact
  BY NoneLive DEF Init, FirstAttempt, Kinds, ConnectionsExact
<1> QED BY <1>1, TypeInvariant, ConnectionsStep, PTL DEF Spec

\* No connection is lost and none is doubled, but for channel restarts: every
\* close and every failed attempt arms exactly one way to go on.
THEOREM ConnectionsStayExact == Spec => []ConnectionsExact
BY ConnectionsInvariant

-----------------------------------------------------------------------------
(* The flag `connected'.                                                     *)

\* As long as the channel was not restarted, the socket that lives is its own.
OwnSocket == reopens = 0 /\ Live # {} => Live = {sock}

LEMMA AtMostOne ==
    ASSUME ConnOK, ConnectionsExact, reopens = 0
    PROVE  /\ \A k \in Kinds : attempts[k] > 0 => Live = {}
           /\ Cardinality(Live) \in {0, 1}
<1>t. /\ attempts["first"] \in Nat /\ attempts["again"] \in Nat
      /\ attempts["last"] \in Nat /\ timers \in Nat /\ ended \in Nat
      /\ reopens \in Nat /\ Cardinality(Live) \in Nat
  BY ConnTypes, LiveFinite
<1>1. \A k \in Kinds : attempts[k] > 0 => Cardinality(Live) = 0
  BY <1>t DEF ConnectionsExact, Kinds
<1>2. Cardinality(Live) \in {0, 1}
  BY <1>t DEF ConnectionsExact
<1> QED BY <1>1, <1>2, LiveFinite, FS_EmptySet

FlagInv == OwnSocket /\ ConnectedIsOpen

LEMMA FlagStep ==
    TypeInv /\ ConnectionsExact /\ FlagInv /\ [Next]_vars => FlagInv'
<1> SUFFICES ASSUME TypeInv, ConnectionsExact, FlagInv, [Next]_vars PROVE FlagInv'
  OBVIOUS
<1>0. ConnOK
  BY DEF TypeInv
<1>a. UNCHANGED <<connected, sockets, sock, reopens>> => FlagInv'
  BY DEF FlagInv, OwnSocket, ConnectedIsOpen, Live, Opened
<1>1. ASSUME NEW m \in Messages,
             HostSends(m) \/ AgentWrites(m) \/ WatcherSends(m) \/ WatcherDrops(m)
                \/ SendSucceeds(m) \/ SendFails(m)
      PROVE  FlagInv'
  BY <1>1, <1>a DEF HostSends, AgentWrites, WatcherSends, WatcherDrops, SendSucceeds, SendFails, connVars
<1>2. ASSUME NEW i \in DOMAIN flushes, FlushSucceeds(i) \/ FlushFails(i)
      PROVE  FlagInv'
  BY <1>2, <1>a DEF FlushSucceeds, FlushFails, connVars
<1>3. ASSUME NEW k \in Kinds, Connects(k)
      PROVE  FlagInv'
  <2> SUFFICES ASSUME reopens = 0 PROVE Live' = {sock'} /\ (connected' <=> sock' \in Opened')
    BY <1>3 DEF FlagInv, OwnSocket, ConnectedIsOpen, Connects
  <2>1. Live = {}
    BY <1>0, <1>3, AtMostOne DEF Connects
  <2>2. ~connected
    BY <2>1 DEF FlagInv, ConnectedIsOpen, Live, Opened
  <2>3. PICK s \in Sockets : sockets' = [sockets EXCEPT ![s] = "connecting"] /\ sock' = s
    BY <1>3 DEF Connects
  <2>4. Live' = {s} /\ s \notin Opened'
    BY <1>0, <2>1, <2>3 DEF ConnOK, Live, Opened
  <2> QED BY <1>0, <1>3, <2>2, <2>3, <2>4 DEF Connects
<1>4. ASSUME NEW k \in Kinds, ConnectFails(k)
      PROVE  FlagInv'
  BY <1>4, <1>a DEF ConnectFails
<1>5. CASE TimerFires
  BY <1>5, <1>a DEF TimerFires
<1>6. ASSUME NEW s \in Sockets, Opens(s)
      PROVE  FlagInv'
  <2> SUFFICES ASSUME reopens = 0 PROVE Live' = {sock'} /\ (connected' <=> sock' \in Opened')
    BY <1>6 DEF FlagInv, OwnSocket, ConnectedIsOpen, Opens
  <2>1. s \in Live
    BY <1>6 DEF Opens, Live
  <2>2. Live = {sock} /\ s = sock
    BY <2>1 DEF FlagInv, OwnSocket
  <2>3. Live' = Live /\ s \in Opened'
    BY <1>0, <1>6 DEF Opens, ConnOK, Live, Opened
  <2> QED BY <1>6, <2>2, <2>3 DEF Opens
<1>7. ASSUME NEW s \in Sockets, Closes(s)
      PROVE  FlagInv'
  <2> SUFFICES ASSUME reopens = 0 PROVE Live' = {} /\ ~connected' /\ sock' \notin Opened'
    BY <1>7 DEF FlagInv, OwnSocket, ConnectedIsOpen, Closes
  <2>1. Live = {s}
    BY <1>7 DEF Closes, FlagInv, OwnSocket
  <2>2. Live' = {}
    BY <1>0, <1>7, <2>1 DEF Closes, ConnOK, Live
  <2>3. sock' \notin Opened'
    BY <2>2 DEF Live, Opened
  <2> QED BY <1>7, <2>2, <2>3 DEF Closes
<1>8. CASE ReopenChannel
  BY <1>0, <1>8 DEF ReopenChannel, ConnOK, FlagInv, OwnSocket, ConnectedIsOpen
<1>9. CASE HostRestarts
  BY <1>9 DEF HostRestarts, FlagInv, OwnSocket, ConnectedIsOpen, Live, Opened
<1>10. CASE UNCHANGED vars
  BY <1>10, <1>a DEF vars, connVars
<1> QED BY <1>1, <1>2, <1>3, <1>4, <1>5, <1>6, <1>7, <1>8, <1>9, <1>10 DEF Next

\* Until the channel is restarted, sendMessage reads from the flag what its
\* socket can do: it hands no message to a socket that is not open and queues
\* none while it is.
THEOREM FlagTellsTheTruth == Spec => []ConnectedIsOpen
<1>1. Init => FlagInv
  BY DEF Init, FlagInv, OwnSocket, ConnectedIsOpen, Live, Opened
<1>2. FlagInv => ConnectedIsOpen
  BY DEF FlagInv
<1> QED BY <1>1, <1>2, FlagStep, TypeInvariant, ConnectionsInvariant, PTL DEF Spec

-----------------------------------------------------------------------------
(* What becomes of a message.                                                *)

Holds(q, m) == \E i \in DOMAIN q : q[i] = m

LEMMA AppendHolds ==
    ASSUME NEW q \in Seq(Messages), NEW m \in Messages, NEW x
    PROVE  Holds(Append(q, m), x) <=> x = m \/ Holds(q, x)
<1>1. Holds(q, x) => Holds(Append(q, m), x)
  BY DEF Holds
<1>2. Holds(Append(q, m), m)
  <2>1. Len(q) + 1 \in DOMAIN Append(q, m) /\ Append(q, m)[Len(q) + 1] = m
    OBVIOUS
  <2> QED BY <2>1 DEF Holds
<1>3. ASSUME Holds(Append(q, m), x), x # m PROVE Holds(q, x)
  <2>1. PICK i \in DOMAIN Append(q, m) : Append(q, m)[i] = x
    BY <1>3 DEF Holds
  <2>2. i \in DOMAIN q /\ q[i] = x
    BY <1>3, <2>1
  <2> QED BY <2>2 DEF Holds
<1> QED BY <1>1, <1>2, <1>3

LEMMA TailHolds ==
    ASSUME NEW q \in Seq(Messages), q # <<>>, NEW x
    PROVE  Holds(q, x) <=> x = Head(q) \/ Holds(Tail(q), x)
<1>1. ASSUME Holds(Tail(q), x) PROVE Holds(q, x)
  <2>1. PICK i \in DOMAIN Tail(q) : Tail(q)[i] = x
    BY <1>1 DEF Holds
  <2>2. i + 1 \in DOMAIN q /\ q[i + 1] = x
    BY <2>1
  <2> QED BY <2>2 DEF Holds
<1>2. Holds(q, Head(q))
  <2>1. 1 \in DOMAIN q /\ q[1] = Head(q)
    OBVIOUS
  <2> QED BY <2>1 DEF Holds
<1>3. ASSUME Holds(q, x), x # Head(q) PROVE Holds(Tail(q), x)
  <2>1. PICK i \in DOMAIN q : q[i] = x
    BY <1>3 DEF Holds
  <2>2. i # 1
    BY <1>3, <2>1
  <2>3. i - 1 \in DOMAIN Tail(q) /\ Tail(q)[i - 1] = x
    BY <2>1, <2>2
  <2> QED BY <2>3 DEF Holds
<1> QED BY <1>1, <1>2, <1>3

LEMMA SingleHolds ==
    ASSUME NEW m, NEW x
    PROVE  Holds(<<m>>, x) <=> x = m
BY DEF Holds

LEMMA EmptyHolds == \A x : ~Holds(<<>>, x)
BY DEF Holds

Distinct(q) == \A i, j \in DOMAIN q : q[i] = q[j] => i = j

LEMMA AppendDistinct ==
    ASSUME NEW q \in Seq(Messages), NEW m \in Messages, Distinct(q), ~Holds(q, m)
    PROVE  Distinct(Append(q, m))
<1>1. DOMAIN Append(q, m) = 1 .. Len(q) + 1 /\ DOMAIN q = 1 .. Len(q) /\ Len(q) \in Nat
  OBVIOUS
<1>2. /\ \A i \in DOMAIN q : Append(q, m)[i] = q[i] /\ q[i] # m
      /\ Append(q, m)[Len(q) + 1] = m
  BY DEF Holds
<1>3. \A i \in DOMAIN Append(q, m) : i \in DOMAIN q \/ i = Len(q) + 1
  BY <1>1
<1> QED BY <1>2, <1>3 DEF Distinct

LEMMA TailDistinct ==
    ASSUME NEW q \in Seq(Messages), q # <<>>, Distinct(q)
    PROVE  Distinct(Tail(q)) /\ ~Holds(Tail(q), Head(q))
<1>1. \A i \in DOMAIN Tail(q) : /\ i \in Int /\ i > 0
                                /\ i + 1 \in DOMAIN q /\ Tail(q)[i] = q[i + 1]
  OBVIOUS
<1>2. 1 \in DOMAIN q /\ q[1] = Head(q)
  OBVIOUS
<1>3. Distinct(Tail(q))
  BY <1>1 DEF Distinct
<1>4. ~Holds(Tail(q), Head(q))
  BY <1>1, <1>2 DEF Distinct, Holds
<1> QED BY <1>3, <1>4

LEMMA HoldsTypes ==
    ASSUME QueueOK
    PROVE  /\ \A x : InQueue(x) <=> Holds(queue, x)
           /\ \A x : InFlush(x) <=> Holds(flushes, x)
           /\ \A x : Holds(queue, x) => x \in Messages
           /\ \A x : Holds(flushes, x) => x \in Messages
<1>1. \A x : Holds(queue, x) => x \in Messages
  BY DEF Holds, QueueOK
<1>2. \A x : Holds(flushes, x) => x \in Messages
  BY SingleHolds, EmptyHolds DEF QueueOK, FlushInv
<1> QED BY <1>1, <1>2 DEF InQueue, InFlush, Holds

\* A message is at one place at most, except that the watcher's is in its file
\* while it is sent; what waits somewhere was not received, or nobody knows.
OnePlace(m) ==
    /\ m \in unsent => m \notin files \cup sending /\ ~Holds(queue, m) /\ ~Holds(flushes, m)
    /\ Holds(queue, m) => m \notin files \cup sending /\ ~Holds(flushes, m)
    /\ Holds(flushes, m) => m \notin files \cup sending
    /\ m \in files \cap sending => watcher = m

Waits(m) ==
    \/ m \in unsent \cup files \cup sending
    \/ Holds(queue, m)
    \/ Holds(flushes, m)

Settled(m) ==
    /\ Waits(m) \/ m \in lost \/ received[m] > 0
    /\ Waits(m) => received[m] = 0 \/ m \in uncertain
    /\ received[m] > 1 => m \in uncertain

MessageInv ==
    /\ \A m \in Messages : OnePlace(m) /\ Settled(m)
    /\ watcher # NoMessage => watcher \in files \cap sending
    /\ Distinct(queue)

\* sendMessage: one message moves to `sending' or to the end of the queue.
LEMMA SendMoves ==
    ASSUME QueueOK, NEW m \in Messages, SendMessage(m), UNCHANGED flushes,
           Distinct(queue), ~Holds(queue, m)
    PROVE  /\ Distinct(queue')
           /\ \A x : Holds(flushes', x) <=> Holds(flushes, x)
           /\ \/ /\ GoesOut
                 /\ sending' = sending \cup {m}
                 /\ \A x : Holds(queue', x) <=> Holds(queue, x)
              \/ /\ ~GoesOut
                 /\ sending' = sending
                 /\ \A x : Holds(queue', x) <=> x = m \/ Holds(queue, x)
<1>1. queue \in Seq(Messages)
  BY DEF QueueOK
<1>2. CASE GoesOut
  BY <1>2 DEF SendMessage
<1>3. CASE ~GoesOut
  <2>1. queue' = Append(queue, m) /\ sending' = sending
    BY <1>3 DEF SendMessage
  <2> QED BY <1>1, <1>3, <2>1, AppendHolds, AppendDistinct
<1> QED BY <1>2, <1>3

\* A step of the flush takes its message away, and the first of the queue to
\* its place.
LEMMA FlushMoves ==
    ASSUME QueueOK, NEW i \in DOMAIN flushes, FlushSucceeds(i), Distinct(queue)
    PROVE  /\ flushes[1] \in Messages
           /\ Distinct(queue')
           /\ \A x : Holds(flushes, x) <=> x = flushes[1]
           /\ \/ \A x : ~Holds(queue, x) /\ ~Holds(queue', x) /\ ~Holds(flushes', x)
              \/ \E h : /\ ~Holds(queue', h)
                        /\ \A x : Holds(queue, x) <=> x = h \/ Holds(queue', x)
                        /\ \A x : Holds(flushes', x) <=> x = h
<1>1. /\ i = 1
      /\ flushes[1] \in Messages
      /\ flushes = <<flushes[1]>>
      /\ RemoveAt(flushes, i) = <<>>
  BY OneFlush
<1>2. \A x : Holds(flushes, x) <=> x = flushes[1]
  BY <1>1, SingleHolds
<1>3. CASE queue = <<>>
  <2>1. queue' = <<>> /\ flushes' = <<>>
    BY <1>1, <1>3 DEF FlushSucceeds
  <2> QED BY <1>1, <1>2, <1>3, <2>1, EmptyHolds
<1>4. CASE queue # <<>>
  <2>1. flushes' = Append(<<>>, Head(queue)) /\ queue' = Tail(queue)
    BY <1>1, <1>4 DEF FlushSucceeds
  <2>2. flushes' = <<Head(queue)>>
    BY <2>1, AppendOnly
  <2>3. queue \in Seq(Messages)
    BY DEF QueueOK
  <2>4. Distinct(queue') /\ ~Holds(queue', Head(queue))
    BY <1>4, <2>1, <2>3, TailDistinct
  <2>5. \A x : Holds(queue, x) <=> x = Head(queue) \/ Holds(queue', x)
    BY <1>4, <2>1, <2>3, TailHolds
  <2>6. \A x : Holds(flushes', x) <=> x = Head(queue)
    BY <2>2, SingleHolds
  <2> QED BY <1>1, <1>2, <2>4, <2>5, <2>6
<1> QED BY <1>3, <1>4

LEMMA StartMoves ==
    ASSUME QueueOK, StartFlush, Distinct(queue)
    PROVE  /\ Distinct(queue')
           /\ \/ \A x : /\ Holds(queue', x) <=> Holds(queue, x)
                        /\ Holds(flushes', x) <=> Holds(flushes, x)
              \/ \E h : /\ ~Holds(queue', h)
                        /\ \A x : Holds(queue, x) <=> x = h \/ Holds(queue', x)
                        /\ \A x : ~Holds(flushes, x)
                        /\ \A x : Holds(flushes', x) <=> x = h
<1>1. CASE UNCHANGED <<queue, flushing, flushes>>
  BY <1>1
<1>2. CASE /\ flushing = FALSE /\ queue # <<>>
           /\ flushes' = Append(flushes, Head(queue)) /\ queue' = Tail(queue)
  <2>1. flushes = <<>> /\ flushes' = <<Head(queue)>>
    BY <1>2, AppendOnly DEF QueueOK, FlushInv
  <2>3. queue \in Seq(Messages)
    BY DEF QueueOK
  <2>4. Distinct(queue') /\ ~Holds(queue', Head(queue))
    BY <1>2, <2>3, TailDistinct
  <2>5. \A x : Holds(queue, x) <=> x = Head(queue) \/ Holds(queue', x)
    BY <1>2, <2>3, TailHolds
  <2>6. /\ \A x : Holds(flushes', x) <=> x = Head(queue)
        /\ \A x : ~Holds(flushes, x)
    BY <2>1, SingleHolds, EmptyHolds
  <2> QED BY <2>4, <2>5, <2>6
<1>3. flushing \in BOOLEAN
  BY DEF QueueOK, FlushInv
<1> QED BY <1>1, <1>2, <1>3 DEF StartFlush

\* What a send or a flush counts.
LEMMA Counts ==
    ASSUME PastOK, NEW m \in Messages,
           \/ Receive(m) /\ UNCHANGED uncertain
           \/ Rejected(m)
    PROVE  /\ \A x \in Messages : x # m => received'[x] = received[x]
           /\ received'[m] \in {received[m], received[m] + 1}
           /\ \/ received'[m] = received[m] /\ uncertain' = uncertain
              \/ received'[m] = received[m] + 1 /\ uncertain' = uncertain
              \/ received'[m] = received[m] + 1 /\ uncertain' = uncertain \cup {m}
           /\ \A x \in Messages : received[x] \in Nat
BY DEF PastOK, Receive, Rejected

LEMMA MessageStep == TypeInv /\ MessageInv /\ [Next]_vars => MessageInv'
<1> SUFFICES ASSUME TypeInv, MessageInv, [Next]_vars PROVE MessageInv'
  OBVIOUS
<1>0. QueueOK /\ FilesOK /\ PastOK
  BY DEF TypeInv
<1>w. watcher # NoMessage => watcher \in files \cap sending
  BY DEF MessageInv
<1>d. Distinct(queue)
  BY DEF MessageInv
<1>m. \A x \in Messages : OnePlace(x) /\ Settled(x)
  BY DEF MessageInv
<1>h. /\ \A x : Holds(queue, x) => x \in Messages
      /\ \A x : Holds(flushes, x) => x \in Messages
  BY <1>0, HoldsTypes
<1>a. UNCHANGED <<queueVars, fileVars, pastVars, unsent>> => MessageInv'
  BY <1>w, <1>d, <1>m DEF MessageInv, OnePlace, Settled, Waits, queueVars, fileVars, pastVars
<1>1. ASSUME NEW m \in Messages, HostSends(m)
      PROVE  MessageInv'
  <2>1. m \in unsent /\ unsent' = unsent \ {m} /\ SendMessage(m)
        /\ files' = files /\ watcher' = watcher
        /\ received' = received /\ uncertain' = uncertain /\ lost' = lost
        /\ flushes' = flushes
    BY <1>1 DEF HostSends, fileVars, pastVars
  <2>2. /\ m \notin files \cup sending
        /\ ~Holds(queue, m) /\ ~Holds(flushes, m)
    BY <1>m, <2>1 DEF OnePlace
  <2>3. /\ Distinct(queue')
        /\ \A x : Holds(flushes', x) <=> Holds(flushes, x)
        /\ \/ /\ sending' = sending \cup {m}
              /\ \A x : Holds(queue', x) <=> Holds(queue, x)
           \/ /\ sending' = sending
              /\ \A x : Holds(queue', x) <=> x = m \/ Holds(queue, x)
    BY <1>0, <1>d, <2>1, <2>2, SendMoves
  <2>4. ASSUME NEW x \in Messages PROVE OnePlace(x)' /\ Settled(x)'
    BY <1>m, <2>1, <2>2, <2>3 DEF OnePlace, Settled, Waits
  <2> QED BY <1>w, <2>1, <2>3, <2>4 DEF MessageInv
<1>2. ASSUME NEW m \in Messages, AgentWrites(m)
      PROVE  MessageInv'
  <2>1. m \in unsent /\ unsent' = unsent \ {m} /\ files' = files \cup {m}
        /\ watcher' = watcher /\ queue' = queue /\ flushes' = flushes
        /\ sending' = sending
        /\ received' = received /\ uncertain' = uncertain /\ lost' = lost
    BY <1>2 DEF AgentWrites, queueVars, pastVars
  <2>2. ASSUME NEW x \in Messages PROVE OnePlace(x)' /\ Settled(x)'
    BY <1>m, <2>1 DEF OnePlace, Settled, Waits
  <2> QED BY <1>w, <1>d, <2>1, <2>2 DEF MessageInv
<1>3. ASSUME NEW m \in Messages, WatcherSends(m)
      PROVE  MessageInv'
  <2>1. watcher = NoMessage /\ m \in files /\ SendMessage(m)
        /\ unsent' = unsent /\ flushes' = flushes
        /\ received' = received /\ uncertain' = uncertain /\ lost' = lost
    BY <1>3 DEF WatcherSends, pastVars
  <2>2. /\ m \notin unsent \cup sending
        /\ ~Holds(queue, m) /\ ~Holds(flushes, m)
    BY <1>m, <2>1 DEF OnePlace
  <2>3. /\ Distinct(queue')
        /\ \A x : Holds(flushes', x) <=> Holds(flushes, x)
        /\ \/ /\ GoesOut
              /\ sending' = sending \cup {m}
              /\ \A x : Holds(queue', x) <=> Holds(queue, x)
           \/ /\ ~GoesOut
              /\ sending' = sending
              /\ \A x : Holds(queue', x) <=> x = m \/ Holds(queue, x)
    BY <1>0, <1>d, <2>1, <2>2, SendMoves
  <2>4. \/ /\ GoesOut /\ watcher' = m /\ files' = files
        \/ /\ ~GoesOut /\ watcher' = watcher /\ files' = files \ {m}
    BY <1>3 DEF WatcherSends
  <2>5. ASSUME NEW x \in Messages PROVE OnePlace(x)' /\ Settled(x)'
    <3>1. x \in files \cap sending => watcher = x
      BY <1>m DEF OnePlace
    <3>2. x # NoMessage
      OBVIOUS
    <3> QED BY <1>m, <2>1, <2>2, <2>3, <2>4, <3>1, <3>2 DEF OnePlace, Settled, Waits
  <2> QED BY <2>1, <2>3, <2>4, <2>5 DEF MessageInv
<1>3d. ASSUME NEW m \in Messages, WatcherDrops(m)
       PROVE  MessageInv'
  <2>1. watcher = NoMessage /\ m \in files
        /\ files' = files \ {m} /\ lost' = lost \cup {m}
        /\ watcher' = watcher /\ unsent' = unsent /\ queue' = queue
        /\ flushes' = flushes /\ sending' = sending
        /\ received' = received /\ uncertain' = uncertain
    BY <1>3d DEF WatcherDrops, queueVars
  <2>2. ASSUME NEW x \in Messages PROVE OnePlace(x)' /\ Settled(x)'
    BY <1>m, <2>1 DEF OnePlace, Settled, Waits
  <2> QED BY <1>d, <2>1, <2>2 DEF MessageInv
<1>4. ASSUME NEW m \in Messages, SendSucceeds(m) \/ SendFails(m)
      PROVE  MessageInv'
  <2>1. m \in sending /\ sending' = sending \ {m}
        /\ flushes' = flushes /\ lost' = lost /\ unsent' = unsent
    BY <1>4 DEF SendSucceeds, SendFails, Returns
  <2>2. \/ watcher = m /\ files' = files \ {m} /\ watcher' = NoMessage
        \/ watcher # m /\ files' = files /\ watcher' = watcher
    BY <1>4 DEF SendSucceeds, SendFails, Returns, fileVars
  <2>3. /\ m \notin unsent
        /\ ~Holds(queue, m) /\ ~Holds(flushes, m)
        /\ m \in files => watcher = m
        /\ received[m] = 0 \/ m \in uncertain
    BY <1>m, <2>1 DEF OnePlace, Settled, Waits
  <2>4. /\ \A x \in Messages : x # m => received'[x] = received[x]
        /\ \A x \in Messages : received[x] \in Nat
        /\ \/ received'[m] = received[m] /\ uncertain' = uncertain
           \/ received'[m] = received[m] + 1 /\ uncertain' = uncertain
           \/ received'[m] = received[m] + 1 /\ uncertain' = uncertain \cup {m}
    BY <1>0, <1>4, Counts DEF SendSucceeds, SendFails
  <2>w. watcher' # NoMessage => watcher' \in files' \cap sending'
    BY <1>w, <2>1, <2>2
  <2>5. CASE SendSucceeds(m)
    <3>1. queue' = queue /\ uncertain' = uncertain /\ received'[m] = received[m] + 1
      BY <1>0, <2>5 DEF SendSucceeds, Receive, PastOK
    <3>2. ASSUME NEW x \in Messages PROVE OnePlace(x)' /\ Settled(x)'
      BY <1>m, <2>1, <2>2, <2>3, <2>4, <3>1 DEF OnePlace, Settled, Waits
    <3> QED BY <1>d, <2>w, <3>1, <3>2 DEF MessageInv
  <2>6. CASE SendFails(m)
    <3>1. queue' = Append(queue, m) /\ queue \in Seq(Messages)
      BY <1>0, <2>6 DEF SendFails, QueueOK
    <3>2. /\ Distinct(queue')
          /\ \A x : Holds(queue', x) <=> x = m \/ Holds(queue, x)
      BY <1>d, <2>3, <3>1, AppendHolds, AppendDistinct
    <3>3. \/ received'[m] = received[m] /\ uncertain' = uncertain
          \/ received'[m] = received[m] + 1 /\ uncertain' = uncertain \cup {m}
      BY <1>0, <2>6 DEF SendFails, Rejected, Receive, PastOK
    <3>4. ASSUME NEW x \in Messages PROVE OnePlace(x)' /\ Settled(x)'
      BY <1>m, <2>1, <2>2, <2>3, <2>4, <3>2, <3>3 DEF OnePlace, Settled, Waits
    <3> QED BY <2>w, <3>2, <3>4 DEF MessageInv
  <2> QED BY <1>4, <2>5, <2>6
<1>5. ASSUME NEW i \in DOMAIN flushes, FlushSucceeds(i)
      PROVE  MessageInv'
  <2> DEFINE f == flushes[1]
  <2>1. sending' = sending /\ files' = files /\ watcher' = watcher
        /\ lost' = lost /\ uncertain' = uncertain /\ unsent' = unsent
    BY <1>5 DEF FlushSucceeds, fileVars
  <2>2. /\ f \in Messages
        /\ Distinct(queue')
        /\ \A x : Holds(flushes, x) <=> x = f
        /\ \/ \A x : ~Holds(queue, x) /\ ~Holds(queue', x) /\ ~Holds(flushes', x)
           \/ \E h : /\ ~Holds(queue', h)
                     /\ \A x : Holds(queue, x) <=> x = h \/ Holds(queue', x)
                     /\ \A x : Holds(flushes', x) <=> x = h
    BY <1>0, <1>5, <1>d, FlushMoves
  <2>3. i = 1
    BY <1>0, OneFlush
  <2>4. /\ \A x \in Messages : x # f => received'[x] = received[x]
        /\ \A x \in Messages : received[x] \in Nat
        /\ received'[f] = received[f] + 1
    BY <1>0, <1>5, <2>2, <2>3 DEF FlushSucceeds, Receive, PastOK
  <2>5. /\ f \notin unsent \cup files \cup sending /\ ~Holds(queue, f)
        /\ received[f] = 0 \/ f \in uncertain
    BY <1>m, <2>2 DEF OnePlace, Settled, Waits
  <2> HIDE DEF f
  <2>6. ASSUME NEW x \in Messages PROVE OnePlace(x)' /\ Settled(x)'
    <3>1. CASE \A y : ~Holds(queue, y) /\ ~Holds(queue', y) /\ ~Holds(flushes', y)
      BY <1>m, <2>1, <2>2, <2>4, <2>5, <3>1 DEF OnePlace, Settled, Waits
    <3>2. ASSUME NEW h, ~Holds(queue', h),
                 \A y : Holds(queue, y) <=> y = h \/ Holds(queue', y),
                 \A y : Holds(flushes', y) <=> y = h
          PROVE  OnePlace(x)' /\ Settled(x)'
      BY <1>m, <2>1, <2>2, <2>4, <2>5, <3>2 DEF OnePlace, Settled, Waits
    <3> QED BY <2>2, <3>1, <3>2
  <2> QED BY <1>w, <2>1, <2>2, <2>6 DEF MessageInv
<1>6. ASSUME NEW i \in DOMAIN flushes, FlushFails(i)
      PROVE  MessageInv'
  <2> DEFINE f == flushes[1]
  <2>1. /\ i = 1 /\ f \in Messages /\ flushes = <<f>> /\ RemoveAt(flushes, i) = <<>>
    BY <1>0, OneFlush
  <2>2. sending' = sending /\ files' = files /\ watcher' = watcher /\ queue' = queue
        /\ unsent' = unsent /\ lost' = lost \cup {f} /\ flushes' = <<>>
    BY <1>6, <2>1 DEF FlushFails, fileVars
  <2>3. /\ \A x : Holds(flushes, x) <=> x = f
        /\ \A x : ~Holds(flushes', x)
    BY <2>1, <2>2, SingleHolds, EmptyHolds
  <2>4. /\ \A x \in Messages : x # f => received'[x] = received[x]
        /\ \A x \in Messages : received[x] \in Nat
    BY <1>0, <1>6, <2>1, Counts DEF FlushFails
  <2>5. \/ received'[f] = received[f] /\ uncertain' = uncertain
        \/ received'[f] = received[f] + 1 /\ uncertain' = uncertain \cup {f}
    BY <1>0, <1>6, <2>1 DEF FlushFails, Rejected, Receive, PastOK
  <2>6. /\ f \notin unsent \cup files \cup sending /\ ~Holds(queue, f)
    BY <1>m, <2>1, <2>3 DEF OnePlace
  <2> HIDE DEF f
  <2>7. ASSUME NEW x \in Messages PROVE OnePlace(x)' /\ Settled(x)'
    BY <1>m, <2>2, <2>3, <2>4, <2>5, <2>6 DEF OnePlace, Settled, Waits
  <2> QED BY <1>w, <1>d, <2>2, <2>7 DEF MessageInv
<1>7. ASSUME NEW k \in Kinds, Connects(k) \/ ConnectFails(k)
      PROVE  MessageInv'
  BY <1>7, <1>a DEF Connects, ConnectFails
<1>8. CASE TimerFires \/ ReopenChannel
  BY <1>8, <1>a DEF TimerFires, ReopenChannel
<1>9. ASSUME NEW s \in Sockets, Closes(s)
      PROVE  MessageInv'
  BY <1>9, <1>a DEF Closes
<1>10. ASSUME NEW s \in Sockets, Opens(s)
       PROVE  MessageInv'
  <2>1. sending' = sending /\ files' = files /\ watcher' = watcher
        /\ lost' = lost /\ uncertain' = uncertain /\ unsent' = unsent
        /\ received' = received
    BY <1>10 DEF Opens, fileVars, pastVars
  <2>2. /\ Distinct(queue')
        /\ \/ \A x : /\ Holds(queue', x) <=> Holds(queue, x)
                     /\ Holds(flushes', x) <=> Holds(flushes, x)
           \/ \E h : /\ ~Holds(queue', h)
                     /\ \A x : Holds(queue, x) <=> x = h \/ Holds(queue', x)
                     /\ \A x : ~Holds(flushes, x)
                     /\ \A x : Holds(flushes', x) <=> x = h
    BY <1>0, <1>10, <1>d, StartMoves DEF Opens
  <2>3. ASSUME NEW x \in Messages PROVE OnePlace(x)' /\ Settled(x)'
    <3>1. CASE \A y : /\ Holds(queue', y) <=> Holds(queue, y)
                      /\ Holds(flushes', y) <=> Holds(flushes, y)
      BY <1>m, <2>1, <3>1 DEF OnePlace, Settled, Waits
    <3>2. ASSUME NEW h, ~Holds(queue', h),
                 \A y : Holds(queue, y) <=> y = h \/ Holds(queue', y),
                 \A y : ~Holds(flushes, y),
                 \A y : Holds(flushes', y) <=> y = h
          PROVE  OnePlace(x)' /\ Settled(x)'
      BY <1>m, <2>1, <3>2 DEF OnePlace, Settled, Waits
    <3> QED BY <2>2, <3>1, <3>2
  <2> QED BY <1>w, <2>1, <2>2, <2>3 DEF MessageInv
<1>11. CASE HostRestarts
  <2> DEFINE inFlight == sending \cup {m \in Messages : InFlush(m)}
             held     == inFlight \cup {m \in Messages : InQueue(m)}
  <2>1. PICK through \in SUBSET inFlight :
           /\ received' = [m \in Messages |-> IF m \in through THEN received[m] + 1
                                                               ELSE received[m]]
           /\ uncertain' = uncertain \cup through
    BY <1>11 DEF HostRestarts
  <2>2. sending' = {} /\ queue' = <<>> /\ flushes' = <<>> /\ files' = files
        /\ watcher' = NoMessage /\ unsent' = unsent /\ lost' = lost \cup (held \ files)
    BY <1>11 DEF HostRestarts
  <2>3. \A x : ~Holds(queue', x) /\ ~Holds(flushes', x)
    BY <2>2, EmptyHolds
  <2>4. Distinct(queue')
    BY <2>2 DEF Distinct
  <2>5. \A x \in Messages : /\ x \in held <=> \/ x \in sending
                                              \/ Holds(queue, x)
                                              \/ Holds(flushes, x)
    BY <1>0, HoldsTypes
  <2>6. /\ \A x \in Messages : /\ received[x] \in Nat
                               /\ x \in through => received'[x] = received[x] + 1
                               /\ x \notin through => received'[x] = received[x]
        /\ \A x \in through : x \in held
    BY <1>0, <2>1 DEF PastOK
  <2> HIDE DEF held, inFlight
  <2>7. ASSUME NEW x \in Messages PROVE OnePlace(x)' /\ Settled(x)'
    BY <1>m, <2>1, <2>2, <2>3, <2>5, <2>6 DEF OnePlace, Settled, Waits
  <2> QED BY <2>2, <2>4, <2>7 DEF MessageInv
<1>12. CASE UNCHANGED vars
  BY <1>12, <1>a DEF vars
<1> QED BY <1>1, <1>2, <1>3, <1>3d, <1>4, <1>5, <1>6, <1>7, <1>8, <1>9, <1>10, <1>11, <1>12
        DEF Next

LEMMA MessageInvariant == Spec => []MessageInv
<1>1. Init => MessageInv
  BY EmptyHolds DEF Init, MessageInv, OnePlace, Settled, Waits, Distinct
<1> QED BY <1>1, TypeInvariant, MessageStep, PTL DEF Spec

\* No step drops a message without counting it as lost: it waits somewhere,
\* was received, or was given up by a failed flush, a restart of the host or a
\* watcher that may not send it.
THEOREM NothingVanishes == Spec => []Accounted
<1>1. TypeInv /\ MessageInv => Accounted
  BY HoldsTypes DEF TypeInv, MessageInv, Settled, Waits, Accounted
<1> QED BY <1>1, TypeInvariant, MessageInvariant, PTL

\* A second copy reaches the recipient only after a send whose outcome the
\* channel could not know.
THEOREM OnlyUncertainTwice == Spec => []ReceivedOnce
<1>1. MessageInv => ReceivedOnce
  BY DEF MessageInv, Settled, ReceivedOnce
<1> QED BY <1>1, MessageInvariant, PTL

=============================================================================
