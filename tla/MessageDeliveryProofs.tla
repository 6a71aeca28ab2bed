------------------------ MODULE MessageDeliveryProofs ------------------------
(***************************************************************************)
(* Proofs about MessageDelivery: its types, and that messages are neither  *)
(* forgotten, nor left without an occasion, nor answered twice, whatever   *)
(* arrives, fails or restarts, and whatever the bounds.                    *)
(*                                                                         *)
(* BaseInv is what all the others rest on: the log is in the order of its  *)
(* timestamps, what is under way was stored before, and only a run for a   *)
(* prompt has an agent, a chain and a cursor to go back to, which lies     *)
(* before the newest message.                                              *)
(*                                                                         *)
(* The three properties fail as soon as a run is rolled back unless their  *)
(* invariants say, while it lasts, what the rollback will find: AccountInv *)
(* that a message is safe under the old cursor, too, and RepliedInv that a *)
(* message the old cursor exposes is unanswered and in no late reply.      *)
(* WatchInv takes what is pending and what lies in the inbox apart: they   *)
(* lose their occasions at different steps.                                *)
(***************************************************************************)
EXTENDS MessageDelivery, FiniteSetTheorems, SequenceTheorems, TLAPS

USE DeliveryAssumption

\* Arrival order is the order of timestamps, and all that is under way was
\* stored before.
StoreInv ==
    /\ Len(log) <= MaxMessages
    /\ \A k, m \in Stored : k <= m => log[k].ts <= log[m].ts
    /\ inbox \subseteq Stored /\ late \subseteq Stored
    /\ agent.turn \subseteq Stored /\ agent.backlog \subseteq Stored
    /\ \A i \in DOMAIN replies : replies[i] \subseteq Stored
    /\ loop.batch \subseteq Stored /\ run.batch \subseteq Stored
    /\ loop.pc # "idle" => loop.batch # {}
    /\ run.pc = "command" => run.batch # {}
    /\ \A m \in Ids \ Stored : answered[m] = 0

\* Only a run for a prompt has an agent and replies; it knows the cursor it
\* may have to go back to.
RunShape ==
    /\ run.pc = "none" => run = NoRun
    /\ run.pc # "agent" => agent = NoAgent
    /\ agent.pc = "none" => replies = <<>>
    /\ agent.pc = "waiting" => agent.turn = {}
    /\ agent.pc \in {"none", "booting", "waiting"} => agent.backlog = {}
    /\ run.pc = "agent" => log # <<>> /\ run.prev < LastTime

\* TypeOK by the parts of the system.
CursorTyped ==
    /\ log \in Seq([ts : Nat, command : BOOLEAN])
    /\ seen \in Nat /\ cursor \in Nat

LoopTyped ==
    loop \in [pc : {"idle", "polled", "command"}, batch : SUBSET Ids]

QueueTyped ==
    /\ due \in BOOLEAN
    /\ timers \in 0 .. MaxTimers
    /\ retries \in 0 .. MaxRetries
    /\ restarts \in 0 .. MaxRestarts

RunTyped ==
    run \in [pc : {"none", "command", "agent"}, batch : SUBSET Ids,
            prev : Nat, sent : BOOLEAN, output : BOOLEAN, accepts : BOOLEAN]

AgentTyped ==
    agent \in [pc : Live \cup {"none", "exited", "failed"},
              turn : SUBSET Ids, backlog : SUBSET Ids]

TrafficTyped ==
    /\ inbox \subseteq Ids /\ late \subseteq Ids /\ cached \subseteq Ids
    /\ closeFile \in BOOLEAN /\ broken \in BOOLEAN
    /\ replies \in Seq(SUBSET Ids)

HistoryTyped ==
    /\ answered \in [Ids -> Nat] /\ executed \in [Ids -> Nat]
    /\ abandoned \subseteq Ids /\ unnoticed \subseteq Ids /\ repeated \subseteq Ids

LEMMA TypeParts ==
    TypeOK <=> /\ CursorTyped /\ LoopTyped /\ QueueTyped /\ RunTyped
               /\ AgentTyped /\ TrafficTyped /\ HistoryTyped
BY DEF TypeOK, CursorTyped, LoopTyped, QueueTyped, RunTyped, AgentTyped,
       TrafficTyped, HistoryTyped

BaseInv ==
    /\ CursorTyped /\ LoopTyped /\ QueueTyped /\ RunTyped
    /\ AgentTyped /\ TrafficTyped /\ HistoryTyped
    /\ StoreInv
    /\ RunShape

-----------------------------------------------------------------------------
(* The operators the model is built from.                                  *)

\* The least element of a set of numbers, from the library's theorems on
\* well-founded relations.
LEMMA LeastByRelation ==
    ASSUME NEW R, NEW T, T \subseteq Nat, T # {}, IsWellFoundedOn(R, Nat),
           \A x, y \in Nat : y < x => <<y, x>> \in R
    PROVE  \E x \in T : \A y \in T : x <= y
<1>1. PICK x \in T : \A y \in T : ~(<<y, x>> \in R)
  BY WFMin
<1>2. x \in Nat
  OBVIOUS
<1>3. ASSUME NEW y \in T PROVE x <= y
  <2>1. ~(y < x) /\ y \in Nat
    BY <1>1, <1>2
  <2> QED BY <1>2, <2>1
<1> QED BY <1>3

LEMMA LessThanIsRelation ==
    \A x, y \in Nat : y < x => <<y, x>> \in OpToRel(<, Nat)
BY DEF OpToRel

LEMMA LeastExists ==
    ASSUME NEW T, T \subseteq Nat, T # {}
    PROVE  \E x \in T : \A y \in T : x <= y
BY LeastByRelation, LessThanIsRelation, NatLessThanWellFounded

\* The greatest of finitely many message ids.
LEMMA LatestIsGreatest ==
    ASSUME NEW n \in Nat, NEW batch \in SUBSET (1 .. n), batch # {}
    PROVE  /\ Latest(batch) \in batch
           /\ \A k \in batch : k <= Latest(batch)
<1> DEFINE T == {n - m : m \in batch}
<1>1. T \subseteq Nat /\ T # {}
  <2>1. \A m \in batch : n - m \in Nat
    OBVIOUS
  <2>2. \E m \in batch : n - m \in T
    OBVIOUS
  <2> QED BY <2>1, <2>2
<1>2. PICK x \in T : \A y \in T : x <= y
  <2> HIDE DEF T
  <2> QED BY <1>1, LeastExists
<1>3. PICK m \in batch : x = n - m
  OBVIOUS
<1>4. \A k \in batch : k <= m
  <2> SUFFICES ASSUME NEW k \in batch PROVE k <= m
    OBVIOUS
  <2>1. n - m <= n - k
    BY <1>2, <1>3
  <2> QED BY <2>1
<1> QED BY <1>4 DEF Latest

LogTyped ==
    /\ log \in Seq([ts : Nat, command : BOOLEAN])
    /\ \A k, m \in Stored : k <= m => log[k].ts <= log[m].ts

LEMMA StoredTyped ==
    ASSUME LogTyped
    PROVE  /\ Len(log) \in Nat
           /\ \A m \in Stored : /\ m \in Nat \ {0}
                                /\ log[m].ts \in Nat
                                /\ log[m].command \in BOOLEAN
           /\ log # <<>> => Len(log) \in Stored /\ LastTime = log[Len(log)].ts
<1>1. Len(log) \in Nat /\ (log # <<>> => Len(log) # 0)
  BY EmptySeq DEF LogTyped
<1>2. \A m \in Stored : m \in Nat \ {0}
  BY <1>1 DEF Stored
<1>3. \A m \in Stored : log[m] \in [ts : Nat, command : BOOLEAN]
  BY ElementOfSeq DEF LogTyped, Stored
<1> QED BY <1>1, <1>2, <1>3 DEF Stored, LastTime

\* What lies behind the timestamp of a batch's last message.
LEMMA BatchTime ==
    ASSUME LogTyped, NEW batch \in SUBSET Stored, batch # {}
    PROVE  /\ Latest(batch) \in batch
           /\ log[Latest(batch)].ts \in Nat
           /\ \A m \in batch : m \notin After(log[Latest(batch)].ts)
<1>1. Latest(batch) \in batch /\ \A k \in batch : k <= Latest(batch)
  BY StoredTyped, LatestIsGreatest DEF Stored
<1>2. \A k \in batch : log[k].ts <= log[Latest(batch)].ts
  BY <1>1 DEF LogTyped
<1> QED BY <1>1, <1>2, StoredTyped DEF After

\* The newest messages, as many as a prompt takes.
Newest == {m \in Stored : Len(log) - m < MaxPerPrompt}

LEMMA PendingIsNewest ==
    ASSUME LogTyped, cursor \in Nat
    PROVE  Pending = After(cursor) \cap Newest
<1> SUFFICES ASSUME NEW m \in After(cursor)
             PROVE  Cardinality({k \in After(cursor) : k > m}) = Len(log) - m
  BY StoredTyped DEF Pending, Newest, After
<1>0. m \in Stored /\ m \in Nat \ {0} /\ Len(log) \in Nat /\ log[m].ts > cursor
  BY StoredTyped DEF After
<1>1. \A k \in Stored : k > m => log[k].ts > cursor
  <2> SUFFICES ASSUME NEW k \in Stored, k > m PROVE log[k].ts > cursor
    OBVIOUS
  <2>1. log[m].ts <= log[k].ts /\ k \in Nat
    BY <1>0, StoredTyped DEF LogTyped
  <2> QED BY <1>0, <2>1, StoredTyped
<1>2. {k \in After(cursor) : k > m} = (m + 1) .. Len(log)
  BY <1>0, <1>1 DEF After, Stored
<1>3. Cardinality((m + 1) .. Len(log)) = Len(log) - m
  BY <1>0, FS_Interval DEF Stored
<1> QED BY <1>2, <1>3

\* The last message is pending if any is, and nothing lies behind it.
LEMMA PendingTime ==
    ASSUME LogTyped, cursor \in Nat
    PROVE  /\ Pending \subseteq After(cursor)
           /\ Pending = {} => After(cursor) = {}
           /\ Pending # {} => /\ Latest(Pending) \in Pending
                              /\ log[Latest(Pending)].ts = LastTime
                              /\ log[Latest(Pending)].ts > cursor
                              /\ After(log[Latest(Pending)].ts) = {}
<1>1. Pending = After(cursor) \cap Newest
  BY PendingIsNewest
<1>2. ASSUME After(cursor) # {}
      PROVE  Len(log) \in Pending
  <2>1. PICK m \in Stored : log[m].ts > cursor
    BY <1>2 DEF After
  <2>2. Len(log) \in Stored /\ m \in Nat /\ m <= Len(log)
    BY <2>1, StoredTyped DEF Stored
  <2>3. log[m].ts <= log[Len(log)].ts
    BY <2>1, <2>2 DEF LogTyped
  <2>4. log[Len(log)].ts > cursor
    BY <2>1, <2>2, <2>3, StoredTyped
  <2> QED BY <1>1, <2>2, <2>4, StoredTyped DEF After, Newest
<1>3. ASSUME Pending # {}
      PROVE  /\ Latest(Pending) = Len(log)
             /\ Latest(Pending) \in Pending
             /\ Len(log) \in Stored
  <2>1. Len(log) \in Pending /\ Pending \subseteq Stored /\ Len(log) \in Nat
    BY <1>1, <1>2, <1>3, StoredTyped DEF After
  <2>2. Latest(Pending) \in Pending /\ Len(log) <= Latest(Pending)
    BY <2>1, LatestIsGreatest DEF Stored
  <2>3. Latest(Pending) \in Stored
    BY <2>1, <2>2
  <2>4. Latest(Pending) \in Nat /\ Latest(Pending) <= Len(log)
    BY <2>1, <2>3 DEF Stored
  <2> QED BY <2>1, <2>2, <2>4 DEF Stored
<1>4. ASSUME Len(log) \in Stored
      PROVE  After(log[Len(log)].ts) = {} /\ log[Len(log)].ts = LastTime
  <2>1. \A m \in Stored : m <= Len(log) /\ log[m].ts <= log[Len(log)].ts
    BY <1>4 DEF LogTyped, Stored
  <2> QED BY <1>4, <2>1, StoredTyped DEF After, LastTime, Stored
<1> QED BY <1>1, <1>2, <1>3, <1>4 DEF After

LEMMA AppendElements ==
    ASSUME NEW S, NEW s \in Seq(S), NEW e \in S
    PROVE  /\ Append(s, e) \in Seq(S)
           /\ DOMAIN Append(s, e) = DOMAIN s \cup {Len(s) + 1}
           /\ Len(s) + 1 \notin DOMAIN s
           /\ Append(s, e)[Len(s) + 1] = e
           /\ \A i \in DOMAIN s : Append(s, e)[i] = s[i]
BY AppendProperties

LEMMA TailElements ==
    ASSUME NEW S, NEW s \in Seq(S), s # <<>>
    PROVE  /\ Tail(s) \in Seq(S)
           /\ 1 \in DOMAIN s /\ Head(s) = s[1]
           /\ \A i \in DOMAIN Tail(s) : /\ i \in Nat \ {0}
                                        /\ i + 1 \in DOMAIN s
                                        /\ Tail(s)[i] = s[i + 1]
<1>1. /\ Tail(s) \in Seq(S) /\ Len(Tail(s)) = Len(s) - 1
      /\ \A i \in 1 .. Len(Tail(s)) : Tail(s)[i] = s[i + 1]
  BY HeadTailProperties
<1>2. Len(s) \in Nat \ {0} /\ DOMAIN s = 1 .. Len(s)
  BY EmptySeq, LenProperties
<1>3. DOMAIN Tail(s) = 1 .. (Len(s) - 1)
  BY <1>1, LenProperties
<1> QED BY <1>1, <1>2, <1>3

-----------------------------------------------------------------------------
(* Types, and what is under way.                                           *)

LEMMA BaseLogTyped == BaseInv => LogTyped
BY DEF BaseInv, CursorTyped, StoreInv, LogTyped

\* All the sets the actions are about hold stored messages.
LEMMA SetsAreStored ==
    ASSUME BaseInv
    PROVE  /\ Stored \subseteq Ids
           /\ \A time : After(time) \subseteq Stored /\ SetBackTo(time) \subseteq Stored
           /\ \A batch : Unanswered(batch) \subseteq batch
           /\ Pending \subseteq Stored
           /\ Chained \subseteq Stored
           /\ InHand \subseteq Stored
           /\ OnTheWay \subseteq Stored
           /\ loop.pc # "idle" => ToSend \subseteq Stored /\ ToSend # {}
<1>1. Stored \subseteq Ids
  BY BaseLogTyped, StoredTyped DEF BaseInv, StoreInv, Stored, Ids
<1>2. \A time : After(time) \subseteq Stored /\ SetBackTo(time) \subseteq Stored
  BY DEF After, SetBackTo
<1>3. \A batch : Unanswered(batch) \subseteq batch
  BY DEF Unanswered
<1>4. Pending \subseteq Stored
  BY <1>2 DEF Pending
<1>5. Chained \subseteq Stored
  BY DEF Chained, BaseInv, StoreInv
<1>6. InHand \subseteq Stored /\ OnTheWay \subseteq Stored
  BY <1>5 DEF InHand, OnTheWay, BaseInv, StoreInv
<1>7. loop.pc # "idle" => ToSend \subseteq Stored /\ ToSend # {}
  BY <1>4 DEF ToSend, BaseInv, StoreInv
<1> QED BY <1>1, <1>2, <1>3, <1>4, <1>5, <1>6, <1>7

\* The timestamps the cursors are set to.
LEMMA TimesAreNat ==
    ASSUME BaseInv
    PROVE  /\ After(seen) # {} => log[Latest(After(seen))].ts \in Nat
           /\ Pending # {} => log[Latest(Pending)].ts \in Nat
           /\ loop.pc # "idle" => /\ log[Latest(ToSend)].ts \in Nat
                                  /\ Latest(ToSend) \in Stored
                                  /\ log[Latest(loop.batch)].ts \in Nat
                                  /\ Latest(loop.batch) \in Stored
           /\ run.pc = "command" => /\ log[Latest(run.batch)].ts \in Nat
                                    /\ Latest(run.batch) \in Stored
           /\ Pending # {} => Latest(Pending) \in Stored
<1>0. LogTyped
  BY BaseLogTyped
<1>1. \A batch \in SUBSET Stored :
         batch # {} => log[Latest(batch)].ts \in Nat /\ Latest(batch) \in Stored
  BY <1>0, BatchTime
<1> QED BY <1>1, SetsAreStored DEF BaseInv, StoreInv

LEMMA BaseInit == Init => BaseInv
<1> SUFFICES ASSUME Init PROVE BaseInv
  OBVIOUS
<1>1. TypeOK
  <2>1. /\ log \in Seq([ts : Nat, command : BOOLEAN])
        /\ replies \in Seq(SUBSET Ids)
    BY EmptySeq DEF Init
  <2>2. /\ loop \in [pc : {"idle", "polled", "command"}, batch : SUBSET Ids]
        /\ agent \in [pc : Live \cup {"none", "exited", "failed"},
                       turn : SUBSET Ids, backlog : SUBSET Ids]
        /\ run \in [pc : {"none", "command", "agent"}, batch : SUBSET Ids,
                     prev : Nat, sent : BOOLEAN, output : BOOLEAN,
                     accepts : BOOLEAN]
    BY DEF Init, NoLoop, NoRun, NoAgent
  <2>3. /\ answered \in [Ids -> Nat] /\ executed \in [Ids -> Nat]
        /\ timers \in 0 .. MaxTimers /\ retries \in 0 .. MaxRetries
        /\ restarts \in 0 .. MaxRestarts
    BY DEF Init
  <2> QED BY <2>1, <2>2, <2>3 DEF Init, TypeOK
<1>2. StoreInv
  BY EmptySeq DEF Init, StoreInv, NoLoop, NoRun, NoAgent, Stored, Ids
<1>3. RunShape
  BY DEF Init, RunShape, NoRun, NoAgent
<1> QED BY <1>1, <1>2, <1>3, TypeParts DEF BaseInv

LEMMA LoopPollBase == ASSUME BaseInv, LoopPoll PROVE BaseInv'
<1>0. Stored' = Stored
  BY DEF Stored, LoopPoll, agentVars, history
<1>1. QueueTyped' /\ RunTyped' /\ AgentTyped' /\ TrafficTyped'
      /\ HistoryTyped'
  BY DEF BaseInv, QueueTyped, RunTyped, AgentTyped, TrafficTyped,
         HistoryTyped, LoopPoll, agentVars, history
<1>2. CursorTyped'
  BY TimesAreNat DEF BaseInv, CursorTyped, RunTyped, LoopPoll, agentVars,
     history
<1>3. LoopTyped'
  BY SetsAreStored DEF BaseInv, LoopTyped, NoLoop, LoopPoll, agentVars,
     history
<1>4. StoreInv'
  BY <1>0, SetsAreStored DEF BaseInv, StoreInv, HistoryTyped, LoopPoll,
     agentVars, history, NoLoop, NoRun, NoAgent
<1>5. RunShape'
  BY <1>0, SetsAreStored DEF BaseInv, RunShape, AgentTyped, LastTime,
     LoopPoll, agentVars, history, NoRun, NoAgent, Live
<1> QED BY <1>1, <1>2, <1>3, <1>4, <1>5 DEF BaseInv

LEMMA LoopCommandBase == ASSUME BaseInv, LoopCommand PROVE BaseInv'
<1>0. Stored' = Stored
  BY DEF Stored, LoopCommand, LoopUnchanged, Execute
<1>1. CursorTyped' /\ QueueTyped' /\ RunTyped' /\ AgentTyped'
      /\ TrafficTyped'
  BY DEF BaseInv, CursorTyped, QueueTyped, RunTyped, AgentTyped,
         TrafficTyped, LoopCommand, LoopUnchanged, Execute
<1>2. LoopTyped'
  BY SetsAreStored DEF BaseInv, LoopTyped, NoLoop, LoopCommand,
     LoopUnchanged, Execute
<1>3. HistoryTyped'
  BY SetsAreStored, TimesAreNat DEF BaseInv, HistoryTyped, TrafficTyped,
     LoopCommand, LoopUnchanged, Execute
<1>4. StoreInv'
  BY <1>0, SetsAreStored DEF BaseInv, StoreInv, HistoryTyped, LoopCommand,
     LoopUnchanged, Execute, NoLoop, NoRun, NoAgent
<1>5. RunShape'
  BY <1>0, SetsAreStored DEF BaseInv, RunShape, AgentTyped, LastTime,
     LoopCommand, LoopUnchanged, Execute, NoRun, NoAgent, Live
<1> QED BY <1>1, <1>2, <1>3, <1>4, <1>5 DEF BaseInv

LEMMA LoopPipeBase == ASSUME BaseInv, LoopPipe PROVE BaseInv'
<1>0. Stored' = Stored
  BY DEF Stored, LoopPipe, LoopUnchanged, Abandon
<1>1. QueueTyped' /\ RunTyped' /\ AgentTyped'
  BY DEF BaseInv, QueueTyped, RunTyped, AgentTyped, LoopPipe, LoopUnchanged,
         Abandon
<1>2. CursorTyped'
  BY TimesAreNat DEF BaseInv, CursorTyped, RunTyped, LoopPipe,
     LoopUnchanged, Abandon
<1>3. LoopTyped'
  BY SetsAreStored DEF BaseInv, LoopTyped, NoLoop, LoopPipe, LoopUnchanged,
     Abandon
<1>4. TrafficTyped'
  BY SetsAreStored, TimesAreNat DEF BaseInv, TrafficTyped, LoopPipe,
     LoopUnchanged, Abandon
<1>5. HistoryTyped'
  BY SetsAreStored, TimesAreNat DEF BaseInv, HistoryTyped, TrafficTyped,
     LoopPipe, LoopUnchanged, Abandon
<1>6. StoreInv'
  BY <1>0, SetsAreStored DEF BaseInv, StoreInv, HistoryTyped, LoopPipe,
     LoopUnchanged, Abandon, NoLoop, NoRun, NoAgent
<1>7. RunShape'
  BY <1>0, SetsAreStored DEF BaseInv, RunShape, AgentTyped, LastTime,
     LoopPipe, LoopUnchanged, Abandon, NoRun, NoAgent, Live
<1> QED BY <1>1, <1>2, <1>3, <1>4, <1>5, <1>6, <1>7 DEF BaseInv

LEMMA LoopEnqueueBase == ASSUME BaseInv, LoopEnqueue PROVE BaseInv'
<1>0. Stored' = Stored
  BY DEF Stored, LoopEnqueue, LoopUnchanged
<1>1. CursorTyped' /\ RunTyped' /\ AgentTyped' /\ TrafficTyped'
      /\ HistoryTyped'
  BY DEF BaseInv, CursorTyped, RunTyped, AgentTyped, TrafficTyped,
         HistoryTyped, LoopEnqueue, LoopUnchanged
<1>2. LoopTyped'
  BY SetsAreStored DEF BaseInv, LoopTyped, NoLoop, LoopEnqueue,
     LoopUnchanged
<1>3. QueueTyped'
  BY DEF BaseInv, QueueTyped, LoopEnqueue, LoopUnchanged
<1>4. StoreInv'
  BY <1>0, SetsAreStored DEF BaseInv, StoreInv, HistoryTyped, LoopEnqueue,
     LoopUnchanged, NoLoop, NoRun, NoAgent
<1>5. RunShape'
  BY <1>0, SetsAreStored DEF BaseInv, RunShape, AgentTyped, LastTime,
     LoopEnqueue, LoopUnchanged, NoRun, NoAgent, Live
<1> QED BY <1>1, <1>2, <1>3, <1>4, <1>5 DEF BaseInv

LEMMA LoopCommandDoneBase == ASSUME BaseInv, LoopCommandDone PROVE BaseInv'
<1>0. Stored' = Stored
  BY DEF Stored, LoopCommandDone, LoopUnchanged, Abandon
<1>1. QueueTyped' /\ RunTyped' /\ AgentTyped'
  BY DEF BaseInv, QueueTyped, RunTyped, AgentTyped, LoopCommandDone,
         LoopUnchanged, Abandon
<1>2. CursorTyped'
  BY TimesAreNat DEF BaseInv, CursorTyped, RunTyped, LoopCommandDone,
     LoopUnchanged, Abandon
<1>3. LoopTyped'
  BY SetsAreStored DEF BaseInv, LoopTyped, NoLoop, LoopCommandDone,
     LoopUnchanged, Abandon
<1>4. TrafficTyped'
  BY SetsAreStored, TimesAreNat DEF BaseInv, TrafficTyped, LoopCommandDone,
     LoopUnchanged, Abandon
<1>5. HistoryTyped'
  BY SetsAreStored, TimesAreNat DEF BaseInv, HistoryTyped, TrafficTyped,
     LoopCommandDone, LoopUnchanged, Abandon
<1>6. StoreInv'
  BY <1>0, SetsAreStored DEF BaseInv, StoreInv, HistoryTyped,
     LoopCommandDone, LoopUnchanged, Abandon, NoLoop, NoRun, NoAgent
<1>7. RunShape'
  BY <1>0, SetsAreStored DEF BaseInv, RunShape, AgentTyped, LastTime,
     LoopCommandDone, LoopUnchanged, Abandon, NoRun, NoAgent, Live
<1> QED BY <1>1, <1>2, <1>3, <1>4, <1>5, <1>6, <1>7 DEF BaseInv

LEMMA RunNothingBase == ASSUME BaseInv, RunNothing PROVE BaseInv'
<1>0. Stored' = Stored
  BY DEF Stored, RunNothing, RunUnchanged
<1>1. CursorTyped' /\ LoopTyped' /\ RunTyped' /\ AgentTyped'
      /\ TrafficTyped'
  BY DEF BaseInv, CursorTyped, LoopTyped, RunTyped, AgentTyped,
         TrafficTyped, RunNothing, RunUnchanged
<1>2. QueueTyped'
  <2>1. due' \in BOOLEAN
    BY DEF RunNothing
  <2>2. /\ timers' \in 0 .. MaxTimers /\ retries' \in 0 .. MaxRetries
        /\ restarts' \in 0 .. MaxRestarts
    BY DEF BaseInv, QueueTyped, RunNothing, RunUnchanged
  <2> QED BY <2>1, <2>2 DEF QueueTyped
<1>3. HistoryTyped'
  BY SetsAreStored, TimesAreNat DEF BaseInv, HistoryTyped, TrafficTyped,
     RunNothing, RunUnchanged
<1>4. StoreInv'
  BY <1>0, SetsAreStored DEF BaseInv, StoreInv, HistoryTyped, RunNothing,
     RunUnchanged, NoLoop, NoRun, NoAgent
<1>5. RunShape'
  BY <1>0, SetsAreStored DEF BaseInv, RunShape, AgentTyped, LastTime,
     RunNothing, RunUnchanged, NoRun, NoAgent, Live
<1> QED BY <1>1, <1>2, <1>3, <1>4, <1>5 DEF BaseInv

LEMMA RunCommandBase == ASSUME BaseInv, RunCommand PROVE BaseInv'
<1>0. Stored' = Stored
  BY DEF Stored, RunCommand, RunUnchanged, Execute
<1>1. CursorTyped' /\ LoopTyped' /\ AgentTyped' /\ TrafficTyped'
  BY DEF BaseInv, CursorTyped, LoopTyped, AgentTyped, TrafficTyped,
         RunCommand, RunUnchanged, Execute
<1>2. QueueTyped'
  BY DEF BaseInv, QueueTyped, RunCommand, RunUnchanged, Execute
<1>3. RunTyped'
  BY SetsAreStored DEF BaseInv, RunTyped, CursorTyped, NoRun, RunCommand,
     RunUnchanged, Execute
<1>4. HistoryTyped'
  <2>1. Latest(Pending) \in Ids
    BY SetsAreStored, TimesAreNat DEF RunCommand
  <2>2. executed' \in [Ids -> Nat]
    BY <2>1 DEF BaseInv, HistoryTyped, RunCommand, Execute
  <2> QED BY <2>2 DEF BaseInv, HistoryTyped, RunCommand, RunUnchanged
<1>5. StoreInv'
  BY <1>0, SetsAreStored DEF BaseInv, StoreInv, HistoryTyped, RunCommand,
     RunUnchanged, Execute, NoLoop, NoRun, NoAgent
<1>6. RunShape'
  BY <1>0, SetsAreStored DEF BaseInv, RunShape, AgentTyped, LastTime,
     RunCommand, RunUnchanged, Execute, NoRun, NoAgent, Live
<1> QED BY <1>1, <1>2, <1>3, <1>4, <1>5, <1>6 DEF BaseInv

LEMMA RunPromptBase == ASSUME BaseInv, RunPrompt PROVE BaseInv'
<1>0. Stored' = Stored
  BY DEF Stored, RunPrompt, RunUnchanged, Abandon
<1>1. LoopTyped' /\ TrafficTyped'
  BY DEF BaseInv, LoopTyped, TrafficTyped, RunPrompt, RunUnchanged, Abandon
<1>2. CursorTyped'
  BY TimesAreNat DEF BaseInv, CursorTyped, RunTyped, RunPrompt,
     RunUnchanged, Abandon
<1>3. QueueTyped'
  BY DEF BaseInv, QueueTyped, RunPrompt, RunUnchanged, Abandon
<1>4. RunTyped'
  BY SetsAreStored DEF BaseInv, RunTyped, CursorTyped, NoRun, RunPrompt,
     RunUnchanged, Abandon
<1>5. AgentTyped'
  BY SetsAreStored DEF BaseInv, AgentTyped, TrafficTyped, NoAgent, Live,
     RunPrompt, RunUnchanged, Abandon
<1>6. HistoryTyped'
  BY SetsAreStored, TimesAreNat DEF BaseInv, HistoryTyped, TrafficTyped,
     RunPrompt, RunUnchanged, Abandon
<1>7. StoreInv'
  BY <1>0, SetsAreStored DEF BaseInv, StoreInv, HistoryTyped, RunPrompt,
     RunUnchanged, Abandon, NoLoop, NoRun, NoAgent
<1>8. RunShape'
  <2>1. Pending # {} /\ log # <<>> /\ cursor < LastTime
    BY BaseLogTyped, PendingTime, SetsAreStored, EmptySeq
       DEF BaseInv, CursorTyped, RunPrompt, Stored
  <2> QED BY <2>1 DEF BaseInv, RunShape, RunPrompt, RunUnchanged, LastTime, NoAgent, NoRun
<1> QED BY <1>1, <1>2, <1>3, <1>4, <1>5, <1>6, <1>7, <1>8 DEF BaseInv

LEMMA StartFailsBase == ASSUME BaseInv, StartFails PROVE BaseInv'
<1>0. Stored' = Stored
  BY DEF Stored, StartFails, RunUnchanged
<1>1. LoopTyped' /\ CursorTyped' /\ TrafficTyped'
  BY DEF BaseInv, LoopTyped, CursorTyped, TrafficTyped, StartFails, RunUnchanged
<1>2. QueueTyped'
  BY DEF BaseInv, QueueTyped, StartFails, RunUnchanged, ScheduleRetry,
         DeliveryAssumption
<1>3. RunTyped' /\ AgentTyped'
  BY DEF BaseInv, RunTyped, AgentTyped, StartFails, EndRun, NoRun, NoAgent, Live
<1>4. HistoryTyped'
  <2>1. abandoned' \subseteq Ids
    BY SetsAreStored DEF BaseInv, HistoryTyped, AgentTyped, StartFails, Abandon
  <2>2. unnoticed' \subseteq Ids
    BY SetsAreStored DEF BaseInv, HistoryTyped, TrafficTyped, StartFails,
       ScheduleRetry
  <2> QED BY <2>1, <2>2 DEF BaseInv, HistoryTyped, StartFails, RunUnchanged
<1>5. StoreInv'
  BY <1>0, SetsAreStored DEF BaseInv, StoreInv, HistoryTyped, StartFails,
     RunUnchanged, EndRun, NoRun, NoAgent
<1>6. RunShape'
  BY DEF BaseInv, RunShape, StartFails, RunUnchanged, EndRun, NoRun, NoAgent
<1> QED BY <1>1, <1>2, <1>3, <1>4, <1>5, <1>6 DEF BaseInv

LEMMA RunCommandDoneBase == ASSUME BaseInv, RunCommandDone PROVE BaseInv'
<1>0. Stored' = Stored
  BY DEF Stored, RunCommandDone, RunUnchanged, Abandon, EndRun,
     ScheduleRetry
<1>1. LoopTyped' /\ AgentTyped'
  BY DEF BaseInv, LoopTyped, AgentTyped, RunCommandDone, RunUnchanged,
         Abandon, EndRun, ScheduleRetry
<1>2. CursorTyped'
  BY TimesAreNat DEF BaseInv, CursorTyped, RunTyped, RunCommandDone,
     RunUnchanged, Abandon, EndRun, ScheduleRetry
<1>3. QueueTyped'
  BY DEF BaseInv, QueueTyped, RunCommandDone, RunUnchanged, Abandon, EndRun,
     ScheduleRetry
<1>4. RunTyped'
  BY SetsAreStored DEF BaseInv, RunTyped, CursorTyped, NoRun,
     RunCommandDone, RunUnchanged, Abandon, EndRun, ScheduleRetry
<1>5. TrafficTyped'
  BY SetsAreStored, TimesAreNat DEF BaseInv, TrafficTyped, RunCommandDone,
     RunUnchanged, Abandon, EndRun, ScheduleRetry
<1>6. HistoryTyped'
  BY SetsAreStored, TimesAreNat DEF BaseInv, HistoryTyped, TrafficTyped,
     RunCommandDone, RunUnchanged, Abandon, EndRun, ScheduleRetry
<1>7. StoreInv'
  BY <1>0, SetsAreStored DEF BaseInv, StoreInv, HistoryTyped,
     RunCommandDone, RunUnchanged, Abandon, EndRun, ScheduleRetry, NoLoop,
     NoRun, NoAgent
<1>8. RunShape'
  BY <1>0, SetsAreStored DEF BaseInv, RunShape, AgentTyped, LastTime,
     RunCommandDone, RunUnchanged, Abandon, EndRun, ScheduleRetry, NoRun,
     NoAgent, Live
<1> QED BY <1>1, <1>2, <1>3, <1>4, <1>5, <1>6, <1>7, <1>8 DEF BaseInv

LEMMA SpawnAgentBase == ASSUME BaseInv, SpawnAgent PROVE BaseInv'
<1>0. Stored' = Stored
  BY DEF Stored, SpawnAgent, history
<1>1. CursorTyped' /\ LoopTyped' /\ QueueTyped' /\ HistoryTyped'
  BY DEF BaseInv, CursorTyped, LoopTyped, QueueTyped, HistoryTyped,
         SpawnAgent, history
<1>2. RunTyped'
  BY SetsAreStored DEF BaseInv, RunTyped, CursorTyped, NoRun, SpawnAgent,
     history
<1>3. AgentTyped'
  BY SetsAreStored DEF BaseInv, AgentTyped, TrafficTyped, NoAgent, Live,
     SpawnAgent, history
<1>4. TrafficTyped'
  BY SetsAreStored, TimesAreNat DEF BaseInv, TrafficTyped, SpawnAgent,
     history
<1>5. StoreInv'
  BY <1>0, SetsAreStored DEF BaseInv, StoreInv, HistoryTyped, SpawnAgent,
     history, NoLoop, NoRun, NoAgent
<1>6. RunShape'
  BY <1>0, SetsAreStored DEF BaseInv, RunShape, AgentTyped, LastTime,
     SpawnAgent, history, NoRun, NoAgent, Live
<1> QED BY <1>1, <1>2, <1>3, <1>4, <1>5, <1>6 DEF BaseInv

LEMMA SendReplyBase == ASSUME BaseInv, SendReply PROVE BaseInv'
<1>0. Stored' = Stored
  BY DEF Stored, SendReply, Abandon
<1>1. CursorTyped' /\ LoopTyped' /\ QueueTyped' /\ AgentTyped'
  BY DEF BaseInv, CursorTyped, LoopTyped, QueueTyped, AgentTyped, SendReply,
         Abandon
<1>2. RunTyped'
  BY SetsAreStored DEF BaseInv, RunTyped, CursorTyped, NoRun, SendReply,
     Abandon
<1>3. TrafficTyped'
  <2>1. replies \in Seq(SUBSET Ids) /\ replies # <<>>
    BY DEF BaseInv, TrafficTyped, SendReply
  <2>2. Tail(replies) \in Seq(SUBSET Ids) /\ <<>> \in Seq(SUBSET Ids)
    BY <2>1, TailElements, EmptySeq
  <2>3. replies' \in Seq(SUBSET Ids)
    BY <2>2 DEF SendReply
  <2> QED BY <2>3 DEF BaseInv, TrafficTyped, SendReply
<1>4. HistoryTyped'
  <2>1. answered' \in [Ids -> Nat]
    <3>1. answered \in [Ids -> Nat]
      BY DEF BaseInv, HistoryTyped
    <3>2. CASE answered' = [m \in Ids |-> IF m \in Head(replies)
                                         THEN answered[m] + 1 ELSE answered[m]]
      BY <3>1, <3>2
    <3> QED BY <3>1, <3>2 DEF SendReply
  <2>2. abandoned' \subseteq Ids
    BY SetsAreStored DEF BaseInv, HistoryTyped, SendReply, Abandon
  <2> QED BY <2>1, <2>2 DEF BaseInv, HistoryTyped, SendReply
<1>5. StoreInv'
  <2>0. replies \in Seq(SUBSET Ids) /\ replies # <<>>
    BY DEF BaseInv, TrafficTyped, SendReply
  <2>1. \A i \in DOMAIN replies' : replies'[i] \subseteq Stored
    <3>1. CASE replies' = Tail(replies)
      BY <2>0, <3>1, TailElements DEF BaseInv, StoreInv
    <3>2. CASE replies' = <<>>
      BY <3>2
    <3> QED BY <3>1, <3>2 DEF SendReply
  <2>2. Head(replies) \subseteq Stored
    BY <2>0, TailElements DEF BaseInv, StoreInv
  <2>3. \A m \in Ids \ Stored : answered'[m] = 0
    BY <2>2 DEF BaseInv, StoreInv, SendReply
  <2>4. run'.pc = run.pc /\ run'.batch = run.batch
    BY DEF BaseInv, RunTyped, SendReply
  <2> QED BY <1>0, <2>1, <2>3, <2>4 DEF BaseInv, StoreInv, SendReply
<1>6. RunShape'
  <2>1. run.pc = "agent"
    BY DEF BaseInv, RunShape, SendReply, NoAgent
  <2>2. run'.pc = run.pc /\ run'.prev = run.prev
    BY DEF BaseInv, RunTyped, SendReply
  <2> QED BY <2>1, <2>2 DEF BaseInv, RunShape, LastTime, SendReply
<1> QED BY <1>1, <1>2, <1>3, <1>4, <1>5, <1>6 DEF BaseInv

LEMMA SendLateReplyBase == ASSUME BaseInv, SendLateReply PROVE BaseInv'
<1>0. Stored' = Stored
  BY DEF Stored, SendLateReply, hostVars
<1>1. CursorTyped' /\ LoopTyped' /\ QueueTyped' /\ RunTyped'
      /\ AgentTyped'
  BY DEF BaseInv, CursorTyped, LoopTyped, QueueTyped, RunTyped, AgentTyped,
         SendLateReply, hostVars
<1>2. TrafficTyped'
  BY SetsAreStored, TimesAreNat DEF BaseInv, TrafficTyped, SendLateReply,
     hostVars
<1>3. HistoryTyped'
  <2>1. answered' \in [Ids -> Nat]
    BY DEF BaseInv, HistoryTyped, SendLateReply
  <2>2. abandoned' \subseteq Ids
    BY SetsAreStored DEF BaseInv, HistoryTyped, TrafficTyped, SendLateReply,
       Abandon, Unanswered
  <2> QED BY <2>1, <2>2 DEF BaseInv, HistoryTyped, SendLateReply
<1>4. StoreInv'
  BY <1>0, SetsAreStored DEF BaseInv, StoreInv, HistoryTyped, SendLateReply,
     hostVars, NoLoop, NoRun, NoAgent
<1>5. RunShape'
  BY <1>0, SetsAreStored DEF BaseInv, RunShape, AgentTyped, LastTime,
     SendLateReply, hostVars, NoRun, NoAgent, Live
<1> QED BY <1>1, <1>2, <1>3, <1>4, <1>5 DEF BaseInv

LEMMA RequestCloseBase == ASSUME BaseInv, RequestClose PROVE BaseInv'
<1>0. Stored' = Stored
  BY DEF Stored, RequestClose, hostVars, history
<1>1. CursorTyped' /\ LoopTyped' /\ QueueTyped' /\ RunTyped'
      /\ AgentTyped' /\ HistoryTyped'
  BY DEF BaseInv, CursorTyped, LoopTyped, QueueTyped, RunTyped, AgentTyped,
         HistoryTyped, RequestClose, hostVars, history
<1>2. TrafficTyped'
  BY SetsAreStored, TimesAreNat DEF BaseInv, TrafficTyped, RequestClose,
     hostVars, history
<1>3. StoreInv'
  BY <1>0, SetsAreStored DEF BaseInv, StoreInv, HistoryTyped, RequestClose,
     hostVars, history, NoLoop, NoRun, NoAgent
<1>4. RunShape'
  BY <1>0, SetsAreStored DEF BaseInv, RunShape, AgentTyped, LastTime,
     RequestClose, hostVars, history, NoRun, NoAgent, Live
<1> QED BY <1>1, <1>2, <1>3, <1>4 DEF BaseInv

LEMMA FinishCleanBase == ASSUME BaseInv, FinishClean PROVE BaseInv'
<1>0. Stored' = Stored
  BY DEF Stored, FinishClean, Abandon, EndRun
<1>1. CursorTyped' /\ LoopTyped' /\ TrafficTyped'
  BY DEF BaseInv, CursorTyped, LoopTyped, TrafficTyped, FinishClean,
         Abandon, EndRun
<1>2. QueueTyped'
  BY DEF BaseInv, QueueTyped, FinishClean, Abandon, EndRun
<1>3. RunTyped'
  BY SetsAreStored DEF BaseInv, RunTyped, CursorTyped, NoRun, FinishClean,
     Abandon, EndRun
<1>4. AgentTyped'
  BY SetsAreStored DEF BaseInv, AgentTyped, TrafficTyped, NoAgent, Live,
     FinishClean, Abandon, EndRun
<1>5. HistoryTyped'
  BY SetsAreStored, TimesAreNat DEF BaseInv, HistoryTyped, TrafficTyped,
     FinishClean, Abandon, EndRun
<1>6. StoreInv'
  BY <1>0, SetsAreStored DEF BaseInv, StoreInv, HistoryTyped, FinishClean,
     Abandon, EndRun, NoLoop, NoRun, NoAgent
<1>7. RunShape'
  BY <1>0, SetsAreStored DEF BaseInv, RunShape, AgentTyped, LastTime,
     FinishClean, Abandon, EndRun, NoRun, NoAgent, Live
<1> QED BY <1>1, <1>2, <1>3, <1>4, <1>5, <1>6, <1>7 DEF BaseInv

LEMMA FinishFailedBase == ASSUME BaseInv, FinishFailed PROVE BaseInv'
<1>0. Stored' = Stored
  BY DEF Stored, FinishFailed, Abandon, EndRun, ScheduleRetry
<1>1. LoopTyped'
  BY DEF BaseInv, LoopTyped, FinishFailed, Abandon, EndRun, ScheduleRetry
<1>2. CursorTyped'
  BY TimesAreNat DEF BaseInv, CursorTyped, RunTyped, FinishFailed, Abandon,
     EndRun, ScheduleRetry
<1>3. QueueTyped'
  BY DEF BaseInv, QueueTyped, FinishFailed, Abandon, EndRun, ScheduleRetry
<1>4. RunTyped'
  BY SetsAreStored DEF BaseInv, RunTyped, CursorTyped, NoRun, FinishFailed,
     Abandon, EndRun, ScheduleRetry
<1>5. AgentTyped'
  BY SetsAreStored DEF BaseInv, AgentTyped, TrafficTyped, NoAgent, Live,
     FinishFailed, Abandon, EndRun, ScheduleRetry
<1>6. TrafficTyped'
  BY SetsAreStored, TimesAreNat DEF BaseInv, TrafficTyped, FinishFailed,
     Abandon, EndRun, ScheduleRetry
<1>7. HistoryTyped'
  BY SetsAreStored, TimesAreNat DEF BaseInv, HistoryTyped, TrafficTyped,
     FinishFailed, Abandon, EndRun, ScheduleRetry
<1>8. StoreInv'
  BY <1>0, SetsAreStored DEF BaseInv, StoreInv, HistoryTyped, FinishFailed,
     Abandon, EndRun, ScheduleRetry, NoLoop, NoRun, NoAgent
<1>9. RunShape'
  BY <1>0, SetsAreStored DEF BaseInv, RunShape, AgentTyped, LastTime,
     FinishFailed, Abandon, EndRun, ScheduleRetry, NoRun, NoAgent, Live
<1> QED BY <1>1, <1>2, <1>3, <1>4, <1>5, <1>6, <1>7, <1>8, <1>9 DEF BaseInv

LEMMA TimerFiresBase == ASSUME BaseInv, TimerFires PROVE BaseInv'
<1>0. Stored' = Stored
  BY DEF Stored, TimerFires, agentVars, history
<1>1. CursorTyped' /\ LoopTyped' /\ RunTyped' /\ AgentTyped'
      /\ TrafficTyped' /\ HistoryTyped'
  BY DEF BaseInv, CursorTyped, LoopTyped, RunTyped, AgentTyped,
         TrafficTyped, HistoryTyped, TimerFires, agentVars, history
<1>2. QueueTyped'
  BY DEF BaseInv, QueueTyped, TimerFires, agentVars, history
<1>3. StoreInv'
  BY <1>0, SetsAreStored DEF BaseInv, StoreInv, HistoryTyped, TimerFires,
     agentVars, history, NoLoop, NoRun, NoAgent
<1>4. RunShape'
  BY <1>0, SetsAreStored DEF BaseInv, RunShape, AgentTyped, LastTime,
     TimerFires, agentVars, history, NoRun, NoAgent, Live
<1> QED BY <1>1, <1>2, <1>3, <1>4 DEF BaseInv

LEMMA RestartBase == ASSUME BaseInv, Restart PROVE BaseInv'
<1>0. Stored' = Stored
  BY DEF Stored, Restart, ForgetMemory, Abandon
<1>1. CursorTyped'
  BY DEF BaseInv, CursorTyped, Restart, ForgetMemory, Abandon
<1>2. LoopTyped'
  BY SetsAreStored DEF BaseInv, LoopTyped, NoLoop, Restart, ForgetMemory,
     Abandon
<1>3. QueueTyped'
  BY DEF BaseInv, QueueTyped, Restart, ForgetMemory, Abandon
<1>4. RunTyped'
  BY SetsAreStored DEF BaseInv, RunTyped, CursorTyped, NoRun, Restart,
     ForgetMemory, Abandon
<1>5. AgentTyped'
  BY SetsAreStored DEF BaseInv, AgentTyped, TrafficTyped, NoAgent, Live,
     Restart, ForgetMemory, Abandon
<1>6. TrafficTyped'
  <2>1. replies' \in Seq(SUBSET Ids)
    BY EmptySeq DEF Restart, ForgetMemory
  <2> QED BY <2>1 DEF BaseInv, TrafficTyped, Restart, ForgetMemory
<1>7. HistoryTyped'
  BY SetsAreStored, TimesAreNat DEF BaseInv, HistoryTyped, TrafficTyped,
     Restart, ForgetMemory, Abandon
<1>8. StoreInv'
  BY <1>0, SetsAreStored DEF BaseInv, StoreInv, HistoryTyped, Restart,
     ForgetMemory, Abandon, NoLoop, NoRun, NoAgent
<1>9. RunShape'
  BY <1>0, SetsAreStored DEF BaseInv, RunShape, AgentTyped, LastTime,
     Restart, ForgetMemory, Abandon, NoRun, NoAgent, Live
<1> QED BY <1>1, <1>2, <1>3, <1>4, <1>5, <1>6, <1>7, <1>8, <1>9 DEF BaseInv

LEMMA AgentBootBase == ASSUME BaseInv, AgentBoot PROVE BaseInv'
<1>0. Stored' = Stored
  BY DEF Stored, AgentBoot, AgentUnchanged
<1>1. CursorTyped' /\ LoopTyped' /\ QueueTyped' /\ RunTyped'
      /\ HistoryTyped'
  BY DEF BaseInv, CursorTyped, LoopTyped, QueueTyped, RunTyped,
         HistoryTyped, AgentBoot, AgentUnchanged
<1>2. AgentTyped'
  BY SetsAreStored DEF BaseInv, AgentTyped, TrafficTyped, NoAgent, Live,
     AgentBoot, AgentUnchanged
<1>3. TrafficTyped'
  BY SetsAreStored, TimesAreNat DEF BaseInv, TrafficTyped, AgentBoot,
     AgentUnchanged
<1>4. StoreInv'
  BY <1>0, SetsAreStored DEF BaseInv, StoreInv, HistoryTyped, AgentBoot,
     AgentUnchanged, NoLoop, NoRun, NoAgent
<1>5. RunShape'
  BY <1>0, SetsAreStored DEF BaseInv, RunShape, AgentTyped, LastTime,
     AgentBoot, AgentUnchanged, NoRun, NoAgent, Live
<1> QED BY <1>1, <1>2, <1>3, <1>4, <1>5 DEF BaseInv

LEMMA AgentPollBase == ASSUME BaseInv, AgentPoll PROVE BaseInv'
<1>0. Stored' = Stored
  BY DEF Stored, AgentPoll, AgentUnchanged
<1>1. CursorTyped' /\ LoopTyped' /\ QueueTyped' /\ RunTyped'
      /\ HistoryTyped'
  BY DEF BaseInv, CursorTyped, LoopTyped, QueueTyped, RunTyped,
         HistoryTyped, AgentPoll, AgentUnchanged
<1>2. AgentTyped'
  <2>1. CASE agent' = [agent EXCEPT !.pc = "closing"] /\ UNCHANGED inbox
    BY <1>0, <2>1 DEF BaseInv, AgentTyped, TrafficTyped, Live
  <2>2. CASE agent.pc = "waiting" /\ inbox' = {}
             /\ agent' = [agent EXCEPT !.pc = "turn", !.turn = inbox]
    BY <1>0, <2>2 DEF BaseInv, AgentTyped, TrafficTyped, Live
  <2>3. CASE agent.pc = "turn" /\ inbox' = {}
             /\ agent' = [agent EXCEPT !.backlog = @ \cup inbox]
    BY <1>0, <2>3 DEF BaseInv, AgentTyped, TrafficTyped, Live
  <2> QED BY <2>1, <2>2, <2>3 DEF AgentPoll
<1>3. TrafficTyped'
  BY SetsAreStored, TimesAreNat DEF BaseInv, TrafficTyped, AgentPoll,
     AgentUnchanged
<1>4. StoreInv'
  <2>1. CASE agent' = [agent EXCEPT !.pc = "closing"] /\ UNCHANGED inbox
    BY <1>0, <2>1 DEF BaseInv, StoreInv, AgentTyped, AgentPoll,
             AgentUnchanged
  <2>2. CASE agent.pc = "waiting" /\ inbox' = {}
             /\ agent' = [agent EXCEPT !.pc = "turn", !.turn = inbox]
    BY <1>0, <2>2 DEF BaseInv, StoreInv, AgentTyped, AgentPoll,
             AgentUnchanged
  <2>3. CASE agent.pc = "turn" /\ inbox' = {}
             /\ agent' = [agent EXCEPT !.backlog = @ \cup inbox]
    BY <1>0, <2>3 DEF BaseInv, StoreInv, AgentTyped, AgentPoll,
             AgentUnchanged
  <2> QED BY <2>1, <2>2, <2>3 DEF AgentPoll
<1>5. RunShape'
  <2>1. CASE agent' = [agent EXCEPT !.pc = "closing"] /\ UNCHANGED inbox
    BY <1>0, <2>1 DEF BaseInv, RunShape, AgentTyped, LastTime, NoAgent,
             AgentPoll, AgentUnchanged
  <2>2. CASE agent.pc = "waiting" /\ inbox' = {}
             /\ agent' = [agent EXCEPT !.pc = "turn", !.turn = inbox]
    BY <1>0, <2>2 DEF BaseInv, RunShape, AgentTyped, LastTime, NoAgent,
             AgentPoll, AgentUnchanged
  <2>3. CASE agent.pc = "turn" /\ inbox' = {}
             /\ agent' = [agent EXCEPT !.backlog = @ \cup inbox]
    BY <1>0, <2>3 DEF BaseInv, RunShape, AgentTyped, LastTime, NoAgent,
             AgentPoll, AgentUnchanged
  <2> QED BY <2>1, <2>2, <2>3 DEF AgentPoll
<1> QED BY <1>1, <1>2, <1>3, <1>4, <1>5 DEF BaseInv

LEMMA AgentRepliesBase == ASSUME BaseInv, AgentReplies PROVE BaseInv'
<1>0. Stored' = Stored
  BY DEF Stored, AgentReplies, AgentUnchanged, Abandon
<1>1. CursorTyped' /\ LoopTyped' /\ QueueTyped'
  BY DEF BaseInv, CursorTyped, LoopTyped, QueueTyped, AgentReplies,
         AgentUnchanged, Abandon
<1>2. RunTyped'
  BY SetsAreStored DEF BaseInv, RunTyped, CursorTyped, NoRun, AgentReplies,
     AgentUnchanged, Abandon
<1>3. AgentTyped'
  BY SetsAreStored DEF BaseInv, AgentTyped, TrafficTyped, NoAgent, Live,
     AgentReplies, AgentUnchanged, Abandon
<1>4. TrafficTyped'
  <2>1. replies' \in Seq(SUBSET Ids)
    BY AppendElements
       DEF BaseInv, TrafficTyped, AgentTyped, AgentReplies
  <2> QED BY <2>1 DEF BaseInv, TrafficTyped, AgentReplies, AgentUnchanged
<1>5. HistoryTyped'
  <2>1. abandoned' \subseteq Ids
    BY SetsAreStored DEF BaseInv, HistoryTyped, AgentTyped, AgentReplies, Abandon
  <2> QED BY <2>1 DEF BaseInv, HistoryTyped, AgentReplies, AgentUnchanged
<1>6. StoreInv'
  <2>1. \A i \in DOMAIN replies' : replies'[i] \subseteq Stored
    <3>1. /\ \A i \in DOMAIN replies : replies[i] \subseteq Stored
          /\ agent.turn \subseteq Stored /\ agent.turn \in SUBSET Ids
          /\ replies \in Seq(SUBSET Ids)
      BY DEF BaseInv, StoreInv, AgentTyped, TrafficTyped
    <3>2. CASE replies' = replies
      BY <3>1, <3>2
    <3>3. CASE replies' = Append(replies, agent.turn)
      BY <3>1, <3>3, AppendElements
    <3> QED BY <3>2, <3>3 DEF AgentReplies
  <2>2. agent'.turn \subseteq Stored /\ agent'.backlog \subseteq Stored
    BY DEF BaseInv, StoreInv, AgentReplies
  <2>3. run'.pc = run.pc /\ run'.batch = run.batch
    BY DEF BaseInv, RunTyped, AgentReplies
  <2> QED BY <1>0, <2>1, <2>2, <2>3
          DEF BaseInv, StoreInv, AgentReplies, AgentUnchanged
<1>7. RunShape'
  BY <1>0, SetsAreStored DEF BaseInv, RunShape, AgentTyped, LastTime,
     AgentReplies, AgentUnchanged, Abandon, NoRun, NoAgent, Live
<1> QED BY <1>1, <1>2, <1>3, <1>4, <1>5, <1>6, <1>7 DEF BaseInv

LEMMA AgentEndsBase == ASSUME BaseInv, AgentEnds PROVE BaseInv'
<1>0. Stored' = Stored
  BY DEF Stored, AgentEnds, AgentUnchanged
<1>1. CursorTyped' /\ LoopTyped' /\ QueueTyped' /\ RunTyped'
      /\ TrafficTyped' /\ HistoryTyped'
  BY DEF BaseInv, CursorTyped, LoopTyped, QueueTyped, RunTyped,
         TrafficTyped, HistoryTyped, AgentEnds, AgentUnchanged
<1>2. AgentTyped'
  BY SetsAreStored DEF BaseInv, AgentTyped, TrafficTyped, NoAgent, Live,
     AgentEnds, AgentUnchanged
<1>3. StoreInv'
  <2>1. agent'.turn = agent.turn /\ agent'.backlog = agent.backlog
    BY DEF BaseInv, AgentTyped, AgentEnds
  <2> QED BY <1>0, <2>1 DEF BaseInv, StoreInv, AgentEnds, AgentUnchanged
<1>4. RunShape'
  BY <1>0, SetsAreStored DEF BaseInv, RunShape, AgentTyped, LastTime,
     AgentEnds, AgentUnchanged, NoRun, NoAgent, Live
<1> QED BY <1>1, <1>2, <1>3, <1>4 DEF BaseInv

\* A new message gets the next id and no earlier timestamp than the others.
LEMMA ArriveLogs ==
    ASSUME BaseInv, NEW command \in BOOLEAN, Arrive(command)
    PROVE  LET n == Len(log) + 1
           IN  /\ Len(log) \in Nat /\ n \in Ids \ Stored
               /\ Stored' = Stored \cup {n}
               /\ Len(log') = n /\ log' # <<>>
               /\ CursorTyped'
               /\ \A m \in Stored : m < n /\ log'[m] = log[m]
               /\ log'[n].ts \in Nat /\ LastTime \in Nat
               /\ LastTime' = log'[n].ts /\ LastTime <= log'[n].ts
               /\ \A m \in Stored : log[m].ts \in Nat /\ log[m].ts <= LastTime
               /\ log'[n].command = command
               /\ abandoned' = IF log'[n].ts <= cursor /\ ~command
                               THEN abandoned \cup {n} ELSE abandoned
               /\ unnoticed' = IF log'[n].ts <= seen
                               THEN unnoticed \cup {n} ELSE unnoticed
<1> DEFINE n == Len(log) + 1
<1>0. /\ LogTyped /\ Len(log) \in Nat /\ Len(log) < MaxMessages
      /\ log \in Seq([ts : Nat, command : BOOLEAN])
  BY BaseLogTyped, StoredTyped DEF Arrive, LogTyped
<1>1. LastTime \in Nat /\ \A m \in Stored : log[m].ts \in Nat /\ log[m].ts <= LastTime
  <2>1. CASE log = <<>>
    BY <1>0, <2>1, EmptySeq DEF LastTime, Stored
  <2>2. CASE log # <<>>
    <3>1. Len(log) \in Stored /\ LastTime = log[Len(log)].ts
      BY <1>0, <2>2, StoredTyped
    <3>2. \A m \in Stored : m <= Len(log)
      BY DEF Stored
    <3> QED BY <1>0, <3>1, <3>2, StoredTyped DEF LogTyped
  <2> QED BY <2>1, <2>2
<1>2. PICK ts \in {LastTime, LastTime + 1} :
         /\ log' = Append(log, [ts |-> ts, command |-> command])
         /\ abandoned' = IF ts <= cursor /\ ~command
                         THEN abandoned \cup {n} ELSE abandoned
         /\ unnoticed' = IF ts <= seen THEN unnoticed \cup {n} ELSE unnoticed
  BY DEF Arrive
<1>3. ts \in Nat /\ LastTime <= ts
  BY <1>1, <1>2
<1> DEFINE new == [ts |-> ts, command |-> command]
<1>4. new \in [ts : Nat, command : BOOLEAN] /\ new.ts = ts /\ new.command = command
  BY <1>3
<1> HIDE DEF new
<1>5. /\ log' \in Seq([ts : Nat, command : BOOLEAN])
      /\ log' # <<>> /\ Len(log') = n
      /\ \A m \in 1 .. Len(log) : log'[m] = log[m]
      /\ log'[n] = new
  BY <1>0, <1>2, <1>4, AppendProperties DEF new
<1>6. n \in Ids \ Stored /\ Stored' = Stored \cup {n} /\ \A m \in Stored : m < n
  BY <1>0, <1>5 DEF Stored, Ids
<1>7. CursorTyped'
  BY <1>5 DEF CursorTyped, BaseInv, Arrive, hostVars
<1>8. LastTime' = ts
  BY <1>4, <1>5 DEF LastTime
<1> QED BY <1>0, <1>1, <1>2, <1>3, <1>4, <1>5, <1>6, <1>7, <1>8 DEF Stored

LEMMA ArriveBase ==
    ASSUME BaseInv, NEW command \in BOOLEAN, Arrive(command)
    PROVE  BaseInv'
<1> DEFINE n == Len(log) + 1
<1>0. /\ Len(log) \in Nat /\ n \in Ids \ Stored
      /\ Stored' = Stored \cup {n} /\ Len(log') = n /\ log' # <<>>
      /\ CursorTyped'
      /\ \A m \in Stored : m < n /\ log'[m] = log[m]
      /\ log'[n].ts \in Nat /\ LastTime \in Nat
      /\ LastTime' = log'[n].ts /\ LastTime <= log'[n].ts
      /\ \A m \in Stored : log[m].ts \in Nat /\ log[m].ts <= LastTime
      /\ abandoned' \subseteq abandoned \cup {n}
      /\ unnoticed' \subseteq unnoticed \cup {n}
  BY ArriveLogs
<1> HIDE DEF n
<1>1. /\ LoopTyped' /\ QueueTyped' /\ RunTyped' /\ AgentTyped'
      /\ TrafficTyped' /\ HistoryTyped'
  BY <1>0 DEF BaseInv, LoopTyped, QueueTyped, RunTyped, AgentTyped,
              TrafficTyped, HistoryTyped, Arrive, hostVars, agentVars
<1>2. StoreInv'
  <2>1. Len(log') <= MaxMessages
    BY <1>0 DEF Arrive, n
  <2>2. \A k, m \in Stored' : k <= m => log'[k].ts <= log'[m].ts
    <3> SUFFICES ASSUME NEW k \in Stored', NEW m \in Stored', k <= m
                 PROVE  log'[k].ts <= log'[m].ts
      OBVIOUS
    <3>1. CASE k \in Stored /\ m \in Stored
      BY <1>0, <3>1 DEF BaseInv, StoreInv
    <3>2. CASE k \in Stored /\ m = n
      BY <1>0, <3>2
    <3>3. CASE k = n
      <4>1. m = n
        BY <1>0, <3>3 DEF n, Stored
      <4> QED BY <1>0, <3>3, <4>1
    <3> QED BY <1>0, <3>1, <3>2, <3>3
  <2>3. \A m \in Ids \ Stored' : answered'[m] = 0
    BY <1>0 DEF BaseInv, StoreInv, Arrive
  <2> QED BY <1>0, <2>1, <2>2, <2>3
          DEF BaseInv, StoreInv, Arrive, hostVars, agentVars
<1>3. RunShape'
  <2>1. run.pc = "agent" => run.prev < LastTime'
    BY <1>0 DEF BaseInv, RunShape, RunTyped
  <2> QED BY <1>0, <2>1 DEF BaseInv, RunShape, Arrive, hostVars, agentVars
<1> QED BY <1>0, <1>1, <1>2, <1>3 DEF BaseInv

LEMMA BaseStep == BaseInv /\ [Next]_vars => BaseInv'
<1> SUFFICES ASSUME BaseInv, [Next]_vars PROVE BaseInv'
  OBVIOUS
<1>1. CASE UNCHANGED vars
  <2>1. /\ CursorTyped' /\ LoopTyped' /\ QueueTyped' /\ RunTyped'
        /\ AgentTyped' /\ TrafficTyped' /\ HistoryTyped'
    BY <1>1 DEF BaseInv, CursorTyped, LoopTyped, QueueTyped, RunTyped,
                AgentTyped, TrafficTyped, HistoryTyped,
                vars, hostVars, agentVars, history
  <2>2. StoreInv' /\ RunShape'
    BY <1>1 DEF BaseInv, StoreInv, RunShape, Stored, LastTime,
                vars, hostVars, agentVars, history
  <2> QED BY <2>1, <2>2 DEF BaseInv
<1> QED
  BY <1>1, ArriveBase, LoopPollBase, LoopCommandBase, LoopPipeBase,
     LoopEnqueueBase, LoopCommandDoneBase, RunNothingBase, RunCommandBase,
     RunPromptBase, StartFailsBase, RunCommandDoneBase, SpawnAgentBase, SendReplyBase,
     SendLateReplyBase, RequestCloseBase, FinishCleanBase, FinishFailedBase,
     TimerFiresBase, RestartBase, AgentBootBase, AgentPollBase,
     AgentRepliesBase, AgentEndsBase
  DEF Next

LEMMA BaseInvariant == Spec => []BaseInv
BY BaseInit, BaseStep, PTL DEF Spec

\* Every variable of the delivery keeps its type, whatever arrives, fails or
\* restarts: the batches, the inbox and the replies name messages, and the
\* counters of timers, retries and restarts stay within their limits.
THEOREM DeliveryTypeCorrect == Spec => []TypeOK
BY BaseInvariant, TypeParts, PTL DEF BaseInv

-----------------------------------------------------------------------------
(* Accounted.                                                              *)

\* Where the code knows a message: behind the cursor, under way, or given up.
Safe(m) == m \in After(cursor) \cup OnTheWay \cup abandoned

AccountInv == \A m \in Unanswered(Stored) : Safe(m)

LEMMA ChainedAppend ==
    ASSUME replies \in Seq(SUBSET Ids), NEW batch \in SUBSET Ids,
           replies' = Append(replies, batch)
    PROVE  Chained' = Chained \cup batch
<1>1. /\ DOMAIN replies' = DOMAIN replies \cup {Len(replies) + 1}
      /\ replies'[Len(replies) + 1] = batch
      /\ \A i \in DOMAIN replies : replies'[i] = replies[i]
  BY AppendElements
<1> QED BY <1>1 DEF Chained

LEMMA ChainedTail ==
    ASSUME replies \in Seq(SUBSET Ids), replies # <<>>, replies' = Tail(replies)
    PROVE  /\ Chained' \subseteq Chained
           /\ Head(replies) \subseteq Chained
           /\ Chained \subseteq Head(replies) \cup Chained'
<1>1. /\ 1 \in DOMAIN replies /\ Head(replies) = replies[1]
      /\ \A i \in DOMAIN replies' : i + 1 \in DOMAIN replies /\ replies'[i] = replies[i + 1]
  BY TailElements
<1>2. \A i \in DOMAIN replies : i # 1 => \E j \in DOMAIN replies' : replies'[j] = replies[i]
  <2> SUFFICES ASSUME NEW i \in DOMAIN replies, i # 1
               PROVE  i - 1 \in DOMAIN replies' /\ replies'[i - 1] = replies[i]
    OBVIOUS
  <2>1. /\ Len(Tail(replies)) = Len(replies) - 1
        /\ Tail(replies) \in Seq(SUBSET Ids)
        /\ \A j \in 1 .. Len(Tail(replies)) : Tail(replies)[j] = replies[j + 1]
    BY HeadTailProperties
  <2>2. i \in 1 .. Len(replies) /\ Len(replies) \in Nat
    BY LenProperties
  <2>3. i - 1 \in 1 .. Len(Tail(replies)) /\ (i - 1) + 1 = i
    BY <2>1, <2>2
  <2>4. DOMAIN Tail(replies) = 1 .. Len(Tail(replies))
    BY <2>1, LenProperties
  <2> QED BY <2>1, <2>3, <2>4
<1> QED BY <1>1, <1>2 DEF Chained

LEMMA ChainedEmpty ==
    /\ replies = <<>> => Chained = {}
    /\ replies' = <<>> => Chained' = {}
    /\ replies' = replies => Chained' = Chained
BY DEF Chained

LEMMA AccountInit == Init => AccountInv
BY EmptySeq DEF Init, AccountInv, Unanswered, Stored

\* A step that answers nothing and stores nothing has to keep the unanswered
\* messages where they are known.
LEMMA KnownIsKept ==
    ASSUME AccountInv, UNCHANGED <<log, answered>>,
           \A m \in Unanswered(Stored) :
              Safe(m) => Safe(m)'
    PROVE  AccountInv'
BY DEF AccountInv, Unanswered, Stored

\* A step that takes nothing away.
LEMMA NothingTaken ==
    ASSUME AccountInv, UNCHANGED <<log, answered, cursor>>,
           abandoned \subseteq abandoned', OnTheWay \subseteq OnTheWay'
    PROVE  AccountInv'
<1>1. After(cursor)' = After(cursor)
  BY DEF After, Stored
<1> QED BY <1>1, KnownIsKept DEF Safe

LEMMA ArriveAccounts ==
    ASSUME BaseInv, AccountInv, NEW command \in BOOLEAN, Arrive(command)
    PROVE  AccountInv'
<1>0. PICK n \in Ids \ Stored :
      /\ Stored' = Stored \cup {n}
      /\ \A m \in Stored : log'[m] = log[m]
      /\ log'[n].ts \in Nat /\ LastTime \in Nat /\ LastTime <= log'[n].ts
      /\ log'[n].command = command
      /\ abandoned' = IF log'[n].ts <= cursor /\ ~command
                      THEN abandoned \cup {n} ELSE abandoned
  BY ArriveLogs
<1>1. /\ UNCHANGED <<cursor, run, answered>> /\ OnTheWay' = OnTheWay
  BY ChainedEmpty DEF Arrive, hostVars, agentVars, OnTheWay, InHand
<1>3. ASSUME NEW m \in Unanswered(Stored)', m \in Stored
      PROVE  Safe(m)'
  BY <1>0, <1>1, <1>3 DEF AccountInv, Unanswered, Safe, After
<1>4. ASSUME n \in Unanswered(Stored)'
      PROVE  Safe(n)'
  <2>1. ~command /\ cursor \in Nat
    BY <1>0, <1>4 DEF Unanswered, BaseInv, CursorTyped
  <2> QED BY <1>0, <1>1, <2>1 DEF Safe, After
<1> QED BY <1>0, <1>3, <1>4 DEF AccountInv, Unanswered

LEMMA LoopPipeAccounts ==
    ASSUME BaseInv, AccountInv, LoopPipe PROVE AccountInv'
<1>1. UNCHANGED <<log, answered, run, agent, replies, late>>
  BY DEF LoopPipe, LoopUnchanged
<1>2. OnTheWay' = OnTheWay \cup ToSend
  BY <1>1, ChainedEmpty DEF LoopPipe, OnTheWay, InHand
<1>3. abandoned' = abandoned \cup Unanswered(After(cursor) \ Pending)
  BY DEF LoopPipe, Abandon
<1>4. \A m \in Unanswered(Stored) : m \in After(cursor) =>
         m \in ToSend \/ m \in abandoned'
  BY <1>3 DEF ToSend, Unanswered
<1> QED BY <1>1, <1>2, <1>3, <1>4, KnownIsKept DEF Safe

\* The command at the end of a batch gives up what lies before it.
LEMMA CommandAccounts ==
    ASSUME AccountInv, UNCHANGED <<log, answered>>, OnTheWay' = OnTheWay,
           abandoned' = abandoned \cup
              Unanswered((After(cursor) \ After(cursor')) \ OnTheWay)
    PROVE  AccountInv'
<1>1. After(cursor)' = After(cursor')
  BY DEF After, Stored
<1>2. \A m \in Unanswered(Stored) :
         m \in After(cursor) => m \in After(cursor') \cup OnTheWay \cup abandoned'
  BY DEF Unanswered
<1> QED BY <1>1, <1>2, KnownIsKept DEF Safe

LEMMA LoopCommandDoneAccounts ==
    ASSUME BaseInv, AccountInv, LoopCommandDone PROVE AccountInv'
<1>1. UNCHANGED <<log, answered>> /\ OnTheWay' = OnTheWay
  BY ChainedEmpty DEF LoopCommandDone, LoopUnchanged, OnTheWay, InHand
<1>2. CASE abandoned' = abandoned \cup
              Unanswered((After(cursor) \ After(cursor')) \ OnTheWay)
  BY <1>1, <1>2, CommandAccounts
<1>3. CASE UNCHANGED <<cursor, abandoned>>
  BY <1>1, <1>3, NothingTaken
<1> QED BY <1>2, <1>3 DEF LoopCommandDone, Abandon

LEMMA RunCommandDoneAccounts ==
    ASSUME BaseInv, AccountInv, RunCommandDone PROVE AccountInv'
<1>1. UNCHANGED <<log, answered>> /\ OnTheWay' = OnTheWay
  BY ChainedEmpty DEF RunCommandDone, RunUnchanged, OnTheWay, InHand
<1>2. CASE abandoned' = abandoned \cup
              Unanswered((After(cursor) \ After(cursor')) \ OnTheWay)
  BY <1>1, <1>2, CommandAccounts
<1>3. CASE UNCHANGED <<cursor, abandoned>>
  BY <1>1, <1>3, NothingTaken
<1> QED BY <1>2, <1>3 DEF RunCommandDone, Abandon

LEMMA RunPromptAccounts ==
    ASSUME BaseInv, AccountInv, RunPrompt PROVE AccountInv'
<1>1. UNCHANGED <<log, answered, inbox, replies, late>>
  BY DEF RunPrompt, RunUnchanged
<1>2. agent.turn = {} /\ agent'.turn = Pending /\ agent'.backlog = agent.backlog
  BY DEF RunPrompt, BaseInv, RunShape, AgentTyped, NoAgent
<1>3. OnTheWay' = OnTheWay \cup Pending
  BY <1>1, <1>2, ChainedEmpty DEF OnTheWay, InHand
<1>4. abandoned' = abandoned \cup Unanswered(After(cursor) \ Pending)
  BY DEF RunPrompt, Abandon
<1>5. \A m \in Unanswered(Stored) : m \in After(cursor) =>
         m \in Pending \/ m \in abandoned'
  BY <1>4 DEF Unanswered
<1> QED BY <1>1, <1>3, <1>4, <1>5, KnownIsKept DEF Safe

LEMMA StartFailsAccounts ==
    ASSUME BaseInv, AccountInv, StartFails PROVE AccountInv'
<1>0. /\ UNCHANGED <<log, answered, cursor, inbox, replies, late>>
      /\ abandoned' = abandoned \cup
            Unanswered(agent.turn \ (After(cursor) \cup inbox \cup late))
  BY DEF StartFails, RunUnchanged, Abandon
<1>1. After(cursor)' = After(cursor)
  BY <1>0 DEF After, Stored
<1>2. agent.backlog = {} /\ replies = <<>>
  BY DEF StartFails, BaseInv, RunShape
<1>3. InHand = agent.turn
  BY <1>2, ChainedEmpty DEF InHand
<1>4. \A m \in Unanswered(Stored) : m \in agent.turn =>
         m \in After(cursor) \cup inbox \cup late \cup abandoned'
  BY <1>0 DEF Unanswered
<1>5. inbox \cup late \subseteq OnTheWay'
  BY <1>0 DEF OnTheWay
<1> QED BY <1>0, <1>1, <1>3, <1>4, <1>5, KnownIsKept DEF Safe, OnTheWay

LEMMA SendReplyAccounts ==
    ASSUME BaseInv, AccountInv, SendReply PROVE AccountInv'
<1>0. /\ replies \in Seq(SUBSET Ids) /\ replies # <<>>
      /\ UNCHANGED <<log, cursor, inbox, agent, late>>
      /\ answered \in [Ids -> Nat] /\ Stored \subseteq Ids
  BY SetsAreStored DEF SendReply, BaseInv, TrafficTyped, HistoryTyped
<1>1. After(cursor)' = After(cursor)
  BY <1>0 DEF After, Stored
<1>2. CASE /\ replies' = Tail(replies) /\ abandoned' = abandoned
           /\ answered' = [m \in Ids |-> IF m \in Head(replies)
                                         THEN answered[m] + 1 ELSE answered[m]]
  <2>1. Chained \subseteq Head(replies) \cup Chained'
    BY <1>0, <1>2, ChainedTail
  <2>2. \A m \in Unanswered(Stored)' :
           m \in Unanswered(Stored) /\ m \notin Head(replies)
    BY <1>0, <1>2 DEF Unanswered, Stored
  <2>3. OnTheWay \subseteq OnTheWay' \cup Head(replies)
    BY <1>0, <2>1 DEF OnTheWay, InHand
  <2> QED BY <1>0, <1>1, <1>2, <2>2, <2>3 DEF AccountInv, Safe
<1>3. CASE /\ replies' = <<>> /\ answered' = answered
           /\ abandoned' = abandoned \cup Unanswered(Chained)
  <2>1. OnTheWay \subseteq OnTheWay' \cup Chained
    BY <1>0 DEF OnTheWay, InHand
  <2>2. \A m \in Unanswered(Stored) : m \in Chained => m \in abandoned'
    BY <1>3 DEF Unanswered
  <2> QED BY <1>0, <1>1, <1>3, <2>1, <2>2, KnownIsKept DEF Safe
<1> QED BY <1>2, <1>3 DEF SendReply, Abandon

LEMMA SendLateReplyAccounts ==
    ASSUME BaseInv, AccountInv, SendLateReply PROVE AccountInv'
<1>0. /\ UNCHANGED <<log, cursor, inbox, agent, replies>>
      /\ answered \in [Ids -> Nat] /\ Stored \subseteq Ids
  BY SetsAreStored DEF SendLateReply, hostVars, BaseInv, HistoryTyped
<1>1. After(cursor)' = After(cursor)
  BY <1>0 DEF After, Stored
<1>2. PICK sent \in SUBSET late :
         /\ answered' = [m \in Ids |-> IF m \in sent
                                       THEN answered[m] + 1 ELSE answered[m]]
         /\ abandoned' = abandoned \cup Unanswered(
               (late \ sent) \ (After(cursor) \cup InHand \cup inbox))
  BY DEF SendLateReply, Abandon
<1>3. \A m \in Unanswered(Stored)' : m \in Unanswered(Stored) /\ m \notin sent
  BY <1>0, <1>2 DEF Unanswered, Stored
<1>4. \A m \in Unanswered(Stored) \ sent : m \in late =>
         m \in After(cursor) \cup InHand \cup inbox \cup abandoned'
  BY <1>2 DEF Unanswered
<1>5. inbox \cup InHand \subseteq OnTheWay' /\ OnTheWay = inbox \cup InHand \cup late
  BY <1>0, ChainedEmpty DEF OnTheWay, InHand
<1>6. abandoned \subseteq abandoned'
  BY <1>2
<1> QED BY <1>0, <1>1, <1>3, <1>4, <1>5, <1>6 DEF AccountInv, Safe

LEMMA FinishCleanAccounts ==
    ASSUME BaseInv, AccountInv, FinishClean PROVE AccountInv'
<1>0. /\ UNCHANGED <<log, answered, cursor, inbox, late>>
      /\ abandoned' = abandoned \cup Unanswered(InHand)
  BY DEF FinishClean, Abandon
<1>1. After(cursor)' = After(cursor)
  BY <1>0 DEF After, Stored
<1>2. \A m \in Unanswered(Stored) : m \in InHand => m \in abandoned'
  BY <1>0 DEF Unanswered
<1>3. OnTheWay \subseteq OnTheWay' \cup InHand
  BY <1>0 DEF OnTheWay
<1> QED BY <1>0, <1>1, <1>2, <1>3, KnownIsKept DEF Safe

LEMMA FinishFailedAccounts ==
    ASSUME BaseInv, AccountInv, FinishFailed PROVE AccountInv'
<1>0. UNCHANGED <<log, answered, inbox>> /\ late' = late \cup Chained
  BY DEF FinishFailed
<1>1. OnTheWay \subseteq OnTheWay' \cup (InHand \ Chained)
  BY <1>0 DEF OnTheWay
<1>2. After(cursor)' = After(cursor')
  BY <1>0 DEF After, Stored
<1>3. CASE cursor' = cursor /\ abandoned' = abandoned \cup Unanswered(InHand \ Chained)
  <2>1. \A m \in Unanswered(Stored) : m \in InHand \ Chained => m \in abandoned'
    BY <1>3 DEF Unanswered
  <2> QED BY <1>0, <1>1, <1>2, <1>3, <2>1, KnownIsKept DEF Safe
<1>4. CASE /\ cursor' = run.prev
           /\ abandoned' = abandoned \cup Unanswered(
                 ((InHand \ Chained) \cup (After(cursor) \ OnTheWay))
                    \ After(run.prev))
  <2>1. \A m \in Unanswered(Stored) :
           m \in (InHand \ Chained) \cup (After(cursor) \ OnTheWay) =>
              m \in abandoned' \/ m \in After(cursor')
    BY <1>4 DEF Unanswered
  <2> QED BY <1>0, <1>1, <1>2, <1>4, <2>1, KnownIsKept DEF Safe
<1> QED BY <1>3, <1>4 DEF FinishFailed, Abandon

LEMMA RestartAccounts ==
    ASSUME BaseInv, AccountInv, Restart PROVE AccountInv'
<1>0. /\ UNCHANGED <<log, answered, cursor, inbox>>
      /\ abandoned' = abandoned \cup
            Unanswered(((InHand \cup late) \ After(cursor)) \ inbox)
  BY DEF Restart, ForgetMemory, Abandon
<1>1. After(cursor)' = After(cursor)
  BY <1>0 DEF After, Stored
<1>2. \A m \in Unanswered(Stored) : m \in InHand \cup late =>
         m \in After(cursor) \cup inbox \cup abandoned'
  BY <1>0 DEF Unanswered
<1>3. inbox \subseteq OnTheWay' /\ OnTheWay = inbox \cup InHand \cup late
  BY <1>0 DEF OnTheWay
<1> QED BY <1>0, <1>1, <1>2, <1>3, KnownIsKept DEF Safe

\* Between its boot and its end the agent only moves messages on.
LEMMA AgentPollAccounts ==
    ASSUME BaseInv, AccountInv, AgentPoll PROVE AccountInv'
<1>0. UNCHANGED <<log, answered, cursor, replies, late, abandoned>>
  BY DEF AgentPoll, AgentUnchanged
<1>1. inbox \cup agent.turn \cup agent.backlog
         \subseteq inbox' \cup agent'.turn \cup agent'.backlog
  <2>1. CASE agent' = [agent EXCEPT !.pc = "closing"] /\ UNCHANGED inbox
    BY <2>1 DEF BaseInv, AgentTyped
  <2>2. CASE agent.pc = "waiting"
             /\ agent' = [agent EXCEPT !.pc = "turn", !.turn = inbox]
    BY <2>2 DEF BaseInv, AgentTyped, RunShape
  <2>3. CASE agent' = [agent EXCEPT !.backlog = @ \cup inbox]
    BY <2>3 DEF BaseInv, AgentTyped
  <2> QED BY <2>1, <2>2, <2>3 DEF AgentPoll
<1>2. OnTheWay \subseteq OnTheWay'
  BY <1>0, <1>1, ChainedEmpty DEF OnTheWay, InHand
<1> QED BY <1>0, <1>2, NothingTaken

LEMMA AgentRepliesAccounts ==
    ASSUME BaseInv, AccountInv, AgentReplies PROVE AccountInv'
<1>0. /\ UNCHANGED <<log, answered, cursor, inbox, late>>
      /\ agent'.turn = agent.backlog /\ agent'.backlog = {}
      /\ replies \in Seq(SUBSET Ids) /\ agent.turn \in SUBSET Ids
  BY DEF AgentReplies, AgentUnchanged, BaseInv, TrafficTyped, AgentTyped
<1>1. CASE replies' = Append(replies, agent.turn) /\ UNCHANGED abandoned
  <2>1. Chained' = Chained \cup agent.turn
    BY <1>0, <1>1, ChainedAppend
  <2>2. OnTheWay \subseteq OnTheWay'
    BY <1>0, <2>1 DEF OnTheWay, InHand
  <2> QED BY <1>0, <1>1, <2>2, NothingTaken
<1>2. CASE /\ UNCHANGED replies
           /\ abandoned' = abandoned \cup Unanswered(agent.turn)
  <2>1. OnTheWay \subseteq OnTheWay' \cup agent.turn
    BY <1>0, <1>2, ChainedEmpty DEF OnTheWay, InHand
  <2>2. \A m \in Unanswered(Stored) : m \in agent.turn => m \in abandoned'
    BY <1>2 DEF Unanswered
  <2>3. After(cursor)' = After(cursor)
    BY <1>0 DEF After, Stored
  <2> QED BY <1>0, <1>2, <2>1, <2>2, <2>3, KnownIsKept DEF Safe
<1> QED BY <1>1, <1>2 DEF AgentReplies, Abandon

LEMMA AccountStep == BaseInv /\ AccountInv /\ [Next]_vars => AccountInv'
<1> SUFFICES ASSUME BaseInv, AccountInv, [Next]_vars PROVE AccountInv'
  OBVIOUS
<1>1. CASE \/ LoopPoll \/ LoopCommand \/ LoopEnqueue \/ RunNothing \/ RunCommand
           \/ RequestClose \/ TimerFires \/ UNCHANGED vars
  <2>1. /\ UNCHANGED <<log, answered, cursor, inbox, agent, replies, late,
                       abandoned>>
    BY <1>1 DEF LoopPoll, LoopCommand, LoopEnqueue, LoopUnchanged, RunNothing,
                RunCommand, RunUnchanged, RequestClose, TimerFires, vars,
                hostVars, agentVars, history
  <2> QED BY <2>1, ChainedEmpty, NothingTaken DEF OnTheWay, InHand
<1>2. CASE SpawnAgent \/ AgentEnds \/ AgentBoot
  <2>1. UNCHANGED <<log, answered, cursor, replies, late, abandoned>>
    BY <1>2 DEF SpawnAgent, AgentEnds, AgentBoot, AgentUnchanged, history
  <2>2. inbox \cup agent.turn \cup agent.backlog
           \subseteq inbox' \cup agent'.turn \cup agent'.backlog
    BY <1>2 DEF SpawnAgent, AgentEnds, AgentBoot, BaseInv, AgentTyped
  <2>3. OnTheWay \subseteq OnTheWay'
    BY <2>1, <2>2, ChainedEmpty DEF OnTheWay, InHand
  <2> QED BY <2>1, <2>3, NothingTaken
<1> QED
  BY <1>1, <1>2, ArriveAccounts, LoopPipeAccounts, LoopCommandDoneAccounts,
     RunPromptAccounts, StartFailsAccounts, RunCommandDoneAccounts,
     SendReplyAccounts, SendLateReplyAccounts, FinishCleanAccounts,
     FinishFailedAccounts, RestartAccounts, AgentPollAccounts,
     AgentRepliesAccounts
  DEF Next

\* A message the cursor has passed is answered, on its way or given up at a
\* step that says so: no interleaving of the loop, the run, a rollback, the
\* output chain and restarts forgets one.
THEOREM NothingForgotten == Spec => []Accounted
<1>1. AccountInv => Accounted
  BY DEF AccountInv, Safe, Accounted
<1> QED BY <1>1, BaseInvariant, AccountInit, AccountStep, PTL DEF Spec

-----------------------------------------------------------------------------
(* Scheduled.                                                              *)

\* A step ahead will look at a pending message.
Watched(m) ==
    \/ log[m].ts > seen
    \/ loop.pc # "idle" /\ m \in loop.batch
    \/ run.pc = "command" /\ m \in run.batch
    \/ due
    \/ timers > 0

PendingWatched == \A m \in Unanswered(Pending) \ unnoticed : Watched(m)

InboxWatched ==
    \A m \in Unanswered(inbox) \ unnoticed : due \/ timers > 0 \/ run.pc # "none"

WatchInv == PendingWatched /\ InboxWatched

LEMMA PendingOfBase == BaseInv => Pending = After(cursor) \cap Newest
BY BaseLogTyped, PendingIsNewest DEF BaseInv, CursorTyped

\* While the log stays, what is pending depends on the cursor alone.
LEMMA PendingAfterStep ==
    ASSUME BaseInv', UNCHANGED log
    PROVE  Pending' = After(cursor') \cap Newest
<1>1. (Pending = After(cursor) \cap Newest)'
  BY PendingOfBase, PTL
<1> QED BY <1>1 DEF After, Newest, Stored

LEMMA WatchInit == Init => WatchInv
BY EmptySeq DEF Init, WatchInv, PendingWatched, InboxWatched, Unanswered,
                Pending, After, Stored

\* A step that neither moves the cursor nor takes an occasion away.
LEMMA OccasionsKept ==
    ASSUME BaseInv, BaseInv', WatchInv,
           UNCHANGED <<log, seen, cursor, loop>>,
           \A m \in Stored : answered'[m] = 0 => answered[m] = 0,
           inbox' \subseteq inbox, unnoticed \subseteq unnoticed',
           due \/ timers > 0 => due' \/ timers' > 0,
           run.pc # "none" => run'.pc # "none",
           run.pc = "command" => run'.pc = "command" /\ run'.batch = run.batch
    PROVE  WatchInv'
<1>1. Pending' = Pending /\ Pending \subseteq Stored /\ inbox \subseteq Stored
  BY PendingOfBase, PendingAfterStep, SetsAreStored DEF BaseInv, StoreInv
<1>2. PendingWatched'
  BY <1>1 DEF WatchInv, PendingWatched, Watched, Unanswered
<1>3. InboxWatched'
  BY <1>1 DEF WatchInv, InboxWatched, Unanswered
<1> QED BY <1>2, <1>3 DEF WatchInv

\* A retry is armed, or the messages are on record as left behind.
LEMMA RetryWatches ==
    ASSUME BaseInv, NEW pending, ScheduleRetry(pending)
    PROVE  /\ unnoticed \subseteq unnoticed'
           /\ timers > 0 => timers' > 0
           /\ timers' > 0 \/ pending \subseteq unnoticed'
BY DEF ScheduleRetry, BaseInv, QueueTyped

LEMMA ArriveWatched ==
    ASSUME BaseInv, BaseInv', WatchInv, NEW command \in BOOLEAN, Arrive(command)
    PROVE  WatchInv'
<1>0. PICK n \in Ids \ Stored :
         /\ Stored' = Stored \cup {n}
         /\ Len(log) \in Nat /\ Len(log') = Len(log) + 1
         /\ \A m \in Stored : log'[m] = log[m]
         /\ log'[n].ts \in Nat
         /\ unnoticed' = IF log'[n].ts <= seen
                         THEN unnoticed \cup {n} ELSE unnoticed
  BY ArriveLogs
<1>1. /\ UNCHANGED <<seen, cursor, loop, due, timers, run, inbox, answered>>
      /\ seen \in Nat
  BY DEF Arrive, hostVars, agentVars, BaseInv, CursorTyped
<1>2. Pending' \subseteq Pending \cup {n}
  <2>1. (Pending = After(cursor) \cap Newest)'
    BY PendingOfBase, PTL
  <2>2. \A m \in Stored : m \in Nat
    BY DEF Stored
  <2> QED BY <1>0, <1>1, <2>1, <2>2, PendingOfBase, DeliveryAssumption
          DEF After, Newest
<1>3. PendingWatched'
  <2> SUFFICES ASSUME NEW m \in Unanswered(Pending)', m \notin unnoticed'
               PROVE  Watched(m)'
    BY DEF PendingWatched
  <2>1. CASE m = n
    BY <1>0, <1>1, <2>1 DEF Watched
  <2>2. CASE m \in Pending
    <3>1. m \in Stored /\ m \in Unanswered(Pending) \ unnoticed
      BY <1>0, <1>1, <2>2, SetsAreStored DEF Unanswered
    <3> QED BY <1>0, <1>1, <3>1 DEF WatchInv, PendingWatched, Watched
  <2> QED BY <1>2, <2>1, <2>2 DEF Unanswered
<1>4. InboxWatched'
  <2>1. inbox \subseteq Stored /\ unnoticed \subseteq unnoticed'
    BY <1>0 DEF BaseInv, StoreInv
  <2> QED BY <1>0, <1>1, <2>1 DEF WatchInv, InboxWatched, Unanswered
<1> QED BY <1>3, <1>4 DEF WatchInv

LEMMA LoopPollWatched ==
    ASSUME BaseInv, BaseInv', WatchInv, LoopPoll PROVE WatchInv'
<1>0. UNCHANGED <<log, cursor, due, timers, run, inbox, answered, unnoticed>>
  BY DEF LoopPoll, agentVars, history
<1>1. Pending' = Pending /\ Pending \subseteq Stored
  BY <1>0, PendingOfBase, PendingAfterStep, SetsAreStored
<1>2. loop.pc = "idle" /\ loop'.pc = "polled" /\ loop'.batch = After(seen)
  BY DEF LoopPoll
<1>3. PendingWatched'
  BY <1>0, <1>1, <1>2 DEF WatchInv, PendingWatched, Watched, Unanswered, After
<1>4. InboxWatched'
  BY <1>0 DEF WatchInv, InboxWatched, Unanswered
<1> QED BY <1>3, <1>4 DEF WatchInv

LEMMA LoopCommandWatched ==
    ASSUME BaseInv, BaseInv', WatchInv, LoopCommand PROVE WatchInv'
<1>0. /\ UNCHANGED <<log, seen, cursor, due, timers, run, inbox, answered, unnoticed>>
      /\ loop'.pc = "command" /\ loop'.batch = ToSend
  BY DEF LoopCommand, LoopUnchanged
<1>1. Pending' = Pending
  BY <1>0, PendingOfBase, PendingAfterStep
<1>2. PendingWatched'
  BY <1>0, <1>1 DEF PendingWatched, Watched, Unanswered, ToSend
<1>3. InboxWatched'
  BY <1>0 DEF WatchInv, InboxWatched, Unanswered
<1> QED BY <1>2, <1>3 DEF WatchInv

\* Once the cursor stands behind the last message, nothing is pending but
\* what it was set back over.
LEMMA LoopPipeWatched ==
    ASSUME BaseInv, BaseInv', WatchInv, LoopPipe PROVE WatchInv'
<1>0. /\ UNCHANGED <<log, run>> /\ run.pc = "agent"
      /\ cursor' = log[Latest(ToSend)].ts
      /\ unnoticed' = unnoticed \cup SetBackTo(cursor')
  BY DEF LoopPipe, LoopUnchanged, CanPipe
<1>1. LogTyped /\ cursor \in Nat
  BY BaseLogTyped DEF BaseInv, CursorTyped
<1>2. After(cursor') \subseteq unnoticed'
  <2>1. CASE Pending # {}
    BY <1>0, <1>1, <2>1, PendingTime DEF ToSend
  <2>2. CASE Pending = {}
    BY <1>0, <1>1, <2>2, PendingTime DEF SetBackTo
  <2> QED BY <2>1, <2>2
<1>3. PendingWatched'
  BY <1>0, <1>2, PendingAfterStep DEF PendingWatched, Unanswered
<1> QED BY <1>0, <1>3 DEF WatchInv, InboxWatched

LEMMA LoopEnqueueWatched ==
    ASSUME LoopEnqueue PROVE WatchInv'
BY DEF LoopEnqueue, WatchInv, PendingWatched, InboxWatched, Watched

\* A batch with a command at its end: the cursor moves behind it, and what it
\* was set back over is on record.
LEMMA BatchDoneWatched ==
    ASSUME BaseInv, BaseInv', WatchInv,
           UNCHANGED <<log, seen, due, timers, answered>>,
           NEW batch \in SUBSET Stored, batch # {},
           cursor' = log[Latest(batch)].ts,
           unnoticed \cup SetBackTo(cursor') \subseteq unnoticed',
           \A m \in Stored \ batch :
              /\ loop.pc # "idle" /\ m \in loop.batch
                    => loop'.pc # "idle" /\ m \in loop'.batch
              /\ run.pc = "command" /\ m \in run.batch
                    => run'.pc = "command" /\ m \in run'.batch
    PROVE  PendingWatched'
<1> SUFFICES ASSUME NEW m \in Unanswered(Pending)', m \notin unnoticed'
             PROVE  Watched(m)'
  BY DEF PendingWatched
<1>1. m \in After(cursor') \cap Newest
  BY PendingAfterStep DEF Unanswered
<1>2. m \in After(cursor) /\ m \notin unnoticed
  BY <1>1 DEF SetBackTo
<1>3. m \in Pending /\ m \in Stored
  BY <1>1, <1>2, PendingOfBase DEF After
<1>4. m \notin batch
  BY <1>1, BaseLogTyped, BatchTime
<1>5. Watched(m)
  BY <1>2, <1>3 DEF WatchInv, PendingWatched, Unanswered
<1> QED BY <1>3, <1>4, <1>5 DEF Watched

LEMMA LoopCommandDoneWatched ==
    ASSUME BaseInv, BaseInv', WatchInv, LoopCommandDone PROVE WatchInv'
<1>0. /\ UNCHANGED <<log, seen, due, timers, run, inbox, answered>>
      /\ loop.pc = "command" /\ unnoticed \subseteq unnoticed'
  BY DEF LoopCommandDone, LoopUnchanged
<1>1. InboxWatched'
  BY <1>0 DEF WatchInv, InboxWatched, Unanswered
<1>2. CASE /\ cursor' = log[Latest(loop.batch)].ts
           /\ unnoticed' = unnoticed \cup SetBackTo(cursor')
  <2>1. loop.batch \subseteq Stored /\ loop.batch # {}
    BY <1>0 DEF BaseInv, StoreInv
  <2>2. PendingWatched'
    BY <1>0, <1>2, <2>1, BatchDoneWatched
  <2> QED BY <1>1, <2>2 DEF WatchInv
<1>3. CASE /\ UNCHANGED cursor
           /\ unnoticed' = unnoticed \cup After(cursor)
  <2>1. PendingWatched'
    BY <1>0, <1>3, PendingAfterStep DEF PendingWatched, Unanswered
  <2> QED BY <1>1, <2>1 DEF WatchInv
<1> QED BY <1>2, <1>3 DEF LoopCommandDone

LEMMA RunNothingWatched ==
    ASSUME BaseInv, BaseInv', WatchInv, RunNothing PROVE WatchInv'
<1>0. /\ UNCHANGED <<log, cursor, inbox>> /\ Pending = {}
      /\ inbox \subseteq unnoticed'
  BY DEF RunNothing, RunUnchanged
<1>1. Pending' = {}
  BY <1>0, PendingOfBase, PendingAfterStep
<1> QED BY <1>0, <1>1 DEF WatchInv, PendingWatched, InboxWatched, Unanswered

LEMMA RunCommandWatched ==
    ASSUME BaseInv, BaseInv', RunCommand PROVE WatchInv'
<1>0. /\ UNCHANGED <<log, cursor>>
      /\ run'.pc = "command" /\ run'.batch = Pending
  BY DEF RunCommand, RunUnchanged, BaseInv, RunTyped
<1>1. Pending' = Pending
  BY <1>0, PendingOfBase, PendingAfterStep
<1> QED BY <1>0, <1>1 DEF WatchInv, PendingWatched, InboxWatched, Watched, Unanswered

LEMMA RunPromptWatched ==
    ASSUME BaseInv, BaseInv', RunPrompt PROVE WatchInv'
<1>0. /\ UNCHANGED log /\ Pending # {}
      /\ cursor' = log[Latest(Pending)].ts /\ run'.pc = "agent"
  BY DEF RunPrompt, RunUnchanged, BaseInv, RunTyped
<1>1. After(cursor') = {}
  BY <1>0, BaseLogTyped, PendingTime DEF BaseInv, CursorTyped
<1>2. Pending' = {}
  BY <1>0, <1>1, PendingAfterStep
<1> QED BY <1>0, <1>2 DEF WatchInv, PendingWatched, InboxWatched, Unanswered

LEMMA RunCommandDoneWatched ==
    ASSUME BaseInv, BaseInv', WatchInv, RunCommandDone PROVE WatchInv'
<1>0. /\ UNCHANGED <<log, seen, loop, due, inbox, answered>>
      /\ run.pc = "command"
  BY DEF RunCommandDone, RunUnchanged
<1>1. CASE /\ cursor' = log[Latest(run.batch)].ts
           /\ unnoticed' = unnoticed \cup SetBackTo(cursor') \cup inbox
           /\ UNCHANGED timers
  <2>1. run.batch \subseteq Stored /\ run.batch # {}
    BY <1>0 DEF BaseInv, StoreInv
  <2>2. PendingWatched'
    BY <1>0, <1>1, <2>1, BatchDoneWatched
  <2>3. InboxWatched'
    BY <1>0, <1>1 DEF InboxWatched, Unanswered
  <2> QED BY <2>2, <2>3 DEF WatchInv
<1>2. CASE ScheduleRetry(After(cursor) \cup inbox) /\ UNCHANGED cursor
  <2>1. timers' > 0 \/ After(cursor) \cup inbox \subseteq unnoticed'
    BY <1>2, RetryWatches
  <2>2. Pending' \subseteq After(cursor)
    BY <1>0, <1>2, PendingAfterStep
  <2> QED BY <1>0, <2>1, <2>2
          DEF WatchInv, PendingWatched, InboxWatched, Watched, Unanswered
<1> QED BY <1>1, <1>2 DEF RunCommandDone

LEMMA StartFailsWatched ==
    ASSUME BaseInv, BaseInv', StartFails PROVE WatchInv'
<1>0. UNCHANGED <<log, cursor, inbox, answered>>
  BY DEF StartFails, RunUnchanged
<1>1. timers' > 0 \/ After(cursor) \cup inbox \subseteq unnoticed'
  BY RetryWatches DEF StartFails
<1>2. Pending' \subseteq After(cursor)
  BY <1>0, PendingAfterStep
<1> QED BY <1>0, <1>1, <1>2
        DEF WatchInv, PendingWatched, InboxWatched, Watched, Unanswered

LEMMA FinishFailedWatched ==
    ASSUME BaseInv, BaseInv', WatchInv, FinishFailed PROVE WatchInv'
<1>0. /\ UNCHANGED <<log, seen, loop, due, inbox, answered>>
      /\ run.pc = "agent" /\ run'.pc = "none"
  BY DEF FinishFailed, EndRun, NoRun, BaseInv, RunShape, NoAgent
<1>1. CASE UNCHANGED <<cursor, timers>> /\ unnoticed' = unnoticed \cup inbox
  <2>1. Pending' = Pending
    BY <1>0, <1>1, PendingOfBase, PendingAfterStep
  <2>2. PendingWatched'
    BY <1>0, <1>1, <2>1 DEF WatchInv, PendingWatched, Watched, Unanswered
  <2> QED BY <1>0, <1>1, <2>2 DEF WatchInv, InboxWatched, Unanswered
<1>2. CASE cursor' = run.prev /\ ScheduleRetry(After(run.prev) \cup inbox)
  <2>1. timers' > 0 \/ After(run.prev) \cup inbox \subseteq unnoticed'
    BY <1>2, RetryWatches
  <2>2. Pending' \subseteq After(run.prev)
    BY <1>0, <1>2, PendingAfterStep
  <2> QED BY <1>0, <2>1, <2>2
          DEF WatchInv, PendingWatched, InboxWatched, Watched, Unanswered
<1> QED BY <1>1, <1>2 DEF FinishFailed

LEMMA FinishCleanWatched ==
    ASSUME BaseInv, BaseInv', WatchInv, FinishClean PROVE WatchInv'
<1>0. /\ UNCHANGED <<log, seen, cursor, loop, due, timers, inbox, answered>>
      /\ run.pc = "agent" /\ unnoticed' = unnoticed \cup inbox
  BY DEF FinishClean, BaseInv, RunShape, NoAgent
<1>1. Pending' = Pending
  BY <1>0, PendingOfBase, PendingAfterStep
<1>2. PendingWatched'
  BY <1>0, <1>1 DEF WatchInv, PendingWatched, Watched, Unanswered
<1> QED BY <1>0, <1>2 DEF WatchInv, InboxWatched, Unanswered

LEMMA RestartWatched ==
    ASSUME BaseInv, BaseInv', Restart PROVE WatchInv'
<1>0. /\ UNCHANGED <<log, cursor, inbox>> /\ unnoticed' = inbox
      /\ due' = (Pending # {})
  BY DEF Restart, ForgetMemory
<1>1. Pending' = Pending
  BY <1>0, PendingOfBase, PendingAfterStep
<1> QED BY <1>0, <1>1 DEF WatchInv, PendingWatched, InboxWatched, Watched, Unanswered

LEMMA WatchStep == BaseInv /\ BaseInv' /\ WatchInv /\ [Next]_vars => WatchInv'
<1> SUFFICES ASSUME BaseInv, BaseInv', WatchInv, [Next]_vars PROVE WatchInv'
  OBVIOUS
<1>1. CASE RequestClose \/ TimerFires \/ UNCHANGED vars
  <2>1. /\ UNCHANGED <<log, seen, cursor, loop, run, inbox, answered, unnoticed>>
        /\ due \/ timers > 0 => due' \/ timers' > 0
    BY <1>1 DEF RequestClose, TimerFires, vars, hostVars, agentVars, history
  <2> QED BY <2>1, OccasionsKept
<1>2. CASE SpawnAgent
  <2>1. /\ UNCHANGED <<log, seen, cursor, loop, due, timers, inbox, answered,
                       unnoticed>>
        /\ run.pc = "agent" /\ run'.pc = "agent"
    BY <1>2 DEF SpawnAgent, history, BaseInv, RunTyped
  <2> QED BY <2>1, OccasionsKept
<1>3. CASE SendReply \/ SendLateReply
  <2>1. /\ UNCHANGED <<log, seen, cursor, loop, due, timers, inbox, unnoticed>>
        /\ run'.pc = run.pc /\ run'.batch = run.batch
    BY <1>3 DEF SendReply, SendLateReply, hostVars, BaseInv, RunTyped
  <2>2. \A m \in Stored : answered'[m] = 0 => answered[m] = 0
    <3>1. Stored \subseteq Ids /\ answered \in [Ids -> Nat]
      BY SetsAreStored DEF BaseInv, HistoryTyped
    <3>2. CASE SendReply
      BY <3>1, <3>2 DEF SendReply
    <3>3. CASE SendLateReply
      BY <3>1, <3>3 DEF SendLateReply
    <3> QED BY <1>3, <3>2, <3>3
  <2> QED BY <2>1, <2>2, OccasionsKept
<1>4. CASE AgentBoot \/ AgentPoll \/ AgentReplies \/ AgentEnds
  <2>1. /\ UNCHANGED <<log, seen, cursor, loop, due, timers, answered, unnoticed>>
        /\ run'.pc = run.pc /\ run'.batch = run.batch
        /\ inbox' \subseteq inbox
    BY <1>4 DEF AgentBoot, AgentPoll, AgentReplies, AgentEnds, AgentUnchanged,
                BaseInv, RunTyped
  <2> QED BY <2>1, OccasionsKept
<1> QED
  BY <1>1, <1>2, <1>3, <1>4, ArriveWatched, LoopPollWatched,
     LoopCommandWatched, LoopPipeWatched, LoopEnqueueWatched,
     LoopCommandDoneWatched, RunNothingWatched, RunCommandWatched,
     RunPromptWatched, StartFailsWatched, RunCommandDoneWatched,
     FinishCleanWatched, FinishFailedWatched, RestartWatched
  DEF Next

\* A message that is pending or lies in the inbox has an occasion ahead, or
\* is on record as left with none: a poll that has advanced `seen', a command
\* that sets the cursor, a run that ends, a retry or a restart never drops
\* the last occasion unnoticed.
THEOREM AlwaysScheduled == Spec => []Scheduled
<1>1. WatchInv => Scheduled
  BY DEF WatchInv, PendingWatched, InboxWatched, Watched, Scheduled, Unanswered
<1> QED BY <1>1, BaseInvariant, WatchInit, WatchStep, PTL DEF Spec

-----------------------------------------------------------------------------
(* RepliedTwice.                                                           *)

\* A message has one reply in the chain.
SingleReply(m) ==
    \A i, j \in DOMAIN replies : m \in replies[i] /\ m \in replies[j] => i = j

\* A message is in one place.  Only a prompt taken from the database can lie
\* in the inbox as well, until the boot joins the two.
HeldOnce(m) ==
    /\ m \in agent.turn => m \notin agent.backlog \cup Chained \cup late
    /\ m \in agent.backlog => m \notin Chained \cup late
    /\ m \in Chained => m \notin late
    /\ m \in inbox => m \notin agent.backlog \cup Chained \cup late
    /\ m \in inbox \cap agent.turn => agent.pc \notin {"turn", "waiting", "closing"}
    /\ SingleReply(m)

\* While a run has an agent, what is under way lies behind the cursor; and
\* until it has sent something, what a rollback would expose is unanswered.
RunHandsOnce(m) ==
    run.pc = "agent" =>
       /\ m \in OnTheWay => m \notin After(cursor)
       /\ ~run.sent /\ m \in After(run.prev) => answered[m] = 0 /\ m \notin late

HandedOnce(m) ==
    /\ answered[m] <= 1
    /\ m \in OnTheWay \cup After(cursor) => answered[m] = 0
    /\ HeldOnce(m)
    /\ m \in late => m \notin After(cursor)
    /\ RunHandsOnce(m)

RepliedInv == \A m \in Stored \ repeated : HandedOnce(m)

LEMMA RepliedInit == Init => RepliedInv
BY EmptySeq DEF Init, RepliedInv, Stored

LEMMA SingleAppend ==
    ASSUME replies \in Seq(SUBSET Ids), NEW batch \in SUBSET Ids,
           replies' = Append(replies, batch),
           NEW m, SingleReply(m), m \in batch => m \notin Chained
    PROVE  SingleReply(m)'
<1>1. /\ DOMAIN replies' = DOMAIN replies \cup {Len(replies) + 1}
      /\ replies'[Len(replies) + 1] = batch
      /\ \A i \in DOMAIN replies : replies'[i] = replies[i]
  BY AppendElements
<1>2. \A i \in DOMAIN replies : m \in replies[i] => m \in Chained
  BY DEF Chained
<1> QED BY <1>1, <1>2 DEF SingleReply

LEMMA SingleTail ==
    ASSUME replies \in Seq(SUBSET Ids), replies # <<>>, replies' = Tail(replies),
           NEW m, SingleReply(m)
    PROVE  SingleReply(m)' /\ (m \in Head(replies) => m \notin Chained')
<1>1. /\ 1 \in DOMAIN replies /\ Head(replies) = replies[1]
      /\ \A i \in DOMAIN replies' : /\ i \in Nat \ {0} /\ i + 1 \in DOMAIN replies
                                    /\ replies'[i] = replies[i + 1]
  BY TailElements
<1>2. SingleReply(m)'
  <2> SUFFICES ASSUME NEW i \in DOMAIN replies', NEW j \in DOMAIN replies',
                      m \in replies'[i], m \in replies'[j]
               PROVE  i = j
    BY DEF SingleReply
  <2>1. i + 1 = j + 1
    BY <1>1 DEF SingleReply
  <2> QED BY <1>1, <2>1
<1>3. ASSUME m \in Head(replies), NEW i \in DOMAIN replies', m \in replies'[i]
      PROVE  FALSE
  <2>1. i + 1 = 1
    BY <1>1, <1>3 DEF SingleReply
  <2> QED BY <1>1, <1>3, <2>1
<1> QED BY <1>2, <1>3 DEF Chained

\* A step that neither hands a message on nor answers it.
LEMMA PlacesKept ==
    ASSUME NEW m, HandedOnce(m),
           UNCHANGED <<log, answered, agent, inbox, replies, late>>,
           m \in After(cursor') => m \in After(cursor),
           run'.pc = "agent" => /\ run.pc = "agent" /\ run'.prev = run.prev
                                /\ run'.sent = run.sent
    PROVE  HandedOnce(m)'
<1>1. /\ OnTheWay' = OnTheWay /\ HeldOnce(m)'
      /\ After(cursor)' = After(cursor')
  BY ChainedEmpty
     DEF HandedOnce, HeldOnce, SingleReply, OnTheWay, InHand, After, Stored
<1>2. run'.pc = "agent" => After(run.prev)' = After(run.prev)
  BY DEF After, Stored
<1> QED BY <1>1, <1>2 DEF HandedOnce, RunHandsOnce

LEMMA ArriveReplied ==
    ASSUME BaseInv, RepliedInv, NEW command \in BOOLEAN, Arrive(command)
    PROVE  RepliedInv'
<1>0. PICK n \in Ids \ Stored :
         /\ Stored' = Stored \cup {n}
         /\ \A m \in Stored : log'[m] = log[m]
  BY ArriveLogs
<1>1. UNCHANGED <<cursor, run, answered, agent, inbox, replies, late, repeated>>
  BY DEF Arrive, hostVars, agentVars
<1>2. OnTheWay' = OnTheWay /\ Chained' = Chained
  BY <1>1, ChainedEmpty DEF OnTheWay, InHand
<1>3. \A m \in Stored : /\ m \in After(cursor)' <=> m \in After(cursor)
                        /\ m \in After(run.prev)' <=> m \in After(run.prev)
  BY <1>0, <1>1 DEF After
<1>4. ASSUME NEW m \in Stored, m \notin repeated PROVE HandedOnce(m)'
  <2>1. HandedOnce(m)
    BY <1>4 DEF RepliedInv
  <2>2. HeldOnce(m)'
    BY <1>1, <1>2, <2>1 DEF HandedOnce, HeldOnce, SingleReply
  <2>3. RunHandsOnce(m)'
    BY <1>1, <1>2, <1>3, <2>1 DEF HandedOnce, RunHandsOnce
  <2> QED BY <1>1, <1>2, <1>3, <2>1, <2>2, <2>3 DEF HandedOnce
<1>5. HandedOnce(n)'
  <2>1. answered[n] = 0 /\ n \notin OnTheWay
    BY <1>0, SetsAreStored DEF BaseInv, StoreInv
  <2>2. HeldOnce(n)'
    <3>1. \A i \in DOMAIN replies : n \notin replies[i]
      BY <2>1 DEF OnTheWay, InHand, Chained
    <3> QED BY <1>1, <1>2, <2>1, <3>1 DEF HeldOnce, SingleReply, OnTheWay, InHand
  <2>3. RunHandsOnce(n)'
    BY <1>1, <1>2, <2>1 DEF RunHandsOnce, OnTheWay
  <2> QED BY <1>1, <1>2, <2>1, <2>2, <2>3 DEF HandedOnce, OnTheWay
<1> QED BY <1>0, <1>1, <1>4, <1>5 DEF RepliedInv

\* What is piped to a run is pending, so it is nowhere else, and the cursor
\* passes it at once.
LEMMA LoopPipeReplied ==
    ASSUME BaseInv, LoopPipe, NEW m \in Stored \ repeated', HandedOnce(m)
    PROVE  HandedOnce(m)'
<1>0. /\ UNCHANGED <<log, answered, run, agent, replies, late>>
      /\ run.pc = "agent"
      /\ inbox' = inbox \cup ToSend
      /\ cursor' = log[Latest(ToSend)].ts
      /\ m \notin (ToSend \ Pending) \cup SetBackTo(cursor')
      /\ ToSend \in SUBSET Stored /\ ToSend # {}
  BY SetsAreStored DEF LoopPipe, LoopUnchanged, CanPipe
<1>1. m \in ToSend => m \in After(cursor) /\ m \notin After(cursor')
  BY <1>0, BaseLogTyped, BatchTime, PendingTime DEF BaseInv, CursorTyped
<1>2. m \in After(cursor') => m \in After(cursor)
  BY <1>0 DEF SetBackTo
<1>3. m \in ToSend => m \notin OnTheWay /\ answered[m] = 0
  BY <1>0, <1>1 DEF HandedOnce, RunHandsOnce
<1>4. OnTheWay' = OnTheWay \cup ToSend /\ Chained' = Chained
  BY <1>0, ChainedEmpty DEF OnTheWay, InHand
<1>5. HeldOnce(m)'
  BY <1>0, <1>3, <1>4 DEF HandedOnce, HeldOnce, SingleReply, OnTheWay, InHand
<1>6. After(cursor)' = After(cursor') /\ After(run.prev)' = After(run.prev)
  BY <1>0 DEF After, Stored
<1>7. RunHandsOnce(m)'
  BY <1>0, <1>1, <1>2, <1>4, <1>6 DEF HandedOnce, RunHandsOnce
<1> QED BY <1>0, <1>1, <1>2, <1>3, <1>4, <1>5, <1>6, <1>7 DEF HandedOnce

LEMMA RunPromptReplied ==
    ASSUME BaseInv, RunPrompt, NEW m \in Stored, HandedOnce(m)
    PROVE  HandedOnce(m)'
<1>0. /\ UNCHANGED <<log, answered, inbox, replies, late>>
      /\ agent = NoAgent /\ replies = <<>> /\ Pending # {}
      /\ agent'.pc = "none" /\ agent'.turn = Pending /\ agent'.backlog = {}
      /\ cursor' = log[Latest(Pending)].ts /\ run'.prev = cursor
  BY DEF RunPrompt, RunUnchanged, BaseInv, RunShape, RunTyped, AgentTyped, NoAgent
<1>1. /\ Pending \subseteq After(cursor) /\ After(cursor') = {}
  BY <1>0, BaseLogTyped, PendingTime DEF BaseInv, CursorTyped
<1>2. Chained = {} /\ Chained' = {}
  BY <1>0, ChainedEmpty
<1>3. After(cursor)' = {} /\ After(run.prev)' = After(cursor)
  BY <1>0, <1>1 DEF After, Stored
<1>4. OnTheWay' = OnTheWay \cup Pending
  BY <1>0, <1>2 DEF OnTheWay, InHand, NoAgent
<1>5. HeldOnce(m)'
  BY <1>0, <1>1, <1>2 DEF HandedOnce, HeldOnce, SingleReply
<1>6. RunHandsOnce(m)'
  BY <1>0, <1>3 DEF HandedOnce, RunHandsOnce
<1> QED BY <1>0, <1>1, <1>3, <1>4, <1>5, <1>6 DEF HandedOnce

LEMMA StartFailsReplied ==
    ASSUME BaseInv, StartFails, NEW m \in Stored, HandedOnce(m)
    PROVE  HandedOnce(m)'
<1>0. /\ UNCHANGED <<log, answered, cursor, inbox, replies, late>>
      /\ agent' = NoAgent /\ run'.pc = "none"
  BY DEF StartFails, RunUnchanged, EndRun, NoRun
<1>1. After(cursor)' = After(cursor) /\ Chained' = Chained
  BY <1>0, ChainedEmpty DEF After, Stored
<1>2. OnTheWay' \subseteq OnTheWay
  BY <1>0, <1>1 DEF OnTheWay, InHand, NoAgent
<1>3. HeldOnce(m)'
  BY <1>0, <1>1 DEF HandedOnce, HeldOnce, SingleReply, NoAgent
<1> QED BY <1>0, <1>1, <1>2, <1>3 DEF HandedOnce, RunHandsOnce

LEMMA SendReplyReplied ==
    ASSUME BaseInv, SendReply, NEW m \in Stored, HandedOnce(m)
    PROVE  HandedOnce(m)'
<1>0. /\ UNCHANGED <<log, cursor, agent, inbox, late>>
      /\ replies \in Seq(SUBSET Ids) /\ replies # <<>> /\ run.pc = "agent"
      /\ answered \in [Ids -> Nat] /\ m \in Ids
  BY SetsAreStored
     DEF SendReply, BaseInv, TrafficTyped, HistoryTyped, RunShape, NoAgent
<1>1. After(cursor)' = After(cursor)
  BY <1>0 DEF After, Stored
<1>2. CASE /\ answered' = [k \in Ids |-> IF k \in Head(replies)
                                         THEN answered[k] + 1 ELSE answered[k]]
           /\ replies' = Tail(replies)
           /\ run' = [run EXCEPT !.sent = TRUE]
  <2>1. /\ Chained' \subseteq Chained /\ Head(replies) \subseteq Chained
        /\ SingleReply(m)' /\ (m \in Head(replies) => m \notin Chained')
    BY <1>0, <1>2, ChainedTail, SingleTail DEF HandedOnce, HeldOnce
  <2>2. HeldOnce(m)'
    BY <1>0, <2>1 DEF HandedOnce, HeldOnce
  <2>3. OnTheWay' \subseteq OnTheWay
    BY <1>0, <2>1 DEF OnTheWay, InHand
  <2>4. run'.sent = TRUE
    BY <1>2 DEF BaseInv, RunTyped
  <2>5. RunHandsOnce(m)'
    BY <1>0, <1>1, <2>3, <2>4 DEF HandedOnce, RunHandsOnce
  <2>6. CASE m \in Head(replies)
    <3>1. m \in OnTheWay /\ m \notin OnTheWay' /\ m \notin After(cursor)
      BY <1>0, <2>1, <2>6 DEF HandedOnce, HeldOnce, RunHandsOnce, OnTheWay, InHand
    <3>2. answered[m] = 0 /\ answered'[m] = 1
      BY <1>0, <1>2, <2>6, <3>1 DEF HandedOnce
    <3> QED BY <1>0, <1>1, <2>2, <2>5, <3>1, <3>2 DEF HandedOnce, OnTheWay
  <2>7. CASE m \notin Head(replies)
    <3>1. answered'[m] = answered[m]
      BY <1>0, <1>2, <2>7
    <3> QED BY <1>0, <1>1, <2>2, <2>3, <2>5, <3>1 DEF HandedOnce
  <2> QED BY <2>6, <2>7
<1>3. CASE replies' = <<>> /\ UNCHANGED <<answered, run>>
  <2>1. Chained' = {}
    BY <1>3, ChainedEmpty
  <2>2. OnTheWay' \subseteq OnTheWay
    BY <1>0, <2>1 DEF OnTheWay, InHand
  <2>3. HeldOnce(m)'
    BY <1>0, <1>3, <2>1 DEF HandedOnce, HeldOnce, SingleReply
  <2>4. After(run.prev)' = After(run.prev)
    BY <1>0, <1>3 DEF After, Stored
  <2>5. RunHandsOnce(m)'
    BY <1>0, <1>1, <1>3, <2>2, <2>4 DEF HandedOnce, RunHandsOnce
  <2> QED BY <1>0, <1>1, <1>3, <2>2, <2>3, <2>5 DEF HandedOnce
<1> QED BY <1>2, <1>3 DEF SendReply

LEMMA SendLateReplyReplied ==
    ASSUME BaseInv, SendLateReply, NEW m \in Stored, HandedOnce(m)
    PROVE  HandedOnce(m)'
<1>0. /\ UNCHANGED <<log, cursor, run, agent, inbox, replies>> /\ late' = {}
      /\ answered \in [Ids -> Nat] /\ m \in Ids
  BY SetsAreStored DEF SendLateReply, hostVars, BaseInv, HistoryTyped
<1>1. After(cursor)' = After(cursor) /\ After(run.prev)' = After(run.prev)
  BY <1>0 DEF After, Stored
<1>2. Chained' = Chained /\ OnTheWay' \subseteq OnTheWay
  BY <1>0, ChainedEmpty DEF OnTheWay, InHand
<1>3. HeldOnce(m)'
  BY <1>0, <1>2 DEF HandedOnce, HeldOnce, SingleReply
<1>s. PICK sent \in SUBSET late :
         answered' = [k \in Ids |-> IF k \in sent THEN answered[k] + 1
                                                  ELSE answered[k]]
  BY DEF SendLateReply
<1>4. CASE m \in sent
  <2>1. m \in late /\ m \in OnTheWay /\ m \notin OnTheWay' /\ m \notin After(cursor)
    BY <1>0, <1>2, <1>4 DEF HandedOnce, HeldOnce, OnTheWay, InHand
  <2>2. answered[m] = 0 /\ answered'[m] = 1
    BY <1>0, <1>s, <1>4, <2>1 DEF HandedOnce
  <2>3. RunHandsOnce(m)'
    BY <1>0, <1>1, <2>1 DEF HandedOnce, RunHandsOnce
  <2> QED BY <1>0, <1>1, <1>3, <2>1, <2>2, <2>3 DEF HandedOnce
<1>5. CASE m \notin sent
  <2>1. answered'[m] = answered[m]
    BY <1>0, <1>s, <1>5
  <2>2. RunHandsOnce(m)'
    BY <1>0, <1>1, <1>2, <2>1 DEF HandedOnce, RunHandsOnce
  <2> QED BY <1>0, <1>1, <1>2, <1>3, <2>1, <2>2 DEF HandedOnce
<1> QED BY <1>4, <1>5

LEMMA FinishCleanReplied ==
    ASSUME BaseInv, FinishClean, NEW m \in Stored, HandedOnce(m)
    PROVE  HandedOnce(m)'
<1>0. /\ UNCHANGED <<log, answered, cursor, inbox, replies, late>>
      /\ agent' = NoAgent /\ run'.pc = "none"
  BY DEF FinishClean, EndRun, NoRun
<1>1. After(cursor)' = After(cursor) /\ Chained' = Chained
  BY <1>0, ChainedEmpty DEF After, Stored
<1>2. OnTheWay' \subseteq OnTheWay
  BY <1>0, <1>1 DEF OnTheWay, InHand, NoAgent
<1>3. HeldOnce(m)'
  BY <1>0, <1>1 DEF HandedOnce, HeldOnce, SingleReply, NoAgent
<1> QED BY <1>0, <1>1, <1>2, <1>3 DEF HandedOnce, RunHandsOnce

LEMMA FinishFailedReplied ==
    ASSUME BaseInv, FinishFailed, NEW m \in Stored \ repeated', HandedOnce(m)
    PROVE  HandedOnce(m)'
<1>0. /\ UNCHANGED <<log, answered, inbox>>
      /\ late' = late \cup Chained /\ replies' = <<>>
      /\ agent' = NoAgent /\ run'.pc = "none" /\ run.pc = "agent"
  BY DEF FinishFailed, EndRun, NoRun, BaseInv, RunShape, NoAgent
<1>1. After(cursor)' = After(cursor') /\ Chained' = {}
  BY <1>0, ChainedEmpty DEF After, Stored
<1>2. OnTheWay' \subseteq OnTheWay
  BY <1>0, <1>1 DEF OnTheWay, InHand, NoAgent
<1>3. HeldOnce(m)'
  BY <1>0, <1>1 DEF HandedOnce, HeldOnce, SingleReply, NoAgent
<1>4. /\ m \in After(cursor') => answered[m] = 0
      /\ m \in late' => m \notin After(cursor')
  <2>1. CASE cursor' = cursor
    BY <1>0, <2>1 DEF HandedOnce, RunHandsOnce, OnTheWay, InHand
  <2>2. CASE ~run.sent /\ cursor' = run.prev /\ repeated' = repeated \cup Chained
    BY <1>0, <2>2 DEF HandedOnce, RunHandsOnce
  <2> QED BY <2>1, <2>2 DEF FinishFailed
<1> QED BY <1>0, <1>1, <1>2, <1>3, <1>4 DEF HandedOnce, RunHandsOnce

LEMMA RestartReplied ==
    ASSUME Restart, NEW m \in Stored, HandedOnce(m)
    PROVE  HandedOnce(m)'
<1>0. /\ UNCHANGED <<log, answered, cursor, inbox>>
      /\ late' = {} /\ replies' = <<>> /\ agent' = NoAgent /\ run'.pc = "none"
  BY DEF Restart, ForgetMemory, NoRun
<1>1. After(cursor)' = After(cursor) /\ Chained' = {}
  BY <1>0, ChainedEmpty DEF After, Stored
<1>2. OnTheWay' \subseteq OnTheWay
  BY <1>0, <1>1 DEF OnTheWay, InHand, NoAgent
<1>3. HeldOnce(m)'
  BY <1>0, <1>1 DEF HeldOnce, SingleReply, NoAgent
<1> QED BY <1>0, <1>1, <1>2, <1>3 DEF HandedOnce, RunHandsOnce

\* The agent moves a message on, but never keeps a copy.
LEMMA AgentMovesOnce ==
    ASSUME NEW m, HandedOnce(m), UNCHANGED <<log, answered, cursor, late>>,
           run'.pc = run.pc, run'.prev = run.prev, run'.sent = run.sent,
           OnTheWay' \subseteq OnTheWay, HeldOnce(m)'
    PROVE  HandedOnce(m)'
<1>1. After(cursor)' = After(cursor) /\ After(run.prev)' = After(run.prev)
  BY DEF After, Stored
<1> QED BY <1>1 DEF HandedOnce, RunHandsOnce

LEMMA SpawnBootEndsReplied ==
    ASSUME BaseInv, SpawnAgent \/ AgentBoot \/ AgentEnds,
           NEW m \in Stored, HandedOnce(m)
    PROVE  HandedOnce(m)'
<1>0. /\ UNCHANGED <<log, answered, cursor, late, replies>>
      /\ run'.pc = run.pc /\ run'.prev = run.prev /\ run'.sent = run.sent
      /\ Chained' = Chained
  BY ChainedEmpty
     DEF SpawnAgent, AgentBoot, AgentEnds, AgentUnchanged, history, BaseInv, RunTyped
<1>1. CASE SpawnAgent \/ AgentEnds
  <2>1. /\ inbox' = inbox /\ agent'.turn = agent.turn
        /\ agent'.backlog = agent.backlog
        /\ agent'.pc \notin {"turn", "waiting", "closing"}
    BY <1>1 DEF SpawnAgent, AgentEnds, BaseInv, AgentTyped
  <2>2. OnTheWay' = OnTheWay /\ HeldOnce(m)'
    BY <1>0, <2>1 DEF HandedOnce, HeldOnce, SingleReply, OnTheWay, InHand
  <2> QED BY <1>0, <2>2, AgentMovesOnce
<1>2. CASE AgentBoot
  <2>1. /\ inbox' = {} /\ agent'.turn = agent.turn \cup inbox
        /\ agent'.backlog = agent.backlog
    BY <1>2 DEF AgentBoot, BaseInv, AgentTyped
  <2>2. OnTheWay' = OnTheWay /\ HeldOnce(m)'
    BY <1>0, <2>1 DEF HandedOnce, HeldOnce, SingleReply, OnTheWay, InHand
  <2> QED BY <1>0, <2>2, AgentMovesOnce
<1> QED BY <1>1, <1>2

LEMMA AgentPollReplied ==
    ASSUME BaseInv, AgentPoll, NEW m \in Stored, HandedOnce(m)
    PROVE  HandedOnce(m)'
<1>0. UNCHANGED <<log, answered, cursor, late, replies, run>> /\ Chained' = Chained
  BY ChainedEmpty DEF AgentPoll, AgentUnchanged
<1>1. OnTheWay' \subseteq OnTheWay /\ HeldOnce(m)'
  <2>1. CASE agent' = [agent EXCEPT !.pc = "closing"] /\ UNCHANGED inbox
    <3>1. /\ agent.pc \in {"turn", "waiting"}
          /\ agent'.turn = agent.turn /\ agent'.backlog = agent.backlog
      BY <2>1 DEF AgentPoll, BaseInv, AgentTyped
    <3> QED BY <1>0, <2>1, <3>1
            DEF HandedOnce, HeldOnce, SingleReply, OnTheWay, InHand
  <2>2. CASE agent.pc = "waiting" /\ inbox' = {}
             /\ agent' = [agent EXCEPT !.pc = "turn", !.turn = inbox]
    <3>1. agent'.turn = inbox /\ agent'.backlog = agent.backlog
      BY <2>2 DEF BaseInv, AgentTyped
    <3> QED BY <1>0, <2>2, <3>1
            DEF HandedOnce, HeldOnce, SingleReply, OnTheWay, InHand
  <2>3. CASE agent.pc = "turn" /\ inbox' = {}
             /\ agent' = [agent EXCEPT !.backlog = @ \cup inbox]
    <3>1. /\ agent'.turn = agent.turn /\ agent'.pc = "turn"
          /\ agent'.backlog = agent.backlog \cup inbox
      BY <2>3 DEF BaseInv, AgentTyped
    <3> QED BY <1>0, <2>3, <3>1
            DEF HandedOnce, HeldOnce, SingleReply, OnTheWay, InHand
  <2> QED BY <2>1, <2>2, <2>3 DEF AgentPoll
<1> QED BY <1>0, <1>1, AgentMovesOnce

LEMMA AgentRepliesReplied ==
    ASSUME BaseInv, AgentReplies, NEW m \in Stored, HandedOnce(m)
    PROVE  HandedOnce(m)'
<1>0. /\ UNCHANGED <<log, answered, cursor, inbox, late>>
      /\ run'.pc = run.pc /\ run'.prev = run.prev /\ run'.sent = run.sent
      /\ agent'.turn = agent.backlog /\ agent'.backlog = {}
      /\ agent.pc \in {"turn", "closing"}
      /\ replies \in Seq(SUBSET Ids) /\ agent.turn \in SUBSET Ids
  BY DEF AgentReplies, AgentUnchanged, BaseInv, RunTyped, TrafficTyped, AgentTyped
<1>1. OnTheWay' \subseteq OnTheWay /\ HeldOnce(m)'
  <2>1. CASE replies' = Append(replies, agent.turn)
    <3>1. Chained' = Chained \cup agent.turn
      BY <1>0, <2>1, ChainedAppend
    <3>2. SingleReply(m)'
      BY <1>0, <2>1, SingleAppend DEF HandedOnce, HeldOnce
    <3> QED BY <1>0, <3>1, <3>2 DEF HandedOnce, HeldOnce, OnTheWay, InHand
  <2>2. CASE UNCHANGED replies
    <3>1. Chained' = Chained
      BY <2>2, ChainedEmpty
    <3> QED BY <1>0, <2>2, <3>1
            DEF HandedOnce, HeldOnce, SingleReply, OnTheWay, InHand
  <2> QED BY <2>1, <2>2 DEF AgentReplies
<1> QED BY <1>0, <1>1, AgentMovesOnce

LEMMA RepliedStep == BaseInv /\ RepliedInv /\ [Next]_vars => RepliedInv'
<1> SUFFICES ASSUME BaseInv, RepliedInv, [Next]_vars PROVE RepliedInv'
  OBVIOUS
<1>1. ASSUME NEW command \in BOOLEAN, Arrive(command) PROVE RepliedInv'
  BY <1>1, ArriveReplied
<1>2. ASSUME UNCHANGED log, repeated \subseteq repeated',
             \A m \in Stored \ repeated' : HandedOnce(m) => HandedOnce(m)'
      PROVE  RepliedInv'
  BY <1>2 DEF RepliedInv, Stored
<1>3. CASE \/ LoopPoll \/ LoopCommand \/ LoopEnqueue \/ RunNothing \/ RunCommand
           \/ RequestClose \/ TimerFires \/ UNCHANGED vars
  <2>1. /\ UNCHANGED <<log, answered, agent, inbox, replies, late, cursor, repeated>>
        /\ run' = run \/ RunCommand
    BY <1>3 DEF LoopPoll, LoopCommand, LoopEnqueue, LoopUnchanged, RunNothing,
                RunCommand, RunUnchanged, RequestClose, TimerFires, vars,
                hostVars, agentVars, history
  <2>2. RunCommand => run'.pc = "command"
    BY DEF RunCommand, BaseInv, RunTyped
  <2> QED BY <1>2, <2>1, <2>2, PlacesKept
<1>4. CASE LoopCommandDone \/ RunCommandDone
  <2>1. /\ UNCHANGED <<log, answered, agent, inbox, replies, late>>
        /\ run'.pc = "agent" => run' = run
        /\ repeated \subseteq repeated'
        /\ cursor' = cursor \/ SetBackTo(cursor') \subseteq repeated'
    BY <1>4 DEF LoopCommandDone, LoopUnchanged, RunCommandDone, RunUnchanged,
                EndRun, NoRun
  <2>2. \A m \in Stored \ repeated' : m \in After(cursor') => m \in After(cursor)
    BY <2>1 DEF SetBackTo
  <2> QED BY <1>2, <2>1, <2>2, PlacesKept
<1>5. CASE LoopPipe
  BY <1>2, <1>5, LoopPipeReplied DEF LoopPipe, LoopUnchanged
<1>6. CASE RunPrompt
  BY <1>2, <1>6, RunPromptReplied DEF RunPrompt, RunUnchanged
<1>6f. CASE StartFails
  BY <1>2, <1>6f, StartFailsReplied DEF StartFails, RunUnchanged
<1>7. CASE SendReply \/ SendLateReply
  BY <1>2, <1>7, SendReplyReplied, SendLateReplyReplied
     DEF SendReply, SendLateReply
<1>8. CASE FinishClean
  BY <1>2, <1>8, FinishCleanReplied DEF FinishClean
<1>9. CASE FinishFailed
  BY <1>2, <1>9, FinishFailedReplied DEF FinishFailed
<1>10. CASE Restart
  BY <1>2, <1>10, RestartReplied DEF Restart, ForgetMemory
<1>11. CASE SpawnAgent \/ AgentBoot \/ AgentEnds
  BY <1>2, <1>11, SpawnBootEndsReplied
     DEF SpawnAgent, AgentBoot, AgentEnds, AgentUnchanged, history
<1>12. CASE AgentPoll \/ AgentReplies
  BY <1>2, <1>12, AgentPollReplied, AgentRepliesReplied
     DEF AgentPoll, AgentReplies, AgentUnchanged
<1> QED
  BY <1>1, <1>3, <1>4, <1>5, <1>6, <1>6f, <1>7, <1>8, <1>9, <1>10, <1>11, <1>12
  DEF Next

\* No message gets a second reply unless the code handed it on again: it was
\* rolled back with its reply in the chain, set back over, or taken once more
\* from a poll a run had overtaken.
THEOREM OnlyRepeatedTwice == Spec => []RepliedTwice
<1>1. BaseInv /\ RepliedInv => RepliedTwice
  <2> SUFFICES ASSUME BaseInv, RepliedInv, NEW m \in Stored, m \notin repeated
               PROVE  ~(answered[m] > 1)
    BY DEF RepliedTwice
  <2>1. answered[m] <= 1 /\ answered[m] \in Nat
    BY SetsAreStored DEF RepliedInv, HandedOnce, BaseInv, HistoryTyped
  <2> QED BY <2>1
<1> QED BY <1>1, BaseInvariant, RepliedInit, RepliedStep, PTL DEF Spec

-----------------------------------------------------------------------------
(* The rules of MessageChecks.                                             *)

CheckStep == Checks!HostNext \/ UNCHANGED Checks!checkVars

\* With one group there is nobody else to wait.
LEMMA ChatSteps ==
    ASSUME Checks!Ask("chat") \/ Checks!AskAgain("chat")
             \/ Checks!End("chat") \/ Checks!Wait("chat")
    PROVE  CheckStep
<1>1. Checks!GroupStep("chat")
  BY DEF Checks!GroupStep, Chat
<1> QED BY <1>1 DEF CheckStep, Checks!HostNext, Checks!ChecksNext, Chat

LEMMA SameChecks ==
    ASSUME UNCHANGED <<due, timers, retries>>, run'.pc # "none" <=> run.pc # "none"
    PROVE  CheckStep
BY DEF CheckStep, Checks!checkVars, Chat

\* A run for a command or a prompt begins.
LEMMA RunBeginsChecks ==
    ASSUME due, run.pc = "none", due' = FALSE, run'.pc # "none",
           UNCHANGED <<timers, retries>>
    PROVE  CheckStep
<1>1. Checks!Wait("chat")
  BY DEF Checks!Wait, Checks!Settled, Checks!SameFailures, Chat
<1> QED BY <1>1, ChatSteps

\* A run ends: it succeeds, or fails and is retried or given up.
LEMMA RunEndsChecks ==
    ASSUME QueueTyped, run.pc # "none", run'.pc = "none", due' = due,
           \/ retries' = 0 /\ timers' = timers
           \/ \E pending : ScheduleRetry(pending)
    PROVE  CheckStep
<1>1. \/ retries' = 0 /\ timers' = timers
      \/ /\ retries < MaxRetries
         /\ retries' = retries + 1
         /\ timers' = timers + 1
  BY DEF ScheduleRetry
<1>2. Checks!End("chat")
  BY <1>1 DEF Checks!End, Checks!Settled, Chat
<1> QED BY <1>2, ChatSteps

LEMMA CheckStepTaken == BaseInv /\ [Next]_vars => CheckStep
<1> SUFFICES ASSUME BaseInv, [Next]_vars PROVE CheckStep
  OBVIOUS
<1>0. /\ QueueTyped
      /\ run \in [pc : {"none", "command", "agent"}, batch : SUBSET Ids,
                  prev : Nat, sent : BOOLEAN, output : BOOLEAN,
                  accepts : BOOLEAN]
      /\ agent.pc # "none" => run.pc = "agent"
      /\ NoRun.pc = "none" /\ NoAgent.pc = "none"
  BY DEF BaseInv, RunTyped, RunShape, NoRun, NoAgent
<1>1. CASE \/ \E command \in BOOLEAN : Arrive(command)
           \/ LoopPoll \/ LoopCommand \/ LoopPipe \/ LoopCommandDone
           \/ RequestClose \/ SendLateReply \/ UNCHANGED vars
  BY <1>1, SameChecks
     DEF Arrive, LoopPoll, LoopCommand, LoopPipe, LoopCommandDone,
         LoopUnchanged, RequestClose, SendLateReply, vars, hostVars
<1>2. CASE \/ SpawnAgent \/ SendReply
           \/ AgentBoot \/ AgentPoll \/ AgentReplies \/ AgentEnds
  <2>1. run'.pc = run.pc /\ UNCHANGED <<due, timers, retries>>
    BY <1>0, <1>2
       DEF SpawnAgent, SendReply, AgentBoot, AgentPoll, AgentReplies,
           AgentEnds, AgentUnchanged
  <2> QED BY <2>1, SameChecks
<1>3. CASE LoopEnqueue
  <2>1. due' = TRUE /\ UNCHANGED <<timers, retries, run>>
    BY <1>3 DEF LoopEnqueue, LoopUnchanged
  <2>2. Checks!Ask("chat")
    BY <2>1 DEF Checks!Ask, Checks!Settled, Checks!SameFailures, Chat
  <2> QED BY <2>2, ChatSteps
<1>4. CASE TimerFires
  <2>1. /\ timers > 0 /\ timers' = timers - 1
        /\ due' = TRUE /\ UNCHANGED <<retries, run>>
    BY <1>4 DEF TimerFires
  <2>2. Checks!AskAgain("chat")
    BY <2>1 DEF Checks!AskAgain, Checks!Settled, Chat
  <2> QED BY <2>2, ChatSteps
<1>5. CASE RunNothing
  <2>1. /\ due /\ run.pc = "none" /\ due' = FALSE /\ retries' = 0
        /\ UNCHANGED <<timers, run>>
    BY <1>5 DEF RunNothing
  <2>2. Checks!CheckNothing("chat")
    BY <2>1 DEF Checks!CheckNothing, Chat
  <2> QED BY <2>2 DEF CheckStep, Checks!HostNext, Chat
<1>6. CASE RunCommand \/ RunPrompt
  <2>1. /\ due /\ run.pc = "none" /\ due' = FALSE
        /\ run'.pc \in {"command", "agent"}
        /\ UNCHANGED <<timers, retries>>
    BY <1>0, <1>6 DEF RunCommand, RunPrompt
  <2> QED BY <2>1, RunBeginsChecks
<1>7. CASE RunCommandDone \/ StartFails \/ FinishClean \/ FinishFailed
  <2>1. run.pc # "none" /\ run'.pc = "none" /\ due' = due
    BY <1>0, <1>7 DEF RunCommandDone, StartFails, FinishClean, FinishFailed, EndRun
  <2>2. \/ retries' = 0 /\ timers' = timers
        \/ \E pending : ScheduleRetry(pending)
    BY <1>7 DEF RunCommandDone, StartFails, FinishClean, FinishFailed
  <2> QED BY <1>0, <2>1, <2>2, RunEndsChecks
<1>8. CASE Restart
  <2>1. /\ run'.pc = "none" /\ timers' = 0 /\ retries' = 0
        /\ due' \in BOOLEAN
    BY <1>0, <1>8 DEF Restart, ForgetMemory
  <2>2. Checks!StartAgain
    BY <2>1 DEF Checks!StartAgain, Chat
  <2> QED BY <2>2 DEF CheckStep, Checks!HostNext
<1> QED BY <1>1, <1>2, <1>3, <1>4, <1>5, <1>6, <1>7, <1>8 DEF Next

\* The queue's part of this model keeps to MessageChecks, as GroupQueue does:
\* no check begins unasked, and none is retried without end, or next to
\* another.
THEOREM DeliveryFollowsChecks == Spec => ChecksFollowed
<1>1. Init => Checks!ChecksInit
  <2> SUFFICES ASSUME Init PROVE Checks!ChecksInit
    OBVIOUS
  <2>1. due = FALSE /\ timers = 0 /\ retries = 0 /\ run.pc = "none"
    BY DEF Init, NoRun
  <2> QED BY <2>1 DEF Checks!ChecksInit
<1>2. BaseInv /\ [Next]_vars => [Checks!HostNext]_(Checks!checkVars)
  BY CheckStepTaken DEF CheckStep, Checks!checkVars
<1> QED BY <1>1, <1>2, BaseInvariant, PTL
        DEF Spec, ChecksFollowed, Checks!HostSpec
=============================================================================
