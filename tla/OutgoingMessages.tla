-------------------------- MODULE OutgoingMessages --------------------------
(***************************************************************************)
(* How messages leave through the WhatsApp channel                         *)
(* (src/src/channels/whatsapp.ts): the connection and its reconnects, the  *)
(* queue of what could not be sent, and the two kinds of senders, the      *)
(* host's own replies and the watcher of ipc.ts, which sends the message   *)
(* files that agents write and then deletes them.                          *)
(*                                                                         *)
(* Code between two awaits is one action.  The socket is the library's: it *)
(* opens, closes, and answers a send at any time; a send that it rejects   *)
(* may have reached the recipient all the same.                            *)
(***************************************************************************)
EXTENDS Naturals, Sequences, FiniteSets, SequencesExt

CONSTANTS
    Messages,   \* texts to be sent, each of them once
    NoMessage,  \* the watcher waits for no send
    Sockets,    \* bound of the model: sockets that are live at once
    NoSocket,   \* this.sock before the first connection
    MaxReopens, \* bound of the model: channel restarts from the dashboard
    MaxRestarts \* bound of the model: restarts of the host

ASSUME OutgoingAssumption ==
    /\ IsFiniteSet(Sockets)
    /\ NoMessage \notin Messages
    /\ NoSocket \notin Sockets
    /\ MaxReopens \in Nat
    /\ MaxRestarts \in Nat

VARIABLES
    connected,
    sockets,    \* [Sockets -> "none", "connecting" or "open"]
    sock,       \* this.sock, live or not
    attempts,   \* [Kinds -> Nat]: connectInternal calls in progress
    timers,     \* timers of 5 s that will call connectInternal
    queue,      \* outgoingQueue
    flushing,
    flushes,    \* what flushOutgoingQueue calls await the sending of
    sending,    \* what sendMessage calls await the sending of
    files,      \* message files in ipc/<folder>/messages
    watcher,    \* the message whose sending the watcher awaits
    unsent,     \* messages that nobody asked to send so far
    received,   \* [Messages -> Nat]: how often the recipient got it
    lost,       \* history: messages that were given up unsent
    uncertain,  \* history: messages received though their send did not resolve
    ended,      \* history: connections that nothing brings back
    reopens,    \* connect() calls of this host after the first
    restarts    \* restarts of the host so far

connVars  == <<connected, sockets, sock, attempts, timers, ended, reopens>>
queueVars == <<queue, flushing, flushes, sending>>
fileVars  == <<files, watcher>>
pastVars  == <<received, lost, uncertain>>
vars == <<connVars, queueVars, fileVars, pastVars, unsent, restarts>>

(***************************************************************************)
(* What becomes of connectInternal when it throws: "first", the call of    *)
(* connect(), only rejects; "again", after a close, is tried once more in  *)
(* 5 s; "last", that second try, is given up.                              *)
(***************************************************************************)
Kinds == {"first", "again", "last"}

\* connect() is called once at the start.
FirstAttempt == [k \in Kinds |-> IF k = "first" THEN 1 ELSE 0]

Init ==
    /\ connected = FALSE
    /\ sockets = [s \in Sockets |-> "none"]
    /\ sock = NoSocket
    /\ attempts = FirstAttempt
    /\ timers = 0
    /\ queue = <<>>
    /\ flushing = FALSE
    /\ flushes = <<>>
    /\ sending = {}
    /\ files = {}
    /\ watcher = NoMessage
    /\ unsent = Messages
    /\ received = [m \in Messages |-> 0]
    /\ lost = {}
    /\ uncertain = {}
    /\ ended = 0
    /\ reopens = 0
    /\ restarts = 0

Live == {s \in Sockets : sockets[s] # "none"}

Opened == {s \in Sockets : sockets[s] = "open"}

InQueue(m) == \E i \in DOMAIN queue : queue[i] = m

InFlush(m) == \E i \in DOMAIN flushes : flushes[i] = m

-----------------------------------------------------------------------------
(***************************************************************************)
(* Sending.                                                                *)
(***************************************************************************)

\* sendMessage goes on to the socket, and awaits its answer; a socket that is
\* still connecting answers later.
GoesOut == connected /\ sock \in Live

\* Otherwise it queues the message and returns; a dead socket rejects at once.
SendMessage(m) ==
    IF GoesOut
    THEN /\ sending' = sending \cup {m}
         /\ UNCHANGED queue
    ELSE /\ queue' = Append(queue, m)
         /\ UNCHANGED sending

\* A reply, a report, the answer to a command.
HostSends(m) ==
    /\ m \in unsent
    /\ unsent' = unsent \ {m}
    /\ SendMessage(m)
    /\ UNCHANGED <<connVars, flushing, flushes, fileVars, pastVars, restarts>>

AgentWrites(m) ==
    /\ m \in unsent
    /\ unsent' = unsent \ {m}
    /\ files' = files \cup {m}
    /\ UNCHANGED <<connVars, queueVars, watcher, pastVars, restarts>>

\* One file after the other; it is deleted when sendMessage has returned.
WatcherSends(m) ==
    /\ watcher = NoMessage
    /\ m \in files
    /\ SendMessage(m)
    /\ IF GoesOut
       THEN watcher' = m /\ UNCHANGED files
       ELSE files' = files \ {m} /\ UNCHANGED watcher
    /\ UNCHANGED <<connVars, flushing, flushes, pastVars, unsent, restarts>>

\* The watcher does without the channel: the group may not write to this chat
\* and the file is deleted, or the group is disabled on the dashboard or has no
\* channel, the call throws, and the file is moved to errors/, which nothing
\* reads.  Either way the message goes nowhere.
WatcherDrops(m) ==
    /\ watcher = NoMessage
    /\ m \in files
    /\ files' = files \ {m}
    /\ lost' = lost \cup {m}
    /\ UNCHANGED <<connVars, queueVars, watcher, received, uncertain, unsent,
                   restarts>>

\* Faulty variant: the watcher forgets to delete the file.
ReturnsKeepingFile(m) ==
    /\ sending' = sending \ {m}
    /\ watcher' = IF watcher = m THEN NoMessage ELSE watcher
    /\ UNCHANGED files

\* sendMessage returns to its caller, the watcher perhaps: it queues what the
\* socket rejects, and never throws.  The file leaves the directory, to errors/
\* if it cannot be deleted.
Returns(m) ==
    /\ sending' = sending \ {m}
    /\ IF watcher = m
       THEN files' = files \ {m} /\ watcher' = NoMessage
       ELSE UNCHANGED fileVars

Receive(m) == received' = [received EXCEPT ![m] = @ + 1]

\* Whether a send that was rejected got through nobody knows.
Rejected(m) ==
    \/ UNCHANGED <<received, uncertain>>
    \/ Receive(m) /\ uncertain' = uncertain \cup {m}

SendSucceeds(m) ==
    /\ m \in sending
    /\ Opened # {}
    /\ Receive(m)
    /\ Returns(m)
    /\ UNCHANGED <<connVars, queue, flushing, flushes, lost, uncertain, unsent,
                   restarts>>

\* Faulty variant: the message is not queued.
SendFailsForGood(m) ==
    /\ m \in sending
    /\ Rejected(m)
    /\ Returns(m)
    /\ UNCHANGED <<connVars, queue, flushing, flushes, lost, unsent, restarts>>

\* It is queued for the next connection, even if this one stays open.
SendFails(m) ==
    /\ m \in sending
    /\ Rejected(m)
    /\ queue' = Append(queue, m)
    /\ Returns(m)
    /\ UNCHANGED <<connVars, flushing, flushes, lost, unsent, restarts>>

\* Faulty variant: a flush does not look for another one.
StartFlushAnyway ==
    IF queue = <<>>
    THEN UNCHANGED <<queue, flushing, flushes>>
    ELSE /\ flushing' = TRUE
         /\ flushes' = Append(flushes, Head(queue))
         /\ queue' = Tail(queue)

\* flushOutgoingQueue up to its first send.
StartFlush ==
    IF flushing \/ queue = <<>>
    THEN UNCHANGED <<queue, flushing, flushes>>
    ELSE /\ flushing' = TRUE
         /\ flushes' = Append(flushes, Head(queue))
         /\ queue' = Tail(queue)

\* The flush goes on with the next message in the queue.
FlushSucceeds(i) ==
    /\ i \in DOMAIN flushes
    /\ Opened # {}
    /\ Receive(flushes[i])
    /\ IF queue = <<>>
       THEN /\ flushing' = FALSE
            /\ flushes' = RemoveAt(flushes, i)
            /\ UNCHANGED queue
       ELSE /\ flushes' = Append(RemoveAt(flushes, i), Head(queue))
            /\ queue' = Tail(queue)
            /\ UNCHANGED flushing
    /\ UNCHANGED <<connVars, sending, fileVars, lost, uncertain, unsent,
                   restarts>>

\* Faulty variant: the flag is not reset.
FlushFailsForever(i) ==
    /\ i \in DOMAIN flushes
    /\ Rejected(flushes[i])
    /\ flushes' = RemoveAt(flushes, i)
    /\ lost' = lost \cup {flushes[i]}
    /\ UNCHANGED <<connVars, queue, flushing, sending, fileVars, unsent,
                   restarts>>

\* The message was taken from the queue before it was sent, and nothing puts
\* it back; the rest of the queue stays for the next connection.
FlushFails(i) ==
    /\ i \in DOMAIN flushes
    /\ Rejected(flushes[i])
    /\ flushing' = FALSE
    /\ flushes' = RemoveAt(flushes, i)
    /\ lost' = lost \cup {flushes[i]}
    /\ UNCHANGED <<connVars, queue, sending, fileVars, unsent, restarts>>

-----------------------------------------------------------------------------
(***************************************************************************)
(* The connection.                                                         *)
(***************************************************************************)

\* connectInternal has made its socket.
Connects(k) ==
    /\ attempts[k] > 0
    /\ attempts' = [attempts EXCEPT ![k] = @ - 1]
    /\ \E s \in Sockets \ Live :
          /\ sockets' = [sockets EXCEPT ![s] = "connecting"]
          /\ sock' = s
    /\ UNCHANGED <<connected, timers, ended, reopens, queueVars, fileVars,
                   pastVars, unsent, restarts>>

\* It throws before that: it cannot read or write its credentials.  The call at
\* the start is awaited, and its rejection ends the host (HostRestarts).
ConnectFails(k) ==
    /\ attempts[k] > 0
    /\ k = "first" => reopens > 0
    /\ attempts' = [attempts EXCEPT ![k] = @ - 1]
    /\ IF k = "again"
       THEN timers' = timers + 1 /\ UNCHANGED ended
       ELSE ended' = ended + 1 /\ UNCHANGED timers
    /\ UNCHANGED <<connected, sockets, sock, reopens, queueVars, fileVars,
                   pastVars, unsent, restarts>>

\* Faulty variant: the timer was not armed.
TimerFiresUnarmed ==
    /\ timers' = timers - 1
    /\ attempts' = [attempts EXCEPT !["last"] = @ + 1]
    /\ UNCHANGED <<connected, sockets, sock, ended, reopens, queueVars,
                   fileVars, pastVars, unsent, restarts>>

TimerFires ==
    /\ timers > 0
    /\ timers' = timers - 1
    /\ attempts' = [attempts EXCEPT !["last"] = @ + 1]
    /\ UNCHANGED <<connected, sockets, sock, ended, reopens, queueVars,
                   fileVars, pastVars, unsent, restarts>>

\* Any socket's `open' is this channel's.
Opens(s) ==
    /\ sockets[s] = "connecting"
    /\ sockets' = [sockets EXCEPT ![s] = "open"]
    /\ connected' = TRUE
    /\ StartFlush
    /\ UNCHANGED <<sock, attempts, timers, ended, reopens, sending, fileVars,
                   pastVars, unsent, restarts>>

\* Faulty variants: the channel goes on as if connected; or a logged-out
\* session connects again as well.
ClosesUnnoticed(s) ==
    /\ s \in Live
    /\ sockets' = [sockets EXCEPT ![s] = "none"]
    /\ \/ attempts' = [attempts EXCEPT !["again"] = @ + 1] /\ UNCHANGED ended
       \/ ended' = ended + 1 /\ UNCHANGED attempts
    /\ UNCHANGED <<connected, sock, timers, reopens, queueVars, fileVars,
                   pastVars, unsent, restarts>>

ClosesTwice(s) ==
    /\ s \in Live
    /\ sockets' = [sockets EXCEPT ![s] = "none"]
    /\ connected' = FALSE
    /\ attempts' = [attempts EXCEPT !["again"] = @ + 1]
    /\ timers' = timers + 1
    /\ UNCHANGED <<sock, ended, reopens, queueVars, fileVars, pastVars, unsent,
                   restarts>>

\* Any socket's `close', too.  A session that was logged out stays offline.
Closes(s) ==
    /\ s \in Live
    /\ sockets' = [sockets EXCEPT ![s] = "none"]
    /\ connected' = FALSE
    /\ \/ attempts' = [attempts EXCEPT !["again"] = @ + 1] /\ UNCHANGED ended
       \/ ended' = ended + 1 /\ UNCHANGED attempts
    /\ UNCHANGED <<sock, timers, reopens, queueVars, fileVars, pastVars,
                   unsent, restarts>>

\* The dashboard's disconnect().then(connect()).  Ending a live socket closes
\* it, without a reason, and the handler of that connects again by itself.
ReopenChannel ==
    /\ reopens < MaxReopens
    /\ reopens' = reopens + 1
    /\ connected' = FALSE
    /\ IF sock \in Live
       THEN /\ sockets' = [sockets EXCEPT ![sock] = "none"]
            /\ attempts' = [attempts EXCEPT !["again"] = @ + 1,
                                            !["first"] = @ + 1]
       ELSE /\ attempts' = [attempts EXCEPT !["first"] = @ + 1]
            /\ UNCHANGED sockets
    /\ UNCHANGED <<sock, timers, ended, queueVars, fileVars, pastVars, unsent,
                   restarts>>

\* The host stops and starts.  What it held in memory is gone, what it was
\* sending may get through; the files are still there.
HostRestarts ==
    LET inFlight == sending \cup {m \in Messages : InFlush(m)}
        held     == inFlight \cup {m \in Messages : InQueue(m)}
    IN  /\ restarts < MaxRestarts
        /\ restarts' = restarts + 1
        /\ \E through \in SUBSET inFlight :
              /\ received' = [m \in Messages |->
                                IF m \in through THEN received[m] + 1
                                                 ELSE received[m]]
              /\ uncertain' = uncertain \cup through
        /\ lost' = lost \cup (held \ files)
        /\ connected' = FALSE
        /\ sockets' = [s \in Sockets |-> "none"]
        /\ sock' = NoSocket
        /\ attempts' = FirstAttempt
        /\ timers' = 0
        /\ queue' = <<>>
        /\ flushing' = FALSE
        /\ flushes' = <<>>
        /\ sending' = {}
        /\ watcher' = NoMessage
        /\ ended' = 0
        /\ reopens' = 0
        /\ UNCHANGED <<files, unsent>>

-----------------------------------------------------------------------------
Next ==
    \/ \E m \in Messages :
          \/ HostSends(m)
          \/ AgentWrites(m)
          \/ WatcherSends(m)
          \/ WatcherDrops(m)
          \/ SendSucceeds(m)
          \/ SendFails(m)
    \/ \E i \in DOMAIN flushes : FlushSucceeds(i) \/ FlushFails(i)
    \/ \E k \in Kinds : Connects(k) \/ ConnectFails(k)
    \/ TimerFires
    \/ \E s \in Sockets : Opens(s) \/ Closes(s)
    \/ ReopenChannel
    \/ HostRestarts

Spec == Init /\ [][Next]_vars

(***************************************************************************)
(* Fairness: the library settles every send, the watcher polls its         *)
(* directory, and timers fire.  Nothing is assumed of the network.         *)
(***************************************************************************)
FairSpec ==
    /\ Spec
    /\ \A m \in Messages :
          /\ WF_vars(SendSucceeds(m) \/ SendFails(m))
          /\ WF_vars(WatcherSends(m) \/ WatcherDrops(m))
    /\ WF_vars(\E i \in DOMAIN flushes : FlushSucceeds(i) \/ FlushFails(i))
    /\ WF_vars(TimerFires)

-----------------------------------------------------------------------------
(***************************************************************************)
(* Properties.                                                             *)
(***************************************************************************)

TypeOK ==
    /\ connected \in BOOLEAN
    /\ sockets \in [Sockets -> {"none", "connecting", "open"}]
    /\ sock \in Sockets \cup {NoSocket}
    /\ attempts \in [Kinds -> Nat]
    /\ timers \in Nat
    /\ queue \in Seq(Messages)
    /\ flushing \in BOOLEAN
    /\ flushes \in Seq(Messages)
    /\ sending \subseteq Messages
    /\ files \subseteq Messages
    /\ watcher \in Messages \cup {NoMessage}
    /\ unsent \subseteq Messages
    /\ received \in [Messages -> Nat]
    /\ lost \subseteq Messages
    /\ uncertain \subseteq Messages
    /\ ended \in Nat
    /\ reopens \in Nat
    /\ restarts \in Nat

\* Every connection is carried on by exactly one of a socket, a call or a
\* timer, until it is given up: a close never starts two reconnects, nor
\* forgets to start one.  Only a channel restart adds a connection, and the
\* one before it goes on next to it.
ConnectionsExact ==
    Cardinality(Live) + attempts["first"] + attempts["again"]
        + attempts["last"] + timers + ended = 1 + reopens

\* The flag that sendMessage reads is right as long as the channel has one
\* connection.
ConnectedIsOpen == reopens = 0 => (connected <=> sock \in Opened)

\* What an agent or the host asked to send is still there, got through, or is
\* counted as lost: by a flush whose send failed, a restart of the host, or a
\* watcher that may not send it.  No other step drops it.
Accounted ==
    \A m \in Messages :
        \/ m \in unsent \cup files \cup sending \cup lost
        \/ InQueue(m) \/ InFlush(m)
        \/ received[m] > 0

\* The recipient sees a message twice only after a send that failed or was cut
\* short by a restart: no queue, flush or file sends it a second time.
ReceivedOnce ==
    \A m \in Messages : received[m] > 1 => m \in uncertain

\* A flush gets messages through in the order in which they were queued: no
\* second flush overtakes it, though every connection that opens starts one.
InOrder ==
    [][/\ flushes' # flushes
       /\ received' # received
       /\ restarts' = restarts
       => LET next == Head(flushes \o queue)
          IN  received'[next] > received[next]]_vars

SendRejected ==
    \/ \E m \in Messages : SendFails(m)
    \/ \E i \in DOMAIN flushes : FlushFails(i)

\* Once the socket rejects no more sends, every connection that opens takes
\* the messages that wait out of the queue.
QueueEmpties ==
    /\ <>[][~SendRejected]_vars
    /\ []<><<\E s \in Sockets : Opens(s)>>_vars
    => \A m \in Messages : InQueue(m) ~> ~InQueue(m)
=============================================================================
