----------------------------- MODULE SseBroadcast -----------------------------
(***************************************************************************)
(* The server-sent-event side of HttpServer (http/server.cpp): any thread  *)
(* calls broadcast, one detached thread per browser runs handleSSE, and    *)
(* the main thread calls stop.  Messages are numbered in the order in      *)
(* which broadcast took sseClientsMutex_.                                  *)
(*                                                                         *)
(* sseClientsMutex_ is held across steps by a broadcast only (pending is   *)
(* not empty then); the mutex of a client is held across steps only while  *)
(* its thread goes from the predicate of wait_for to sleep.                *)
(***************************************************************************)
EXTENDS Naturals, Sequences

CONSTANTS
    Browsers,     \* the connections to /events
    MaxMessages,  \* bound: how many broadcasts
    MaxJoins      \* bound: how many times a browser connects

ASSUME BoundsAssumption == MaxMessages \in Nat /\ MaxJoins \in Nat

VARIABLES
    server,      \* "up", "stopping" once running_ is false, then "stopped"
    clients,     \* sseClients_
    pending,     \* the clients the broadcast under way has still to reach
    sent,        \* number of the last broadcast
    alive,       \* client->alive
    queue,       \* client->queue
    notified,    \* client->cv was notified while its thread slept
    pc,          \* where the client's thread is in handleSSE
    batch,       \* msgs, what remains to be sent of it
    got,         \* what was written to the browser since it joined
    from,        \* number of the last broadcast before it joined
    joins        \* environment counter

shared == <<server, clients, pending, sent>>
own == <<alive, queue, notified, pc, batch, got, from>>
vars == <<shared, own, joins>>

Pcs == {"off", "joining", "loop", "test", "block", "asleep", "send", "beat",
        "leave", "remove"}

Init ==
    /\ server = "up" /\ clients = {} /\ pending = {} /\ sent = 0
    /\ alive = [c \in Browsers |-> FALSE]
    /\ queue = [c \in Browsers |-> <<>>]
    /\ notified = [c \in Browsers |-> FALSE]
    /\ pc = [c \in Browsers |-> "off"]
    /\ batch = [c \in Browsers |-> <<>>]
    /\ got = [c \in Browsers |-> <<>>]
    /\ from = [c \in Browsers |-> 0]
    /\ joins = 0

LockFree == pending = {}
NeverLocked(c) == TRUE                           \* mutant: push without the mutex
LockedInSend(c) == pc[c] \notin {"block", "send"} \* mutant: send inside its scope
MutexFree(c) == pc[c] # "block"
-----------------------------------------------------------------------------
(* broadcast: under sseClientsMutex_, reaches each client under its mutex. *)
Broadcast ==
    /\ LockFree /\ sent < MaxMessages
    /\ sent' = sent + 1
    /\ pending' = clients
    /\ UNCHANGED <<server, clients, own, joins>>

PushTo(c, wake) ==
    /\ c \in pending
    /\ pending' = pending \ {c}
    /\ IF alive[c]
       THEN /\ MutexFree(c)
            /\ queue' = [queue EXCEPT ![c] = Append(@, sent)]
            /\ notified' = [notified EXCEPT ![c] = @ \/ (wake /\ pc[c] = "asleep")]
       ELSE UNCHANGED <<queue, notified>>
    /\ UNCHANGED <<server, clients, sent, alive, pc, batch, got, from, joins>>
PushSilently(c) == PushTo(c, FALSE)              \* mutant: no notify_one
Push(c) == PushTo(c, TRUE)
-----------------------------------------------------------------------------
(* acceptLoop starts a thread, which sends the header before it registers. *)
Accept(c) ==
    /\ server # "stopped" /\ pc[c] = "off" /\ joins < MaxJoins
    /\ pc' = [pc EXCEPT ![c] = "joining"]
    /\ joins' = joins + 1
    /\ UNCHANGED <<shared, alive, queue, notified, batch, got, from>>

Register(c) ==
    /\ pc[c] = "joining" /\ LockFree
    /\ clients' = clients \cup {c}
    /\ alive' = [alive EXCEPT ![c] = TRUE]
    /\ queue' = [queue EXCEPT ![c] = <<>>]
    /\ notified' = [notified EXCEPT ![c] = FALSE]
    /\ batch' = [batch EXCEPT ![c] = <<>>]
    /\ got' = [got EXCEPT ![c] = <<>>]
    /\ from' = [from EXCEPT ![c] = sent]
    /\ pc' = [pc EXCEPT ![c] = "loop"]
    /\ UNCHANGED <<server, pending, sent, joins>>

Stay(c, p) == /\ pc' = [pc EXCEPT ![c] = p]
              /\ UNCHANGED <<shared, joins, alive, queue, batch, got, from>>

GoesOnForEver(c) == TRUE                         \* mutant: while (true)
GoesOn(c) == server = "up" /\ alive[c]
LoopTest(c) == /\ pc[c] = "loop"
               /\ Stay(c, IF GoesOn(c) THEN "test" ELSE "leave")
               /\ UNCHANGED notified

(* The end of the critical section: everything queued is taken.            *)
Take(c, rest, next) ==
    /\ batch' = [batch EXCEPT ![c] = queue[c]]
    /\ queue' = [queue EXCEPT ![c] = rest]
    /\ pc' = [pc EXCEPT ![c] = next]
    /\ notified' = [notified EXCEPT ![c] = FALSE]
    /\ UNCHANGED <<shared, joins, alive, got, from>>
DrainKeepsOne(c) ==                              \* mutant: the last is not popped
    Take(c, IF Len(queue[c]) < 2 THEN <<>> ELSE <<queue[c][Len(queue[c])]>>,
         IF queue[c] = <<>> THEN "beat" ELSE "send")
DrainNoBeat(c) == Take(c, <<>>, "send")          \* mutant: empty msgs not tested
Drain(c) == Take(c, <<>>, IF queue[c] = <<>> THEN "beat" ELSE "send")

(* wait_for: evaluates its predicate, sleeps when it is false, and         *)
(* evaluates it again when notified; after 15 s it returns in any case.    *)
WaitTest(c) ==
    /\ pc[c] = "test"
    /\ IF queue[c] # <<>> \/ server # "up" \/ ~alive[c]
       THEN Drain(c)
       ELSE Stay(c, "block") /\ UNCHANGED notified
Sleep(c)   == /\ pc[c] = "block" /\ Stay(c, "asleep")
              /\ notified' = [notified EXCEPT ![c] = FALSE]
Wake(c)    == /\ pc[c] = "asleep" /\ notified[c] /\ Stay(c, "test")
              /\ notified' = [notified EXCEPT ![c] = FALSE]
Timeout(c) == pc[c] = "asleep" /\ Drain(c)

(* One call of send, which waits as long as the browser does not read.     *)
SendFrame(c) ==
    /\ pc[c] = "send"
    /\ got' = [got EXCEPT ![c] = Append(@, Head(batch[c]))]
    /\ batch' = [batch EXCEPT ![c] = Tail(@)]
    /\ pc' = [pc EXCEPT ![c] = IF Len(batch[c]) = 1 THEN "loop" ELSE "send"]
    /\ UNCHANGED <<shared, joins, alive, queue, notified, from>>
SendHeartbeat(c) == pc[c] = "beat" /\ Stay(c, "loop") /\ UNCHANGED notified
SendFails(c) ==
    /\ pc[c] \in {"send", "beat"}
    /\ batch' = [batch EXCEPT ![c] = <<>>]
    /\ pc' = [pc EXCEPT ![c] = "leave"]
    /\ UNCHANGED <<shared, joins, alive, queue, notified, got, from>>

(* cleanup: no longer alive, then out of the list, under the lock.         *)
Leave(c) ==
    /\ pc[c] = "leave"
    /\ alive' = [alive EXCEPT ![c] = FALSE]
    /\ pc' = [pc EXCEPT ![c] = "remove"]
    /\ UNCHANGED <<shared, joins, queue, notified, batch, got, from>>
Unregister(c) ==
    /\ pc[c] = "remove" /\ LockFree
    /\ clients' = clients \ {c}
    /\ pc' = [pc EXCEPT ![c] = "off"]
    /\ UNCHANGED <<server, pending, sent, joins, alive, queue, notified,
                   batch, got, from>>

Step(c) == \/ Register(c) \/ LoopTest(c) \/ WaitTest(c) \/ Sleep(c) \/ Wake(c)
           \/ Leave(c) \/ Unregister(c)
Send(c) == SendFrame(c) \/ SendHeartbeat(c) \/ SendFails(c)
-----------------------------------------------------------------------------
(* stop: running_ is cleared first; then, under sseClientsMutex_ but not   *)
(* under their own mutexes, the clients are marked dead and notified.      *)
StopBegins ==
    /\ server = "up" /\ server' = "stopping"
    /\ UNCHANGED <<clients, pending, sent, own, joins>>
StopWakes ==
    /\ server = "stopping" /\ LockFree
    /\ server' = "stopped"
    /\ alive' = [c \in Browsers |-> alive[c] /\ c \notin clients]
    /\ notified' = [c \in Browsers |->
                      notified[c] \/ (c \in clients /\ pc[c] = "asleep")]
    /\ UNCHANGED <<clients, pending, sent, queue, pc, batch, got, from, joins>>

Next ==
    \/ Broadcast \/ StopBegins \/ StopWakes
    \/ \E c \in Browsers : \/ Push(c) \/ Accept(c) \/ Step(c) \/ Send(c)
                           \/ Timeout(c)

(* The threads of the server are scheduled, and one that waits for a mutex *)
(* gets it when it is free again and again.  Nothing is assumed of the     *)
(* browsers, of the 15 s timer or of new calls.                            *)
Fairness == /\ \A c \in Browsers : SF_vars(Push(c)) /\ WF_vars(Step(c))
            /\ WF_vars(StopWakes)
Spec == Init /\ [][Next]_vars /\ Fairness

Reads(c)      == WF_vars(Send(c))      \* the browser reads, or its socket fails
TimerFires(c) == WF_vars(Timeout(c))   \* wait_for returns after 15 s
-----------------------------------------------------------------------------
(* Types, and: a thread is at the send loop exactly with something to send *)
(* (an empty msgs is a heartbeat, server.cpp:225).                         *)
TypeOK ==
    /\ server \in {"up", "stopping", "stopped"}
    /\ clients \subseteq Browsers /\ pending \subseteq clients
    /\ sent \in 0..MaxMessages /\ joins \in 0..MaxJoins
    /\ alive \in [Browsers -> BOOLEAN] /\ notified \in [Browsers -> BOOLEAN]
    /\ queue \in [Browsers -> Seq(1..MaxMessages)]
    /\ batch \in [Browsers -> Seq(1..MaxMessages)]
    /\ got \in [Browsers -> Seq(1..MaxMessages)]
    /\ from \in [Browsers -> 0..MaxMessages]
    /\ pc \in [Browsers -> Pcs]
    /\ \A c \in Browsers : pc[c] = "send" <=> batch[c] # <<>>

Numbers(m, n) == [k \in 1..(n - m) |-> m + k]
IsPrefixOf(s, t) == Len(s) <= Len(t) /\ \A k \in 1..Len(s) : s[k] = t[k]

(* What a browser was sent is, in order, without a gap or a repetition,    *)
(* what was broadcast since it joined; and nothing broadcast to a client   *)
(* that is alive is ever missing from what it was sent, what its thread is *)
(* sending and what is queued for it, whatever the other clients do.       *)
InOrderNoGap ==
    \A c \in clients :
        /\ IsPrefixOf(got[c], Numbers(from[c], sent))
        /\ alive[c] /\ pc[c] # "leave" =>
             got[c] \o batch[c] \o queue[c]
               = Numbers(from[c], IF c \in pending THEN sent - 1 ELSE sent)

(* No lost wake-up for a message: a thread sleeps in wait_for on a queue   *)
(* that is not empty only if it has been notified (server.cpp:107-109).    *)
NeverSleepsOnMessage ==
    \A c \in clients : pc[c] = "asleep" /\ queue[c] # <<>> => notified[c]

(* broadcast returns, even if no browser ever reads again and the 15 s     *)
(* timer never fires: the data callbacks of the IEC threads cannot be held *)
(* up by a slow browser, since send is outside both mutexes.               *)
BroadcastCompletes == pending # {} ~> pending = {}

(* A browser that reads gets every message broadcast since it joined, or   *)
(* is dropped, by the notifications alone, without the help of the timer.  *)
Delivered ==
    \A c \in Browsers : Reads(c) =>
        \A m \in 1..MaxMessages :
            (c \in clients /\ from[c] < m /\ m <= sent)
            ~> (from[c] + Len(got[c]) >= m \/ ~alive[c])

(* After stop every SSE thread ends, if its browser reads and the timer    *)
(* fires.                                                                  *)
StopEndsClients ==
    \A c \in Browsers : Reads(c) /\ TimerFires(c) =>
        (server = "stopped" /\ pc[c] # "off" ~> pc[c] = "off")

(* After stop no SSE thread is left asleep without a notification          *)
(* (server.cpp:79, "Wake up all SSE clients so their threads can exit").   *)
StopWakesAll ==
    server = "stopped" =>
        \A c \in clients : pc[c] = "asleep" => notified[c]
=============================================================================
