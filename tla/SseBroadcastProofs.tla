------------------------- MODULE SseBroadcastProofs -------------------------
(***************************************************************************)
(* Theorems about SseBroadcast for every set of browsers and every bound   *)
(* on messages and joins.                                                  *)
(***************************************************************************)
EXTENDS SseBroadcast, SequenceTheorems, TLAPS

-----------------------------------------------------------------------------
(* Sequences.                                                              *)

(* Numbers(m, n) is the sequence m+1, ..., n.                              *)
LEMMA NumbersSeq ==
  ASSUME NEW m \in Nat, NEW n \in Nat, m <= n
  PROVE  /\ Numbers(m, n) \in Seq(Nat)
         /\ Len(Numbers(m, n)) = n - m
         /\ \A k \in 1..(n - m) : Numbers(m, n)[k] = m + k
  <1>1. n - m \in Nat
    OBVIOUS
  <1>2. Numbers(m, n) \in [1..(n - m) -> Nat]
    BY DEF Numbers
  <1>3. Numbers(m, n) \in Seq(Nat)
    BY <1>1, <1>2, SeqDef
  <1>4. DOMAIN Numbers(m, n) = 1..(n - m)
    BY DEF Numbers
  <1>5. Len(Numbers(m, n)) = n - m
    BY <1>1, <1>3, <1>4, LenProperties
  <1> QED BY <1>3, <1>5 DEF Numbers

LEMMA AppendSeq ==
  ASSUME NEW S, NEW s \in Seq(S), NEW x \in S
  PROVE  /\ Append(s, x) \in Seq(S)
         /\ Append(s, x) = s \o <<x>>
         /\ Len(Append(s, x)) = Len(s) + 1
         /\ \A k \in 1..Len(s) : Append(s, x)[k] = s[k]
         /\ Append(s, x)[Len(s) + 1] = x
  OBVIOUS

LEMMA NumbersAppend ==
  ASSUME NEW m \in Nat, NEW n \in Nat, m <= n
  PROVE  Append(Numbers(m, n), n + 1) = Numbers(m, n + 1)
  <1> DEFINE s == Append(Numbers(m, n), n + 1)
             t == Numbers(m, n + 1)
  <1>1. /\ Numbers(m, n) \in Seq(Nat) /\ Len(Numbers(m, n)) = n - m
        /\ \A k \in 1..(n - m) : Numbers(m, n)[k] = m + k
    BY NumbersSeq
  <1>2. t \in Seq(Nat) /\ Len(t) = n + 1 - m /\ \A k \in 1..(n + 1 - m) : t[k] = m + k
    <2>1. n + 1 \in Nat /\ m <= n + 1
      OBVIOUS
    <2> QED BY <2>1, NumbersSeq
  <1>3. /\ s \in Seq(Nat) /\ Len(s) = n - m + 1
        /\ \A k \in 1..(n - m) : s[k] = m + k
        /\ s[n - m + 1] = n + 1
    <2>1. n + 1 \in Nat
      OBVIOUS
    <2>2. /\ s \in Seq(Nat) /\ Len(s) = Len(Numbers(m, n)) + 1
          /\ \A k \in 1..Len(Numbers(m, n)) : s[k] = Numbers(m, n)[k]
          /\ s[Len(Numbers(m, n)) + 1] = n + 1
      BY <1>1, <2>1, AppendSeq
    <2> QED BY <1>1, <2>2
  <1>4. ASSUME NEW k \in 1..Len(s) PROVE s[k] = t[k]
    <2>1. k \in 1..(n - m) \/ k = n - m + 1
      BY <1>3
    <2> HIDE DEF s, t
    <2> QED BY <2>1, <1>2, <1>3
  <1>5. Len(s) = Len(t)
    BY <1>2, <1>3
  <1> HIDE DEF s, t
  <1>6. s = t
    BY <1>2, <1>3, <1>4, <1>5, SeqEqual
  <1> QED BY <1>6 DEF s, t

(* What precedes in a concatenation that counts up is a prefix of any      *)
(* longer count.                                                           *)
LEMMA HeadOfNumbers ==
  ASSUME NEW g \in Seq(Nat), NEW r \in Seq(Nat),
         NEW m \in Nat, NEW k \in Nat, NEW n \in Nat, m <= k, k <= n,
         g \o r = Numbers(m, k)
  PROVE  IsPrefixOf(g, Numbers(m, n))
  <1>1. /\ Len(g) \in Nat /\ Len(r) \in Nat /\ Len(g \o r) = Len(g) + Len(r)
        /\ \A j \in 1..Len(g) + Len(r) :
             (g \o r)[j] = IF j <= Len(g) THEN g[j] ELSE r[j - Len(g)]
    BY ConcatProperties, LenProperties
  <1>2. Len(Numbers(m, k)) = k - m /\ \A j \in 1..(k - m) : Numbers(m, k)[j] = m + j
    BY NumbersSeq
  <1>3. Len(Numbers(m, n)) = n - m /\ \A j \in 1..(n - m) : Numbers(m, n)[j] = m + j
    <2>1. m <= n
      OBVIOUS
    <2> QED BY <2>1, NumbersSeq
  <1>4. Len(g) <= k - m
    BY <1>1, <1>2
  <1>5. ASSUME NEW j \in 1..Len(g) PROVE g[j] = Numbers(m, n)[j]
    <2>1. j \in 1..Len(g) + Len(r) /\ j \in 1..(k - m) /\ j \in 1..(n - m)
      BY <1>1, <1>4
    <2>2. (g \o r)[j] = g[j]
      BY <1>1, <2>1
    <2>3. (g \o r)[j] = m + j
      BY <1>2, <2>1
    <2> QED BY <1>3, <2>1, <2>2, <2>3
  <1> QED BY <1>3, <1>4, <1>5 DEF IsPrefixOf

(* A prefix of a count is a prefix of a longer one.                        *)
LEMMA PrefixGrows ==
  ASSUME NEW g \in Seq(Nat), NEW m \in Nat, NEW n \in Nat, NEW p \in Nat,
         m <= n, n <= p, IsPrefixOf(g, Numbers(m, n))
  PROVE  IsPrefixOf(g, Numbers(m, p))
  <1>1. Len(g) \in Nat
    BY LenProperties
  <1>2. Len(Numbers(m, n)) = n - m /\ \A j \in 1..(n - m) : Numbers(m, n)[j] = m + j
    BY NumbersSeq
  <1>3. Len(Numbers(m, p)) = p - m /\ \A j \in 1..(p - m) : Numbers(m, p)[j] = m + j
    <2>1. m <= p
      OBVIOUS
    <2> QED BY <2>1, NumbersSeq
  <1> QED BY <1>1, <1>2, <1>3 DEF IsPrefixOf

LEMMA ConcatNat ==
  ASSUME NEW s \in Seq(Nat), NEW t \in Seq(Nat), NEW u \in Seq(Nat)
  PROVE  (s \o t) \o u = s \o (t \o u)
  BY ConcatAssociative

LEMMA AppendNat ==
  ASSUME NEW s \in Seq(Nat), NEW x \in Nat
  PROVE  Append(s, x) = s \o <<x>>
  OBVIOUS

(* Moving the first element of the middle to the left changes nothing.     *)
LEMMA SendKeeps ==
  ASSUME NEW g \in Seq(Nat), NEW b \in Seq(Nat), NEW q \in Seq(Nat), b # <<>>
  PROVE  Append(g, Head(b)) \o Tail(b) \o q = g \o b \o q
  <1>1. Head(b) \in Nat /\ Tail(b) \in Seq(Nat)
    BY HeadTailProperties
  <1>2. <<Head(b)>> \in Seq(Nat) /\ Append(g, Head(b)) = g \o <<Head(b)>>
    BY <1>1, AppendNat
  <1>3. <<Head(b)>> \o Tail(b) = b
    BY <1>1
  <1>4. (g \o <<Head(b)>>) \o Tail(b) = g \o (<<Head(b)>> \o Tail(b))
    BY <1>1, <1>2, ConcatNat
  <1> QED BY <1>2, <1>3, <1>4

LEMMA EmptyLen ==
  ASSUME NEW S, NEW s \in Seq(S)
  PROVE  s = <<>> <=> Len(s) = 0
  BY EmptySeq

(* An element appended on the right is appended to the whole.              *)
LEMMA PushAppends ==
  ASSUME NEW g \in Seq(Nat), NEW b \in Seq(Nat), NEW q \in Seq(Nat), NEW x \in Nat
  PROVE  g \o b \o Append(q, x) = Append(g \o b \o q, x)
  <1>1. g \o b \in Seq(Nat) /\ g \o b \o q \in Seq(Nat) /\ <<x>> \in Seq(Nat)
    BY ConcatProperties
  <1>2. Append(q, x) = q \o <<x>> /\ Append(g \o b \o q, x) = (g \o b \o q) \o <<x>>
    BY <1>1, AppendNat
  <1>3. ((g \o b) \o q) \o <<x>> = (g \o b) \o (q \o <<x>>)
    <2> DEFINE h == g \o b
    <2> HIDE DEF h
    <2>1. h \in Seq(Nat) /\ <<x>> \in Seq(Nat)
      BY <1>1 DEF h
    <2>2. (h \o q) \o <<x>> = h \o (q \o <<x>>)
      BY <2>1, ConcatNat
    <2> QED BY <2>2 DEF h
  <1> QED BY <1>2, <1>3
-----------------------------------------------------------------------------
(* The inductive invariant.                                                *)

Messages == 1..MaxMessages

(* The list holds exactly the clients whose thread is in the loop or after *)
(* it; a client about to be removed is marked dead.                        *)
Placed == \A c \in Browsers :
            /\ c \in clients <=> pc[c] \notin {"off", "joining"}
            /\ pc[c] = "remove" => ~alive[c]

(* Between the predicate and the sleep the queue stays empty, since the    *)
(* mutex is held; a message that comes later notifies.                     *)
Awake == \A c \in Browsers :
           /\ pc[c] = "block" => queue[c] = <<>>
           /\ pc[c] = "asleep" /\ queue[c] # <<>> => notified[c]

(* The last message that client c has been handed.                         *)
LastFor(c) == IF c \in pending THEN sent - 1 ELSE sent
Whole(c) == got[c] \o batch[c] \o queue[c]
Leaving(c) == pc[c] \in {"leave", "remove"}

(* What c was sent, is sent and has queued is a count from from[c], up to  *)
(* the last message if c is alive; a failed send breaks the count, but no  *)
(* more is sent after it.                                                  *)
Progress(c) ==
  /\ from[c] <= LastFor(c)
  /\ IsPrefixOf(got[c], Numbers(from[c], sent))
  /\ ~Leaving(c) => \E k \in Nat : /\ from[c] <= k /\ k <= LastFor(c)
                                   /\ Whole(c) = Numbers(from[c], k)
                                   /\ alive[c] => k = LastFor(c)

InOrder == \A c \in clients : Progress(c)

IInv == TypeOK /\ Placed /\ Awake /\ InOrder
-----------------------------------------------------------------------------
(* Typing.                                                                 *)

LEMMA StayTyped ==
  ASSUME TypeOK, NEW c \in Browsers, NEW p \in Pcs, p # "send", pc[c] # "send",
         Stay(c, p), notified' \in [Browsers -> BOOLEAN]
  PROVE  TypeOK'
  BY DEF TypeOK, Stay, shared

LEMMA DrainTyped ==
  ASSUME TypeOK, NEW c \in Browsers, Drain(c)
  PROVE  TypeOK'
  <1>1. <<>> \in Seq(Messages)
    BY EmptySeq
  <1> QED BY <1>1 DEF TypeOK, Drain, Take, shared, Pcs, Messages

LEMMA SendFrameTyped ==
  ASSUME TypeOK, NEW c \in Browsers, SendFrame(c)
  PROVE  TypeOK'
  <1>1. batch[c] \in Seq(Messages) /\ got[c] \in Seq(Messages) /\ batch[c] # <<>>
    BY DEF TypeOK, SendFrame, Messages
  <1>2. /\ Head(batch[c]) \in Messages /\ Tail(batch[c]) \in Seq(Messages)
        /\ Len(Tail(batch[c])) = Len(batch[c]) - 1
    BY <1>1, HeadTailProperties
  <1>3. Append(got[c], Head(batch[c])) \in Seq(Messages)
    BY <1>1, <1>2, AppendSeq
  <1>4. Tail(batch[c]) # <<>> <=> Len(batch[c]) # 1
    <2>1. Tail(batch[c]) = <<>> <=> Len(Tail(batch[c])) = 0
      BY <1>2, EmptyLen
    <2>2. Len(batch[c]) \in Nat
      BY <1>1, LenProperties
    <2> QED BY <1>2, <2>1, <2>2
  <1> QED BY <1>1, <1>2, <1>3, <1>4 DEF TypeOK, SendFrame, shared, Pcs, Messages

LEMMA PushTyped ==
  ASSUME TypeOK, NEW c \in Browsers, Push(c), sent >= 1
  PROVE  TypeOK'
  <1>1. sent \in Messages /\ queue[c] \in Seq(Messages)
    BY BoundsAssumption DEF TypeOK, Messages
  <1>2. Append(queue[c], sent) \in Seq(Messages)
    BY <1>1, AppendSeq
  <1>3. queue' \in [Browsers -> Seq(Messages)]
    BY <1>2 DEF TypeOK, Push, PushTo, Messages
  <1>4. notified' \in [Browsers -> BOOLEAN]
    BY DEF TypeOK, Push, PushTo
  <1>5. pending' \subseteq clients'
    BY DEF TypeOK, Push, PushTo
  <1> QED BY <1>3, <1>4, <1>5 DEF TypeOK, Push, PushTo, Messages

LEMMA TypeStep ==
  ASSUME TypeOK, \A c \in clients : from[c] <= LastFor(c), [Next]_vars
  PROVE  TypeOK'
  <1> <<>> \in Seq(Messages)
    BY EmptySeq
  <1>1. CASE Broadcast
    BY <1>1, BoundsAssumption DEF TypeOK, Broadcast, own, LockFree
  <1>2. CASE StopBegins
    BY <1>2 DEF TypeOK, StopBegins, own
  <1>3. CASE StopWakes
    BY <1>3 DEF TypeOK, StopWakes, own
  <1>4. ASSUME NEW c \in Browsers, Push(c) PROVE TypeOK'
    <2>1. c \in pending /\ c \in clients
      BY <1>4 DEF TypeOK, Push, PushTo
    <2>2. sent >= 1
      BY <2>1 DEF TypeOK, LastFor
    <2> QED BY <1>4, <2>2, PushTyped
  <1>5. ASSUME NEW c \in Browsers, Accept(c) PROVE TypeOK'
    BY <1>5, BoundsAssumption DEF TypeOK, Accept, shared, Pcs
  <1>6. ASSUME NEW c \in Browsers, Register(c) PROVE TypeOK'
    BY <1>6 DEF TypeOK, Register, LockFree, Pcs, Messages
  <1>7. ASSUME NEW c \in Browsers, LoopTest(c) PROVE TypeOK'
    BY <1>7, StayTyped DEF LoopTest, Pcs, TypeOK
  <1>8. ASSUME NEW c \in Browsers, WaitTest(c) PROVE TypeOK'
    BY <1>8, StayTyped, DrainTyped DEF WaitTest, Pcs, TypeOK
  <1>9. ASSUME NEW c \in Browsers, Sleep(c) PROVE TypeOK'
    BY <1>9, StayTyped DEF Sleep, Pcs, TypeOK
  <1>10. ASSUME NEW c \in Browsers, Wake(c) PROVE TypeOK'
    BY <1>10, StayTyped DEF Wake, Pcs, TypeOK
  <1>11. ASSUME NEW c \in Browsers, Timeout(c) PROVE TypeOK'
    BY <1>11, DrainTyped DEF Timeout
  <1>12. ASSUME NEW c \in Browsers, SendFrame(c) PROVE TypeOK'
    BY <1>12, SendFrameTyped
  <1>13. ASSUME NEW c \in Browsers, SendHeartbeat(c) PROVE TypeOK'
    BY <1>13, StayTyped DEF SendHeartbeat, Pcs, TypeOK
  <1>14. ASSUME NEW c \in Browsers, SendFails(c) PROVE TypeOK'
    BY <1>14 DEF TypeOK, SendFails, shared, Pcs, Messages
  <1>15. ASSUME NEW c \in Browsers, Leave(c) PROVE TypeOK'
    BY <1>15 DEF TypeOK, Leave, shared, Pcs
  <1>16. ASSUME NEW c \in Browsers, Unregister(c) PROVE TypeOK'
    BY <1>16 DEF TypeOK, Unregister, LockFree, Pcs
  <1>17. CASE UNCHANGED vars
    BY <1>17 DEF TypeOK, vars, shared, own
  <1> QED
    BY <1>1, <1>2, <1>3, <1>4, <1>5, <1>6, <1>7, <1>8, <1>9, <1>10, <1>11,
       <1>12, <1>13, <1>14, <1>15, <1>16, <1>17 DEF Next, Step, Send
-----------------------------------------------------------------------------
(* Placed and Awake: each action, at the client it concerns.               *)

LEMMA PlacedStep ==
  ASSUME TypeOK, Placed, [Next]_vars
  PROVE  Placed'
  <1>1. CASE Broadcast \/ StopBegins \/ StopWakes
    BY <1>1 DEF Placed, Broadcast, StopBegins, StopWakes, own
  <1>2. ASSUME NEW c \in Browsers, Push(c) \/ Accept(c) \/ Register(c) PROVE Placed'
    BY <1>2 DEF Placed, Push, PushTo, Accept, Register, shared, TypeOK
  <1>3. ASSUME NEW c \in Browsers,
               LoopTest(c) \/ Sleep(c) \/ Wake(c) \/ SendHeartbeat(c)
        PROVE  Placed'
    BY <1>3 DEF Placed, LoopTest, Sleep, Wake, SendHeartbeat, Stay, shared, TypeOK
  <1>4. ASSUME NEW c \in Browsers, WaitTest(c) \/ Timeout(c) PROVE Placed'
    <2>1. PICK p \in {"block", "beat", "send"} : pc' = [pc EXCEPT ![c] = p]
      BY <1>4 DEF WaitTest, Timeout, Drain, Take, Stay
    <2>2. pc[c] \in {"test", "asleep"} /\ UNCHANGED <<clients, alive>>
      BY <1>4 DEF WaitTest, Timeout, Drain, Take, Stay, shared
    <2> QED BY <2>1, <2>2 DEF Placed, TypeOK
  <1>5. ASSUME NEW c \in Browsers, SendFrame(c) \/ SendFails(c) PROVE Placed'
    BY <1>5 DEF Placed, SendFrame, SendFails, shared, TypeOK
  <1>6. ASSUME NEW c \in Browsers, Leave(c) \/ Unregister(c) PROVE Placed'
    BY <1>6 DEF Placed, Leave, Unregister, shared, TypeOK
  <1>7. CASE UNCHANGED vars
    BY <1>7 DEF Placed, vars, shared, own
  <1> QED
    BY <1>1, <1>2, <1>3, <1>4, <1>5, <1>6, <1>7 DEF Next, Step, Send

LEMMA AwakeStep ==
  ASSUME TypeOK, Awake, [Next]_vars
  PROVE  Awake'
  <1>1. CASE Broadcast \/ StopBegins
    BY <1>1 DEF Awake, Broadcast, StopBegins, own
  <1>2. CASE StopWakes
    BY <1>2 DEF Awake, StopWakes, TypeOK
  <1>3. ASSUME NEW c \in Browsers, Push(c) PROVE Awake'
    BY <1>3 DEF Awake, Push, PushTo, MutexFree, TypeOK
  <1>4. ASSUME NEW c \in Browsers, Accept(c) \/ Register(c) PROVE Awake'
    BY <1>4 DEF Awake, Accept, Register, TypeOK
  <1>5. ASSUME NEW c \in Browsers,
               LoopTest(c) \/ Sleep(c) \/ Wake(c) \/ SendHeartbeat(c)
        PROVE  Awake'
    BY <1>5 DEF Awake, LoopTest, Sleep, Wake, SendHeartbeat, Stay, TypeOK
  <1>6. ASSUME NEW c \in Browsers, WaitTest(c) \/ Timeout(c) PROVE Awake'
    BY <1>6 DEF Awake, WaitTest, Timeout, Drain, Take, Stay, TypeOK
  <1>7. ASSUME NEW c \in Browsers, SendFrame(c) \/ SendFails(c) PROVE Awake'
    BY <1>7 DEF Awake, SendFrame, SendFails, TypeOK
  <1>8. ASSUME NEW c \in Browsers, Leave(c) \/ Unregister(c) PROVE Awake'
    BY <1>8 DEF Awake, Leave, Unregister, TypeOK
  <1>9. CASE UNCHANGED vars
    BY <1>9 DEF Awake, vars, own
  <1> QED
    BY <1>1, <1>2, <1>3, <1>4, <1>5, <1>6, <1>7, <1>8, <1>9 DEF Next, Step, Send
-----------------------------------------------------------------------------
(* Order.                                                                  *)

LEMMA SeqsOfNat ==
  ASSUME TypeOK, NEW c \in Browsers
  PROVE  /\ got[c] \in Seq(Nat) /\ batch[c] \in Seq(Nat) /\ queue[c] \in Seq(Nat)
         /\ from[c] \in Nat /\ sent \in Nat /\ LastFor(c) \in Int
         /\ LastFor(c) <= sent
  <1>1. Messages \subseteq Nat
    BY BoundsAssumption DEF Messages
  <1>2. got[c] \in Seq(Messages) /\ batch[c] \in Seq(Messages) /\ queue[c] \in Seq(Messages)
    BY DEF TypeOK, Messages
  <1>3. from[c] \in Nat /\ sent \in Nat
    BY BoundsAssumption DEF TypeOK
  <1>4. got[c] \in Seq(Nat) /\ batch[c] \in Seq(Nat) /\ queue[c] \in Seq(Nat)
    BY <1>1, <1>2, SeqMonotonic
  <1>5. LastFor(c) \in Int /\ LastFor(c) <= sent
    BY <1>3 DEF LastFor
  <1> QED BY <1>3, <1>4, <1>5

(* A client whose own state stays the same.                                *)
LEMMA Frame ==
  ASSUME TypeOK, TypeOK', NEW d \in Browsers, Progress(d),
         got'[d] = got[d], batch'[d] = batch[d], queue'[d] = queue[d],
         from'[d] = from[d], LastFor(d)' = LastFor(d), sent <= sent',
         alive'[d] => alive[d], Leaving(d) => Leaving(d)'
  PROVE  Progress(d)'
  <1>1. /\ got[d] \in Seq(Nat) /\ from[d] \in Nat /\ sent \in Nat
        /\ LastFor(d) \in Int /\ LastFor(d) <= sent /\ sent' \in Nat
    BY SeqsOfNat, BoundsAssumption DEF TypeOK
  <1>2. IsPrefixOf(got[d], Numbers(from[d], sent'))
    BY <1>1, PrefixGrows DEF Progress
  <1>3. Whole(d)' = Whole(d)
    BY DEF Whole
  <1> QED BY <1>1, <1>2, <1>3 DEF Progress

(* A client whose messages move from its queue to its browser.             *)
LEMMA Moved ==
  ASSUME TypeOK, TypeOK', NEW d \in Browsers, Progress(d), ~Leaving(d),
         Whole(d)' = Whole(d), from'[d] = from[d],
         LastFor(d)' = LastFor(d), sent' = sent, alive'[d] => alive[d]
  PROVE  Progress(d)'
  <1>1. /\ got[d]' \in Seq(Nat) /\ batch[d]' \in Seq(Nat) /\ queue[d]' \in Seq(Nat)
        /\ from[d] \in Nat /\ sent \in Nat /\ LastFor(d) \in Int /\ LastFor(d) <= sent
    <2>1. Messages \subseteq Nat
      BY BoundsAssumption DEF Messages
    <2>2. got[d]' \in Seq(Messages) /\ batch[d]' \in Seq(Messages) /\ queue[d]' \in Seq(Messages)
      BY DEF TypeOK, Messages
    <2> QED BY <2>1, <2>2, SeqMonotonic, SeqsOfNat
  <1>2. PICK k \in Nat : /\ from[d] <= k /\ k <= LastFor(d)
                         /\ Whole(d) = Numbers(from[d], k)
                         /\ alive[d] => k = LastFor(d)
    BY DEF Progress
  <1>3. got[d]' \o (batch[d]' \o queue[d]') = Numbers(from[d], k)
    <2>1. (got[d]' \o batch[d]') \o queue[d]' = got[d]' \o (batch[d]' \o queue[d]')
      BY <1>1, ConcatNat
    <2> QED BY <1>2, <2>1 DEF Whole
  <1>4. batch[d]' \o queue[d]' \in Seq(Nat)
    BY <1>1, ConcatProperties
  <1>5. IsPrefixOf(got[d]', Numbers(from[d], sent))
    <2>1. k <= sent
      BY <1>1, <1>2
    <2> QED BY <1>1, <1>2, <1>3, <1>4, <2>1, HeadOfNumbers
  <1> QED BY <1>1, <1>2, <1>5 DEF Progress

LEMMA PushInOrder ==
  ASSUME TypeOK, TypeOK', InOrder, NEW c \in Browsers, Push(c)
  PROVE  InOrder'
  <1> SUFFICES ASSUME NEW d \in clients PROVE Progress(d)'
    BY DEF InOrder, Push, PushTo
  <1>1. d \in Browsers /\ Progress(d) /\ c \in pending
    BY DEF TypeOK, InOrder, Push, PushTo
  <1>2. CASE d # c \/ ~alive[c]
    <2>1. LastFor(d)' = LastFor(d) \/ d = c
      BY DEF LastFor, Push, PushTo
    <2>2. CASE d # c
      <3>1. /\ got'[d] = got[d] /\ batch'[d] = batch[d] /\ queue'[d] = queue[d]
            /\ from'[d] = from[d] /\ sent' = sent /\ alive' = alive /\ pc' = pc
        BY <1>1, <2>2 DEF Push, PushTo, TypeOK
      <3> QED BY <1>1, <2>1, <2>2, <3>1, Frame, SeqsOfNat DEF Leaving
    <2>3. CASE d = c /\ ~alive[c]
      <3>1. /\ got[c] \in Seq(Nat) /\ from[c] \in Nat /\ sent \in Nat
            /\ LastFor(c) = sent - 1 /\ LastFor(c)' = sent
        BY <1>1, <2>3, SeqsOfNat DEF LastFor, Push, PushTo
      <3>2. /\ got' = got /\ batch' = batch /\ queue' = queue /\ from' = from
            /\ sent' = sent /\ pc' = pc /\ alive' = alive
        BY <2>3 DEF Push, PushTo
      <3>3. Whole(c)' = Whole(c) /\ (Leaving(c)' <=> Leaving(c))
        BY <3>2 DEF Whole, Leaving
      <3> QED BY <1>1, <2>3, <3>1, <3>2, <3>3 DEF Progress
    <2> QED BY <1>2, <2>2, <2>3
  <1>3. CASE d = c /\ alive[c]
    <2>1. /\ got[c] \in Seq(Nat) /\ batch[c] \in Seq(Nat) /\ queue[c] \in Seq(Nat)
          /\ from[c] \in Nat /\ sent \in Nat
          /\ LastFor(c) = sent - 1 /\ LastFor(c)' = sent
      BY <1>1, <1>3, SeqsOfNat DEF LastFor, Push, PushTo
    <2>2. /\ got' = got /\ batch' = batch /\ queue'[c] = Append(queue[c], sent)
          /\ from' = from /\ sent' = sent /\ pc' = pc /\ alive' = alive
      BY <1>3 DEF Push, PushTo, TypeOK
    <2>3. ASSUME ~Leaving(c) PROVE Whole(c)' = Numbers(from[c], sent)
      <3>1. Whole(c) = Numbers(from[c], sent - 1) /\ from[c] <= sent - 1
        BY <1>1, <1>3, <2>1, <2>3 DEF Progress
      <3>2. Whole(c)' = Append(Whole(c), sent)
        <4>1. Whole(c)' = got[c] \o batch[c] \o Append(queue[c], sent)
          BY <2>2 DEF Whole
        <4>2. got[c] \o batch[c] \o Append(queue[c], sent)
                = Append(got[c] \o batch[c] \o queue[c], sent)
          BY <2>1, PushAppends
        <4>3. Whole(c) = got[c] \o batch[c] \o queue[c]
          BY DEF Whole
        <4> QED BY <4>1, <4>2, <4>3
      <3>3. sent - 1 \in Nat /\ (sent - 1) + 1 = sent
        <4>1. from[c] \in Nat /\ sent \in Nat /\ from[c] <= sent - 1
          BY <2>1, <3>1
        <4> QED BY <4>1
      <3>4. Append(Numbers(from[c], sent - 1), (sent - 1) + 1)
              = Numbers(from[c], (sent - 1) + 1)
        BY <2>1, <3>1, <3>3, NumbersAppend
      <3> QED BY <3>1, <3>2, <3>3, <3>4
    <2>4. from[c] <= sent /\ IsPrefixOf(got[c], Numbers(from[c], sent))
      BY <1>1, <1>3, <2>1 DEF Progress
    <2> QED BY <1>3, <2>1, <2>2, <2>3, <2>4 DEF Progress, Leaving
  <1> QED BY <1>2, <1>3

LEMMA RegisterInOrder ==
  ASSUME TypeOK, TypeOK', InOrder, NEW c \in Browsers, Register(c)
  PROVE  InOrder'
  <1> SUFFICES ASSUME NEW d \in clients' PROVE Progress(d)'
    BY DEF InOrder
  <1>1. CASE d # c
    <2>1. d \in clients /\ d \in Browsers /\ Progress(d)
      BY <1>1 DEF Register, InOrder, TypeOK
    <2> QED BY <1>1, <2>1, Frame, SeqsOfNat DEF Register, LastFor, Leaving, TypeOK
  <1>2. CASE d = c
    <2>1. /\ got'[c] = <<>> /\ batch'[c] = <<>> /\ queue'[c] = <<>>
          /\ from'[c] = sent /\ sent' = sent /\ sent \in Nat /\ LastFor(c)' = sent
      BY SeqsOfNat DEF Register, LastFor, LockFree, TypeOK
    <2>2. Len(Numbers(sent, sent)) = 0 /\ Numbers(sent, sent) \in Seq(Nat)
      BY <2>1, NumbersSeq
    <2>3. Numbers(sent, sent) = <<>>
      BY <2>2, EmptySeq
    <2>4. Whole(c)' = <<>>
      BY <2>1 DEF Whole
    <2>5. IsPrefixOf(<<>>, Numbers(sent, sent))
      BY <2>3 DEF IsPrefixOf
    <2> QED BY <1>2, <2>1, <2>3, <2>4, <2>5 DEF Progress
  <1> QED BY <1>1, <1>2

(* Draining: what was queued is now the batch, which was empty.            *)
LEMMA DrainInOrder ==
  ASSUME TypeOK, TypeOK', InOrder, NEW c \in Browsers, Drain(c),
         pc[c] \in {"test", "asleep"}
  PROVE  InOrder'
  <1> SUFFICES ASSUME NEW d \in clients PROVE Progress(d)'
    BY DEF InOrder, Drain, Take, shared
  <1>1. d \in Browsers /\ Progress(d)
    BY DEF TypeOK, InOrder
  <1>2. CASE d # c
    BY <1>1, <1>2, Frame, SeqsOfNat DEF Drain, Take, shared, LastFor, Leaving, TypeOK
  <1>3. CASE d = c
    <2>1. /\ got[c] \in Seq(Nat) /\ queue[c] \in Seq(Nat) /\ batch[c] = <<>>
          /\ got' = got /\ batch'[c] = queue[c] /\ queue'[c] = <<>>
      BY SeqsOfNat DEF TypeOK, Drain, Take
    <2>2. got[c] \o queue[c] \in Seq(Nat)
      BY <2>1, ConcatProperties
    <2>3. Whole(c)' = Whole(c)
      BY <2>1, <2>2, ConcatEmptySeq DEF Whole
    <2> QED BY <1>1, <1>3, <2>3, Moved DEF Drain, Take, shared, LastFor, Leaving
  <1> QED BY <1>2, <1>3

LEMMA SendInOrder ==
  ASSUME TypeOK, TypeOK', InOrder, NEW c \in Browsers, SendFrame(c)
  PROVE  InOrder'
  <1> SUFFICES ASSUME NEW d \in clients PROVE Progress(d)'
    BY DEF InOrder, SendFrame, shared
  <1>1. d \in Browsers /\ Progress(d)
    BY DEF TypeOK, InOrder
  <1>2. CASE d # c
    <2>1. /\ got'[d] = got[d] /\ batch'[d] = batch[d] /\ queue'[d] = queue[d]
          /\ from'[d] = from[d] /\ pending' = pending /\ sent' = sent
          /\ alive' = alive /\ pc'[d] = pc[d]
      BY <1>1, <1>2 DEF SendFrame, shared, TypeOK
    <2> QED BY <1>1, <2>1, Frame, SeqsOfNat DEF LastFor, Leaving
  <1>3. CASE d = c
    <2>1. /\ got[c] \in Seq(Nat) /\ batch[c] \in Seq(Nat) /\ queue[c] \in Seq(Nat)
          /\ batch[c] # <<>> /\ got'[c] = Append(got[c], Head(batch[c]))
          /\ batch'[c] = Tail(batch[c]) /\ queue' = queue
      BY SeqsOfNat DEF TypeOK, SendFrame
    <2>2. Whole(c)' = Whole(c)
      <3>1. Whole(c)' = Append(got[c], Head(batch[c])) \o Tail(batch[c]) \o queue[c]
        BY <2>1 DEF Whole
      <3>2. Append(got[c], Head(batch[c])) \o Tail(batch[c]) \o queue[c]
              = got[c] \o batch[c] \o queue[c]
        BY <2>1, SendKeeps
      <3>3. Whole(c) = got[c] \o batch[c] \o queue[c]
        BY DEF Whole
      <3> QED BY <3>1, <3>2, <3>3
    <2> QED BY <1>1, <1>3, <2>2, Moved DEF SendFrame, shared, LastFor, Leaving
  <1> QED BY <1>2, <1>3

LEMMA FailInOrder ==
  ASSUME TypeOK, TypeOK', InOrder, NEW c \in Browsers, SendFails(c)
  PROVE  InOrder'
  <1> SUFFICES ASSUME NEW d \in clients PROVE Progress(d)'
    BY DEF InOrder, SendFails, shared
  <1>1. d \in Browsers /\ Progress(d)
    BY DEF TypeOK, InOrder
  <1>2. CASE d # c
    <2>1. /\ got'[d] = got[d] /\ batch'[d] = batch[d] /\ queue'[d] = queue[d]
          /\ from'[d] = from[d] /\ pending' = pending /\ sent' = sent
          /\ alive' = alive /\ pc'[d] = pc[d]
      BY <1>1, <1>2 DEF SendFails, shared, TypeOK
    <2> QED BY <1>1, <2>1, Frame, SeqsOfNat DEF LastFor, Leaving
  <1>3. CASE d = c
    BY <1>1, <1>3 DEF Progress, SendFails, shared, LastFor, Leaving, TypeOK
  <1> QED BY <1>2, <1>3

(* The other steps of a thread leave its messages where they are.          *)
LEMMA QuietInOrder ==
  ASSUME TypeOK, TypeOK', InOrder, NEW c \in Browsers, clients' \subseteq clients,
         UNCHANGED <<pending, sent, queue, batch, got, from>>,
         \A d \in clients' : alive'[d] => alive[d],
         \A d \in clients' : Leaving(d) => Leaving(d)'
  PROVE  InOrder'
  <1> SUFFICES ASSUME NEW d \in clients' PROVE Progress(d)'
    BY DEF InOrder
  <1>1. d \in Browsers /\ Progress(d)
    BY DEF TypeOK, InOrder
  <1> QED BY <1>1, Frame, SeqsOfNat DEF LastFor

LEMMA InOrderStep ==
  ASSUME TypeOK, TypeOK', Placed, InOrder, [Next]_vars
  PROVE  InOrder'
  <1>1. CASE Broadcast
    <2> SUFFICES ASSUME NEW d \in clients PROVE Progress(d)'
      BY <1>1 DEF InOrder, Broadcast
    <2>1. d \in Browsers /\ Progress(d) /\ sent \in Nat
      BY SeqsOfNat DEF TypeOK, InOrder
    <2>2. LastFor(d)' = LastFor(d) /\ sent <= sent'
      BY <1>1, <2>1 DEF LastFor, Broadcast, LockFree
    <2> QED BY <1>1, <2>1, <2>2, Frame DEF Broadcast, own, Leaving
  <1>2. CASE StopBegins \/ StopWakes
    <2> SUFFICES ASSUME NEW d \in clients PROVE Progress(d)'
      BY <1>2 DEF InOrder, StopBegins, StopWakes
    <2>1. d \in Browsers /\ Progress(d)
      BY DEF TypeOK, InOrder
    <2>2. /\ UNCHANGED <<pending, sent, queue, batch, got, from, pc>>
          /\ alive'[d] => alive[d]
      BY <1>2, <2>1 DEF StopBegins, StopWakes, own, TypeOK
    <2> QED BY <2>1, <2>2, Frame, SeqsOfNat DEF LastFor, Leaving
  <1>3. ASSUME NEW c \in Browsers, Push(c) PROVE InOrder'
    BY <1>3, PushInOrder
  <1>4. ASSUME NEW c \in Browsers, Accept(c) PROVE InOrder'
    <2>1. c \notin clients
      BY <1>4 DEF Placed, Accept
    <2>2. \A d \in clients' : Leaving(d) => Leaving(d)'
      BY <1>4, <2>1 DEF Accept, shared, Leaving, TypeOK
    <2> QED BY <1>4, <2>2, QuietInOrder DEF Accept, shared
  <1>5. ASSUME NEW c \in Browsers, Register(c) PROVE InOrder'
    BY <1>5, RegisterInOrder
  <1>6. ASSUME NEW c \in Browsers, NEW p \in Pcs, Stay(c, p), ~Leaving(c)
        PROVE  InOrder'
    <2>1. \A d \in clients' : Leaving(d) => Leaving(d)'
      BY <1>6 DEF Stay, shared, Leaving, TypeOK
    <2> QED BY <1>6, <2>1, QuietInOrder DEF Stay, shared
  <1>7. ASSUME NEW c \in Browsers,
               LoopTest(c) \/ Sleep(c) \/ Wake(c) \/ SendHeartbeat(c)
        PROVE  InOrder'
    BY <1>6, <1>7 DEF LoopTest, Sleep, Wake, SendHeartbeat, Leaving, Pcs
  <1>8. ASSUME NEW c \in Browsers, WaitTest(c) \/ Timeout(c) PROVE InOrder'
    BY <1>6, <1>8, DrainInOrder DEF WaitTest, Timeout, Leaving, Pcs
  <1>9. ASSUME NEW c \in Browsers, SendFrame(c) \/ SendFails(c) PROVE InOrder'
    BY <1>9, SendInOrder, FailInOrder
  <1>10. ASSUME NEW c \in Browsers, Leave(c) PROVE InOrder'
    <2>1. \A d \in clients' : /\ Leaving(d) => Leaving(d)'
                              /\ alive'[d] => alive[d]
      BY <1>10 DEF Leave, shared, Leaving, TypeOK
    <2> QED BY <1>10, <2>1, QuietInOrder DEF Leave, shared
  <1>11. ASSUME NEW c \in Browsers, Unregister(c) PROVE InOrder'
    <2>1. /\ clients' \subseteq clients
          /\ \A d \in clients' : Leaving(d) => Leaving(d)'
      BY <1>11 DEF Unregister, Leaving, TypeOK
    <2> QED BY <1>11, <2>1, QuietInOrder DEF Unregister
  <1>12. CASE UNCHANGED vars
    BY <1>12 DEF InOrder, Progress, LastFor, Whole, Leaving, vars, shared, own
  <1> QED
    BY <1>1, <1>2, <1>3, <1>4, <1>5, <1>7, <1>8, <1>9, <1>10, <1>11, <1>12
       DEF Next, Step, Send
-----------------------------------------------------------------------------
LEMMA IInvInit == Init => IInv
  <1> SUFFICES ASSUME Init PROVE IInv
    OBVIOUS
  <1>1. <<>> \in Seq(Messages)
    BY EmptySeq
  <1>2. TypeOK
    BY <1>1, BoundsAssumption DEF Init, TypeOK, Pcs, Messages
  <1> QED BY <1>2 DEF Init, IInv, Placed, Awake, InOrder

LEMMA IInvStep == IInv /\ [Next]_vars => IInv'
  <1> SUFFICES ASSUME IInv, [Next]_vars PROVE IInv'
    OBVIOUS
  <1>1. TypeOK'
    BY TypeStep DEF IInv, InOrder, Progress
  <1> QED BY <1>1, PlacedStep, AwakeStep, InOrderStep DEF IInv

LEMMA Invariant == Spec => []IInv
  BY IInvInit, IInvStep, PTL DEF Spec

(* Every variable keeps its type, and a thread is at the send loop exactly *)
(* with something to send.                                                 *)
THEOREM BroadcastTyped == Spec => []TypeOK
  BY Invariant, PTL DEF IInv

(* No SSE thread sleeps on a message without a notification pending,       *)
(* although alive is read and sseClients_ is walked without its mutex.     *)
THEOREM NoMessageSleeps == Spec => []NeverSleepsOnMessage
  <1>1. IInv => NeverSleepsOnMessage
    BY DEF IInv, TypeOK, Awake, NeverSleepsOnMessage
  <1> QED BY <1>1, Invariant, PTL

(* A live client has every message since it joined, each once and in       *)
(* order: written, being written or queued; and what any client was        *)
(* written is a gapless prefix of that.                                    *)
THEOREM OrderIsKept == Spec => []InOrderNoGap
  <1>1. IInv => InOrderNoGap
    <2> SUFFICES ASSUME IInv, NEW c \in clients
                 PROVE  /\ IsPrefixOf(got[c], Numbers(from[c], sent))
                        /\ alive[c] /\ pc[c] # "leave" =>
                             Whole(c) = Numbers(from[c], LastFor(c))
      BY DEF InOrderNoGap, Whole, LastFor
    <2> QED BY DEF IInv, InOrder, Progress, Placed, Leaving, TypeOK
  <1> QED BY <1>1, Invariant, PTL
=============================================================================
