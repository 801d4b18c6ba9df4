------------------------ MODULE ChannelControllerProofs ------------------------
(***************************************************************************)
(* Safety of ChannelController for every finite set of messages and every   *)
(* capacity of the queue: its types, the order of the messages, what        *)
(* stop() drains and shuts out, and that ChannelPromise is kept.            *)
(***************************************************************************)
EXTENDS ChannelController, TLAPS

\* The types, in two groups.
Marks ==
    /\ connected \in BOOLEAN /\ accepting \in BOOLEAN
    /\ updating \subseteq Messages
    /\ callback \in [Messages -> {"none", "converting", "parked", "queued",
                                  "dropped"}]
    /\ woken \subseteq Items
    /\ worker \in Messages \cup {Idle, Ended}
    /\ outlived \subseteq Messages
    /\ stopping \in {"no", "transport", "putting", "joining", "done"}
    /\ atStop \in [queued : SUBSET Messages, parked : SUBSET Messages,
                   converting : SUBSET Messages]

Lines ==
    /\ queue \in Seq(Items) /\ Len(queue) <= Capacity
    /\ putters \in Seq(Items)
    /\ handled \in Seq(Messages) /\ arrived \in Seq(Messages)

\* The update loop runs the callback of the newest message; a callback under way
\* that it does not run has outlived its connection.
Dispatched ==
    /\ \A m \in updating :
          /\ callback[m] \in {"converting", "parked"}
          /\ arrived # <<>> /\ arrived[Len(arrived)] = m
    /\ \A m \in Messages \ outlived :
          callback[m] \in {"converting", "parked"} => m \in updating
    /\ \A m \in Messages :
          callback[m] # "none" <=> \E k \in DOMAIN arrived : arrived[k] = m
    /\ \A k, l \in DOMAIN arrived : arrived[k] = arrived[l] => k = l

\* Each put that waits is parked or woken, and only once.
Waiting ==
    /\ \A i, j \in DOMAIN putters : putters[i] = putters[j] => i = j
    /\ \A i \in DOMAIN putters : putters[i] \notin woken
    /\ \A m \in Messages :
          m \in woken \/ (\E i \in DOMAIN putters : putters[i] = m)
              => callback[m] = "parked"

\* The callback of a message that is in the queue or beyond is over.
Passed ==
    /\ \A i \in DOMAIN queue : queue[i] # Sentinel => callback[queue[i]] = "queued"
    /\ \A i \in DOMAIN handled : callback[handled[i]] = "queued"

Regular(x) == x \in Messages \ outlived

\* What was handled and what is queued is in the order of arrival.
Ordered ==
    /\ \A i, j \in DOMAIN handled :
          i < j /\ Regular(handled[i]) /\ Regular(handled[j])
              => Before(handled[i], handled[j])
    /\ \A i \in DOMAIN handled, j \in DOMAIN queue :
          Regular(handled[i]) /\ Regular(queue[j]) => Before(handled[i], queue[j])
    /\ \A i, j \in DOMAIN queue :
          i < j /\ Regular(queue[i]) /\ Regular(queue[j])
              => Before(queue[i], queue[j])

\* Where the sentinel may be, and what stop() found.
Stopping ==
    /\ accepting <=> stopping \in {"no", "transport"}
    /\ Sentinel \in woken => stopping = "putting"
    /\ \A i \in DOMAIN putters : putters[i] = Sentinel => stopping = "putting"
    /\ \A i \in DOMAIN queue : queue[i] = Sentinel => stopping = "joining"
    /\ worker = Ended => stopping \in {"joining", "done"}
    /\ stopping = "done" => worker = Ended
    /\ accepting => atStop.converting = {}
    /\ ~accepting =>
          /\ \A m \in Messages : callback[m] = "parked" => m \in atStop.parked
          /\ \A m \in atStop.converting : callback[m] \in {"converting", "dropped"}

Given(m) == \E i \in DOMAIN handled : handled[i] = m

\* After stop() was called the queue holds, before the sentinel, what it held
\* then, and behind the sentinel only what was parked then.
Draining ==
    ~accepting =>
        /\ \A m \in atStop.queued :
              \/ Given(m)
              \/ \E i \in DOMAIN queue :
                    /\ queue[i] = m
                    /\ \A j \in DOMAIN queue : queue[j] = Sentinel => i < j
        /\ \A i, j \in DOMAIN queue :
              i < j /\ queue[i] = Sentinel => queue[j] \in atStop.parked
        /\ worker = Ended =>
              /\ \A m \in atStop.queued : Given(m)
              /\ \A i \in DOMAIN queue : queue[i] \in atStop.parked

IInv ==
    Marks /\ Lines /\ Dispatched /\ Waiting /\ Passed /\ Ordered /\ Stopping /\ Draining

-----------------------------------------------------------------------------
\* t is s with x behind it.
Extends(t, s, x) ==
    /\ Len(s) \in Nat
    /\ DOMAIN t = DOMAIN s \cup {Len(s) + 1}
    /\ \A i \in DOMAIN s : i \in Nat /\ i <= Len(s) /\ t[i] = s[i]
    /\ t[Len(s) + 1] = x

\* t is s without its first element.
Follows(t, s) ==
    /\ 1 \in DOMAIN s
    /\ \A i \in DOMAIN t : /\ i \in Nat /\ i >= 1
                           /\ i + 1 \in DOMAIN s /\ t[i] = s[i + 1]
    /\ \A i \in DOMAIN s : /\ i \in Nat /\ i >= 1
                           /\ i # 1 => i - 1 \in DOMAIN t /\ t[i - 1] = s[i]

\* An item appended to a sequence is its last; the others keep their positions.
LEMMA AppendShape ==
    ASSUME NEW S, NEW s \in Seq(S), NEW x \in S
    PROVE  /\ Append(s, x) \in Seq(S) /\ Len(Append(s, x)) = Len(s) + 1
           /\ Extends(Append(s, x), s, x)
<1>. DEFINE t == Append(s, x)
<1>1. t \in Seq(S) /\ Len(t) = Len(s) + 1 /\ Len(s) \in Nat
  OBVIOUS
<1>2. DOMAIN s = 1..Len(s) /\ DOMAIN t = 1..Len(t)
  BY <1>1
<1>3. \A i \in 1..Len(s) : t[i] = s[i]
  OBVIOUS
<1>4. t[Len(s) + 1] = x
  OBVIOUS
<1>. HIDE DEF t
<1>. QED
  BY <1>1, <1>2, <1>3, <1>4 DEF Extends, t

\* Without its head a sequence has every other item, one position earlier.
LEMMA TailShape ==
    ASSUME NEW S, NEW s \in Seq(S), s # <<>>
    PROVE  /\ Tail(s) \in Seq(S) /\ Len(Tail(s)) = Len(s) - 1
           /\ Head(s) = s[1] /\ s[1] \in S
           /\ Follows(Tail(s), s)
<1>. DEFINE t == Tail(s)
<1>1. t \in Seq(S) /\ Len(t) = Len(s) - 1 /\ Len(s) \in Nat /\ Len(s) >= 1
  OBVIOUS
<1>2. DOMAIN s = 1..Len(s) /\ DOMAIN t = 1..Len(t)
  BY <1>1
<1>3. \A i \in 1..Len(t) : t[i] = s[i + 1]
  OBVIOUS
<1>4. Head(s) = s[1] /\ s[1] \in S
  BY <1>1, <1>2
<1>. HIDE DEF t
<1>5. \A i \in DOMAIN s : i # 1 => /\ i - 1 \in 1..Len(t)
                                   /\ t[i - 1] = s[(i - 1) + 1]
                                   /\ (i - 1) + 1 = i
  BY <1>1, <1>2, <1>3
<1>. QED
  BY <1>1, <1>2, <1>3, <1>4, <1>5 DEF Follows, t

\* What a put does to the queue or to the puts that wait.
LEMMA PutShape ==
    ASSUME Lines, NEW x \in Items
    PROVE  /\ Enqueue(x) => /\ queue' \in Seq(Items) /\ Len(queue') = Len(queue) + 1
                            /\ Extends(queue', queue, x)
           /\ Park(x) => putters' \in Seq(Items) /\ Extends(putters', putters, x)
  BY AppendShape DEF Lines, Enqueue, Park

\* What a get does to the queue, the puts that wait and the messages handled.
LEMMA GetShape ==
    ASSUME Lines, WorkerGets
    PROVE  /\ queue' \in Seq(Items) /\ Len(queue') = Len(queue) - 1
           /\ Follows(queue', queue) /\ queue[1] \in Items
           /\ putters' \in Seq(Items)
           /\ \/ UNCHANGED <<putters, woken>>
              \/ /\ woken' = woken \cup {putters[1]} /\ putters[1] \in Items
                 /\ Follows(putters', putters)
           /\ \/ queue[1] = Sentinel /\ worker' = Ended /\ UNCHANGED handled
              \/ /\ queue[1] # Sentinel /\ worker' = queue[1]
                 /\ handled' \in Seq(Messages) /\ Extends(handled', handled, queue[1])
<1>1. /\ queue' \in Seq(Items) /\ Len(queue') = Len(queue) - 1
      /\ Follows(queue', queue) /\ Head(queue) = queue[1] /\ queue[1] \in Items
  BY TailShape DEF Lines, WorkerGets, Dequeue
<1>2. putters # <<>> => /\ Tail(putters) \in Seq(Items) /\ Head(putters) = putters[1]
                        /\ putters[1] \in Items /\ Follows(Tail(putters), putters)
  BY TailShape DEF Lines
<1>3. /\ putters' \in Seq(Items)
      /\ \/ UNCHANGED <<putters, woken>>
         \/ /\ woken' = woken \cup {putters[1]} /\ putters[1] \in Items
            /\ Follows(putters', putters)
  BY <1>2 DEF Lines, WorkerGets, Dequeue
<1>4. CASE queue[1] = Sentinel
  BY <1>1, <1>3, <1>4 DEF WorkerGets
<1>5. CASE queue[1] # Sentinel
  <2>1. queue[1] \in Messages /\ worker' = queue[1] /\ handled' = Append(handled, queue[1])
    BY <1>1, <1>5 DEF WorkerGets, Items
  <2>2. handled' \in Seq(Messages) /\ Extends(handled', handled, queue[1])
    BY <2>1, AppendShape DEF Lines
  <2>. QED
    BY <1>1, <1>3, <1>5, <2>1, <2>2
<1>. QED
  BY <1>4, <1>5

\* Taking out one position keeps the others in their order.
LEMMA RemoveAtProperties ==
    ASSUME NEW S, NEW s \in Seq(S), NEW k \in DOMAIN s
    PROVE  /\ RemoveAt(s, k) \in Seq(S)
           /\ Len(RemoveAt(s, k)) = Len(s) - 1
           /\ \A i \in 1..Len(s) - 1 :
                 RemoveAt(s, k)[i] = IF i < k THEN s[i] ELSE s[i + 1]
<1>1. k \in 1..Len(s) /\ Len(s) \in Nat
  OBVIOUS
<1>2. SubSeq(s, 1, k - 1) \in Seq(S) /\ SubSeq(s, k + 1, Len(s)) \in Seq(S)
  BY <1>1
<1>3. /\ Len(SubSeq(s, 1, k - 1)) = k - 1
      /\ Len(SubSeq(s, k + 1, Len(s))) = Len(s) - k
  BY <1>1
<1>. QED
  <2>. DEFINE a == SubSeq(s, 1, k - 1)
              b == SubSeq(s, k + 1, Len(s))
  <2>1. a \in Seq(S) /\ b \in Seq(S) /\ Len(a) = k - 1 /\ Len(b) = Len(s) - k
    BY <1>2, <1>3
  <2>2. /\ \A i \in 1..k - 1 : a[i] = s[i]
        /\ \A i \in 1..Len(s) - k : b[i] = s[i + k]
    BY <1>1
  <2>3. RemoveAt(s, k) = a \o b
    BY DEF RemoveAt
  <2>. HIDE DEF a, b
  <2>4. Len(a \o b) = Len(s) - 1 /\ a \o b \in Seq(S)
    BY <1>1, <2>1
  <2>5. ASSUME NEW i \in 1..Len(s) - 1 PROVE (a \o b)[i] = IF i < k THEN s[i] ELSE s[i + 1]
    BY <1>1, <2>1, <2>2
  <2>. QED
    BY <2>3, <2>4, <2>5

\* The puts that remain when those of M are taken out.
LEMMA WithoutProperties ==
    ASSUME Lines, Waiting, Dispatched
    PROVE  LET others == Without(updating)
           IN  /\ others \in Seq(Items)
               /\ \A i \in DOMAIN others : \E j \in DOMAIN putters :
                     others[i] = putters[j] /\ putters[j] \notin updating
               /\ \A i, j \in DOMAIN others : others[i] = others[j] => i = j
<1>. DEFINE others == Without(updating)
<1>0. putters \in Seq(Items)
  BY DEF Lines
<1>1. CASE \E k \in DOMAIN putters : putters[k] \in updating
  <2>1. PICK k \in DOMAIN putters :
           putters[k] \in updating /\ others = RemoveAt(putters, k)
    BY <1>1 DEF Without
  <2>2. /\ others \in Seq(Items)
        /\ Len(others) = Len(putters) - 1
        /\ \A i \in 1..Len(putters) - 1 :
              others[i] = IF i < k THEN putters[i] ELSE putters[i + 1]
    BY <1>0, <2>1, RemoveAtProperties
  <2>3. \A j \in DOMAIN putters : putters[j] \in updating => j = k
    BY <2>1 DEF Dispatched, Waiting
  <2>4. DOMAIN others = 1..Len(putters) - 1 /\ DOMAIN putters = 1..Len(putters)
        /\ Len(putters) \in Nat
    BY <1>0, <2>2
  <2>5. ASSUME NEW i \in DOMAIN others
        PROVE  \E j \in DOMAIN putters :
                  others[i] = putters[j] /\ j # k /\ j = IF i < k THEN i ELSE i + 1
    BY <2>2, <2>4
  <2>6. \A i, j \in DOMAIN others : others[i] = others[j] => i = j
    BY <2>4, <2>5 DEF Waiting
  <2>. QED
    BY <2>2, <2>3, <2>5, <2>6
<1>2. CASE ~\E k \in DOMAIN putters : putters[k] \in updating
  BY <1>0, <1>2 DEF Without, Waiting
<1>. QED
  BY <1>1, <1>2

\* After puts were cancelled the others still wait, each once.
LEMMA CancelPutsProperties ==
    ASSUME Marks, Lines, Waiting, Dispatched, CancelPuts(updating)
    PROVE  /\ putters' \in Seq(Items) /\ woken' \subseteq Items
           /\ \A i, j \in DOMAIN putters' : putters'[i] = putters'[j] => i = j
           /\ \A i \in DOMAIN putters' : putters'[i] \notin woken'
           /\ \A i \in DOMAIN putters' : \E j \in DOMAIN putters :
                 putters'[i] = putters[j] /\ putters[j] \notin updating
           /\ \A x \in woken' :
                 x \notin updating /\ (x \in woken \/ \E j \in DOMAIN putters : putters[j] = x)
<1>. DEFINE others == Without(updating)
<1>1. /\ others \in Seq(Items)
      /\ \A i \in DOMAIN others : \E j \in DOMAIN putters :
            others[i] = putters[j] /\ putters[j] \notin updating
      /\ \A i, j \in DOMAIN others : others[i] = others[j] => i = j
  BY WithoutProperties
<1>2. woken \subseteq Items
  BY DEF Marks
<1>3. \A i \in DOMAIN others : others[i] \notin woken
  BY <1>1 DEF Waiting
<1>4. CASE putters' = others /\ woken' = woken \ updating
  BY <1>1, <1>2, <1>3, <1>4
<1>5. CASE /\ others # <<>>
           /\ putters' = Tail(others) /\ woken' = (woken \ updating) \cup {Head(others)}
  <2>. HIDE DEF others
  <2>1. /\ putters' \in Seq(Items) /\ Head(others) = others[1] /\ 1 \in DOMAIN others
        /\ \A i \in DOMAIN putters' : /\ i + 1 \in DOMAIN others
                                      /\ putters'[i] = others[i + 1]
                                      /\ i \in Nat /\ i # 0
    BY <1>1, <1>5
  <2>2. others[1] \in Items
    BY <1>1, <2>1
  <2>3. \A i, j \in DOMAIN putters' : putters'[i] = putters'[j] => i = j
    BY <1>1, <2>1
  <2>4. \A i \in DOMAIN putters' : putters'[i] \notin woken'
    BY <1>1, <1>3, <1>5, <2>1
  <2>5. \A i \in DOMAIN putters' : \E j \in DOMAIN putters :
                 putters'[i] = putters[j] /\ putters[j] \notin updating
    BY <1>1, <2>1
  <2>. QED
    BY <1>1, <1>2, <1>5, <2>1, <2>2, <2>3, <2>4, <2>5
<1>. QED
  BY <1>4, <1>5 DEF CancelPuts

\* Parking a put keeps the puts that wait apart.
LEMMA WaitingPark ==
    ASSUME NEW x, Waiting, Extends(putters', putters, x),
           woken' \subseteq woken, x \notin woken',
           \A i \in DOMAIN putters : putters[i] # x,
           x \in Messages => callback'[x] = "parked",
           \A n \in Messages : n # x => callback'[n] = callback[n]
    PROVE  Waiting'
<1>1. \A i \in DOMAIN putters' :
         \/ i \in DOMAIN putters /\ putters'[i] = putters[i]
         \/ putters'[i] = x /\ i = Len(putters) + 1
  BY DEF Extends
<1>2. \A i, j \in DOMAIN putters' : putters'[i] = putters'[j] => i = j
  BY <1>1 DEF Waiting
<1>3. \A i \in DOMAIN putters' : putters'[i] \notin woken'
  BY <1>1 DEF Waiting
<1>4. ASSUME NEW n \in Messages,
             n \in woken' \/ \E i \in DOMAIN putters' : putters'[i] = n
      PROVE  callback'[n] = "parked"
  <2>1. n = x \/ n \in woken \/ \E i \in DOMAIN putters : putters[i] = n
    BY <1>1, <1>4
  <2>. QED
    BY <2>1 DEF Waiting
<1>. QED
  BY <1>2, <1>3, <1>4 DEF Waiting

\* The message of a callback under way came after all that are queued or handled.
LEMMA NewestIsLast ==
    ASSUME IInv, NEW m \in Messages, Regular(m), callback[m] \in {"converting", "parked"},
           NEW x, Regular(x), callback[x] = "queued"
    PROVE  Before(x, m)
<1>1. m \in updating /\ x \in Messages
  BY DEF IInv, Dispatched, Regular
<1>2. arrived # <<>> /\ arrived[Len(arrived)] = m
  BY <1>1 DEF IInv, Dispatched
<1>3. PICK k \in DOMAIN arrived : arrived[k] = x
  BY <1>1 DEF IInv, Dispatched
<1>4. DOMAIN arrived = 1..Len(arrived) /\ Len(arrived) \in Nat /\ Len(arrived) \in DOMAIN arrived
  BY <1>2 DEF IInv, Lines
<1>5. k # Len(arrived)
  BY <1>2, <1>3
<1>6. k < Len(arrived)
  BY <1>4, <1>5
<1>. QED
  BY <1>2, <1>3, <1>4, <1>6 DEF Before

\* An item that comes after all others may join the queue.
LEMMA OrderedPut ==
    ASSUME NEW x, Ordered, Extends(queue', queue, x),
           UNCHANGED <<handled, arrived, outlived>>,
           Regular(x) =>
              /\ \A i \in DOMAIN handled : Regular(handled[i]) => Before(handled[i], x)
              /\ \A i \in DOMAIN queue : Regular(queue[i]) => Before(queue[i], x)
    PROVE  Ordered'
<1>1. \A u, v : Before(u, v)' <=> Before(u, v)
  BY DEF Before
<1>2. \A u : Regular(u)' <=> Regular(u)
  BY DEF Regular
<1>3. \A i \in DOMAIN queue' :
         \/ i \in DOMAIN queue /\ queue'[i] = queue[i]
         \/ queue'[i] = x /\ i = Len(queue) + 1
  BY DEF Extends
<1>4. \A i, j \in DOMAIN queue' : i < j => i \in DOMAIN queue
  BY DEF Extends
<1>5. \A i, j \in DOMAIN handled' :
         i < j /\ Regular(handled'[i]) /\ Regular(handled'[j])
            => Before(handled'[i], handled'[j])
  BY DEF Ordered
<1>6. \A i \in DOMAIN handled', j \in DOMAIN queue' :
         Regular(handled'[i]) /\ Regular(queue'[j]) => Before(handled'[i], queue'[j])
  BY <1>3 DEF Ordered
<1>7. ASSUME NEW i \in DOMAIN queue', NEW j \in DOMAIN queue',
             i < j, Regular(queue'[i]), Regular(queue'[j])
      PROVE  Before(queue'[i], queue'[j])
  <2>1. i \in DOMAIN queue /\ queue'[i] = queue[i]
    BY <1>4, <1>7 DEF Extends
  <2>2. CASE j \in DOMAIN queue /\ queue'[j] = queue[j]
    BY <1>7, <2>1, <2>2 DEF Ordered
  <2>3. CASE queue'[j] = x
    BY <1>7, <2>1, <2>3
  <2>. QED
    BY <1>3, <2>2, <2>3
<1>. QED
  BY <1>5, <1>6, <1>7 DEF Ordered, Before, Regular

\* What may join the queue after stop() was called: a put that was parked then, or
\* the sentinel, once.
LEMMA DrainingPut ==
    ASSUME NEW x, Draining, Extends(queue', queue, x),
           UNCHANGED <<accepting, handled, worker, atStop>>,
           ~accepting => \/ x # Sentinel /\ x \in atStop.parked
                         \/ /\ x = Sentinel /\ worker # Ended
                            /\ \A i \in DOMAIN queue : queue[i] # Sentinel
    PROVE  Draining'
<1>1. SUFFICES ASSUME ~accepting PROVE Draining'
  BY DEF Draining
<1>2. /\ Len(queue) + 1 \in DOMAIN queue' /\ queue'[Len(queue) + 1] = x
      /\ \A i \in DOMAIN queue : i \in DOMAIN queue' /\ queue'[i] = queue[i]
                                 /\ i < Len(queue) + 1
      /\ \A i \in DOMAIN queue' : i \in DOMAIN queue \/ i = Len(queue) + 1
      /\ ~(Len(queue) + 1 < Len(queue) + 1)
      /\ \A i \in DOMAIN queue : ~(Len(queue) + 1 < i)
  BY DEF Extends
<1>3. ASSUME NEW m \in atStop.queued, ~Given(m)
      PROVE  \E i \in DOMAIN queue' :
                queue'[i] = m /\ \A j \in DOMAIN queue' : queue'[j] = Sentinel => i < j
  <2>1. PICK i \in DOMAIN queue :
           queue[i] = m /\ \A j \in DOMAIN queue : queue[j] = Sentinel => i < j
    BY <1>1, <1>3 DEF Draining
  <2>2. \A j \in DOMAIN queue' : queue'[j] = Sentinel => i < j
    BY <1>2, <2>1
  <2>. QED
    BY <1>2, <2>1, <2>2
<1>4. \A i, j \in DOMAIN queue' :
         i < j /\ queue'[i] = Sentinel => queue'[j] \in atStop.parked
  BY <1>1, <1>2 DEF Draining
<1>5. worker = Ended => /\ \A m \in atStop.queued : Given(m)
                        /\ \A i \in DOMAIN queue' : queue'[i] \in atStop.parked
  BY <1>1, <1>2 DEF Draining
<1>. QED
  BY <1>1, <1>3, <1>4, <1>5 DEF Draining, Given

-----------------------------------------------------------------------------
(* The steps *)

\* The places of callbacks, worker and stop keep their types.
LEMMA MarksStep == IInv /\ [Next]_vars => Marks'
<1>. SUFFICES ASSUME IInv, [Next]_vars PROVE Marks'
  OBVIOUS
<1>1. ASSUME NEW m \in Messages, Arrive(m) PROVE Marks'
  BY <1>1 DEF Marks, IInv, Arrive, Free
<1>2. ASSUME NEW m \in Messages, ConvertFails(m) PROVE Marks'
  BY <1>2 DEF Marks, IInv, ConvertFails, At, history
<1>3. ASSUME NEW m \in Messages, Receive(m) PROVE Marks'
  BY <1>3 DEF Marks, IInv, Receive, At, history
<1>4. ASSUME NEW m \in Messages, ResumePut(m) PROVE Marks'
  <2>0. m \in Items
    BY DEF Items
  <2>1. CASE ~Full /\ Enqueue(m) /\ At(m, "queued") /\ UNCHANGED putters
    BY <1>4, <2>0, <2>1 DEF Marks, IInv, ResumePut, At, history
  <2>2. CASE Full /\ Park(m) /\ UNCHANGED <<queue, callback, updating>>
    BY <1>4, <2>0, <2>2 DEF Marks, IInv, ResumePut, history
  <2>. QED
    BY <1>4, <2>1, <2>2 DEF ResumePut
<1>5. CASE WorkerGets
  <2>1. CASE queue[1] = Sentinel
    BY <1>5, <2>1, GetShape DEF Marks, IInv, WorkerGets, transport, history
  <2>2. CASE queue[1] # Sentinel
    BY <1>5, <2>2, GetShape DEF Marks, IInv, WorkerGets, transport, history
  <2>. QED
    BY <2>1, <2>2
<1>6. CASE HandlerReturns
  BY <1>6 DEF Marks, IInv, HandlerReturns, transport, history
<1>7. CASE HandlerRaises
  BY <1>7 DEF Marks, IInv, HandlerRaises, AfterFailure, transport, history
<1>8. CASE ConnectionLost
  <2>1. CASE CallbackCancelled
    BY <1>8, <2>1, CancelPutsProperties
    DEF Marks, IInv, ConnectionLost, CallbackCancelled
  <2>2. CASE CallbackGoesOn
    BY <1>8, <2>2 DEF Marks, IInv, ConnectionLost, CallbackGoesOn
  <2>. QED
    BY <1>8, <2>1, <2>2 DEF ConnectionLost
<1>9. CASE Reconnected
  BY <1>9 DEF Marks, IInv, Reconnected, history
<1>10. CASE StopTransport
  BY <1>10, CancelPutsProperties
  DEF Marks, IInv, StopTransport, CallbackCancelled
<1>11. CASE StopChannel
  <2>1. \A i \in DOMAIN queue : queue[i] \in Items /\ queue[i] # Sentinel
    BY <1>11 DEF IInv, Lines, Stopping, StopChannel
  <2>2. ToSet(queue) \subseteq Messages
    BY <2>1 DEF ToSet, Items
  <2>3. In("parked") \subseteq Messages /\ In("converting") \subseteq Messages
    BY DEF In
  <2>4. atStop' \in [queued : SUBSET Messages, parked : SUBSET Messages,
                     converting : SUBSET Messages]
    BY <1>11, <2>2, <2>3 DEF StopChannel
  <2>5. stopping' \in {"putting", "joining"}
    BY <1>11 DEF StopChannel
  <2>. QED
    BY <1>11, <2>4, <2>5 DEF Marks, IInv, StopChannel, transport
<1>12. CASE ResumeSentinel
  BY <1>12 DEF Marks, IInv, ResumeSentinel, transport, history
<1>13. CASE Join
  BY <1>13 DEF Marks, IInv, Join, transport, history
<1>14. CASE UNCHANGED vars
  BY <1>14 DEF Marks, IInv, vars, transport, history
<1>. QED
  BY <1>1, <1>2, <1>3, <1>4, <1>5, <1>6, <1>7, <1>8, <1>9, <1>10, <1>11, <1>12,
     <1>13, <1>14
  DEF Next, CallbackStep, WorkerStep, StopChannelStep

\* The queue, the waiting puts and the messages handled keep theirs, and the queue
\* its bound: a put enters only when the queue is not full.
LEMMA LinesStep == IInv /\ [Next]_vars => Lines'
<1>. SUFFICES ASSUME IInv, [Next]_vars PROVE Lines'
  OBVIOUS
<1>1. ASSUME NEW m \in Messages, Arrive(m) PROVE Lines'
  BY <1>1 DEF Lines, IInv, Arrive, Free
<1>2. ASSUME NEW m \in Messages, ConvertFails(m) PROVE Lines'
  BY <1>2 DEF Lines, IInv, ConvertFails, history
<1>3. ASSUME NEW m \in Messages, Receive(m) PROVE Lines'
  <2>0. m \in Items
    BY DEF Items
  <2>1. CASE ~Accepts /\ At(m, "dropped") /\ UNCHANGED <<queue, putters>>
    BY <1>3, <2>0, <2>1 DEF Lines, IInv, Receive, history
  <2>2. CASE Accepts /\ ~Full /\ Enqueue(m) /\ At(m, "queued") /\ UNCHANGED putters
    BY <1>3, <2>0, <2>2, PutShape, ChannelAssumption
    DEF Lines, IInv, Receive, Full, history
  <2>3. CASE Accepts /\ Full /\ Park(m) /\ At(m, "parked") /\ UNCHANGED queue
    BY <1>3, <2>0, <2>3, PutShape DEF Lines, IInv, Receive, history
  <2>. QED
    BY <1>3, <2>1, <2>2, <2>3 DEF Receive
<1>4. ASSUME NEW m \in Messages, ResumePut(m) PROVE Lines'
  <2>0. m \in Items
    BY DEF Items
  <2>1. CASE ~Full /\ Enqueue(m) /\ At(m, "queued") /\ UNCHANGED putters
    BY <1>4, <2>0, <2>1, PutShape, ChannelAssumption
    DEF Lines, IInv, ResumePut, Full, history
  <2>2. CASE Full /\ Park(m) /\ UNCHANGED <<queue, callback, updating>>
    BY <1>4, <2>0, <2>2, PutShape DEF Lines, IInv, ResumePut, history
  <2>. QED
    BY <1>4, <2>1, <2>2 DEF ResumePut
<1>5. CASE WorkerGets
  <2>1. CASE queue[1] = Sentinel
    BY <1>5, <2>1, GetShape, ChannelAssumption
    DEF Lines, IInv, WorkerGets, history
  <2>2. CASE queue[1] # Sentinel
    BY <1>5, <2>2, GetShape, ChannelAssumption
    DEF Lines, IInv, WorkerGets, history
  <2>. QED
    BY <2>1, <2>2
<1>6. CASE HandlerReturns
  BY <1>6 DEF Lines, IInv, HandlerReturns, history
<1>7. CASE HandlerRaises
  BY <1>7 DEF Lines, IInv, HandlerRaises, history
<1>8. CASE ConnectionLost
  BY <1>8, CancelPutsProperties
  DEF Lines, IInv, ConnectionLost, CallbackCancelled, CallbackGoesOn
<1>9. CASE Reconnected
  BY <1>9 DEF Lines, IInv, Reconnected, history
<1>10. CASE StopTransport
  BY <1>10, CancelPutsProperties
  DEF Lines, IInv, StopTransport, CallbackCancelled
<1>11. CASE StopChannel
  <2>0. Sentinel \in Items
    BY DEF Items
  <2>1. CASE ~Full /\ PutSentinel /\ stopping' = "joining" /\ UNCHANGED putters
    BY <1>11, <2>0, <2>1, PutShape, ChannelAssumption
    DEF Lines, IInv, StopChannel, Full, PutSentinel
  <2>2. CASE Full /\ Park(Sentinel) /\ stopping' = "putting" /\ UNCHANGED queue
    BY <1>11, <2>0, <2>2, PutShape DEF Lines, IInv, StopChannel, In, ToSet
  <2>. QED
    BY <1>11, <2>1, <2>2 DEF StopChannel
<1>12. CASE ResumeSentinel
  <2>0. Sentinel \in Items
    BY DEF Items
  <2>1. CASE ~Full /\ PutSentinel /\ stopping' = "joining" /\ UNCHANGED putters
    BY <1>12, <2>0, <2>1, PutShape, ChannelAssumption
    DEF Lines, IInv, ResumeSentinel, Full, PutSentinel, history
  <2>2. CASE Full /\ Park(Sentinel) /\ UNCHANGED <<queue, stopping>>
    BY <1>12, <2>0, <2>2, PutShape DEF Lines, IInv, ResumeSentinel, history
  <2>. QED
    BY <1>12, <2>1, <2>2 DEF ResumeSentinel
<1>13. CASE Join
  BY <1>13 DEF Lines, IInv, Join, history
<1>14. CASE UNCHANGED vars
  BY <1>14 DEF Lines, IInv, vars, history
<1>. QED
  BY <1>1, <1>2, <1>3, <1>4, <1>5, <1>6, <1>7, <1>8, <1>9, <1>10, <1>11, <1>12,
     <1>13, <1>14
  DEF Next, CallbackStep, WorkerStep, StopChannelStep

\* The update loop runs one callback at a time, that of the newest arrival.
LEMMA DispatchedStep == IInv /\ [Next]_vars => Dispatched'
<1>. SUFFICES ASSUME IInv, [Next]_vars PROVE Dispatched'
  OBVIOUS
<1>1. ASSUME NEW m \in Messages, Arrive(m) PROVE Dispatched'
  <2>1. /\ arrived \in Seq(Messages) /\ arrived' = Append(arrived, m)
        /\ callback \in [Messages -> {"none", "converting", "parked", "queued", "dropped"}]
        /\ outlived' = outlived
    BY <1>1 DEF IInv, Lines, Marks, Arrive
  <2>2. /\ arrived' \in Seq(Messages) /\ Len(arrived') = Len(arrived) + 1
        /\ Extends(arrived', arrived, m)
    BY <2>1, AppendShape
  <2>3. /\ updating = {} /\ updating' = {m} /\ callback[m] = "none"
        /\ callback'[m] = "converting"
        /\ \A n \in Messages : n # m => callback'[n] = callback[n]
    BY <1>1, <2>1 DEF Arrive, Free
  <2>4. \A k \in DOMAIN arrived : arrived[k] # m
    BY <2>3 DEF IInv, Dispatched
  <2>5. \A k \in DOMAIN arrived' :
           \/ k \in DOMAIN arrived /\ arrived'[k] = arrived[k]
           \/ k = Len(arrived) + 1 /\ arrived'[k] = m
    BY <2>2 DEF Extends
  <2>6. /\ Len(arrived') \in DOMAIN arrived' /\ arrived'[Len(arrived')] = m
        /\ \A k \in DOMAIN arrived : k \in DOMAIN arrived' /\ arrived'[k] = arrived[k]
    BY <2>2 DEF Extends
  <2>7. \A n \in updating' :
           /\ callback'[n] \in {"converting", "parked"}
           /\ arrived' # <<>> /\ arrived'[Len(arrived')] = n
    BY <2>2, <2>3, <2>6
  <2>8. \A n \in Messages \ outlived' :
           callback'[n] \in {"converting", "parked"} => n \in updating'
    BY <2>1, <2>3 DEF IInv, Dispatched
  <2>9. ASSUME NEW n \in Messages
        PROVE  callback'[n] # "none" <=> \E k \in DOMAIN arrived' : arrived'[k] = n
    <3>1. CASE n = m
      BY <2>3, <2>6, <3>1
    <3>2. CASE n # m
      BY <2>3, <2>5, <2>6, <3>2 DEF IInv, Dispatched
    <3>. QED
      BY <3>1, <3>2
  <2>10. \A k, l \in DOMAIN arrived' : arrived'[k] = arrived'[l] => k = l
    BY <2>4, <2>5 DEF IInv, Dispatched
  <2>. QED
    BY <2>7, <2>8, <2>9, <2>10 DEF Dispatched
<1>2. ASSUME NEW m \in Messages, ConvertFails(m) PROVE Dispatched'
  BY <1>2 DEF Dispatched, IInv, ConvertFails, At, history, Marks
<1>3. ASSUME NEW m \in Messages, Receive(m) PROVE Dispatched'
  <2>0. m \in Items
    BY DEF Items
  <2>1. CASE ~Accepts /\ At(m, "dropped") /\ UNCHANGED <<queue, putters>>
    BY <1>3, <2>0, <2>1 DEF Dispatched, IInv, Receive, At, history, Marks
  <2>2. CASE Accepts /\ ~Full /\ Enqueue(m) /\ At(m, "queued") /\ UNCHANGED putters
    BY <1>3, <2>0, <2>2 DEF Dispatched, IInv, Receive, At, history, Marks
  <2>3. CASE Accepts /\ Full /\ Park(m) /\ At(m, "parked") /\ UNCHANGED queue
    BY <1>3, <2>0, <2>3 DEF Dispatched, IInv, Receive, At, history
  <2>. QED
    BY <1>3, <2>1, <2>2, <2>3 DEF Receive
<1>4. ASSUME NEW m \in Messages, ResumePut(m) PROVE Dispatched'
  BY <1>4 DEF Dispatched, IInv, ResumePut, At, history, Marks, Waiting
<1>5. CASE WorkerGets
  BY <1>5 DEF Dispatched, IInv, WorkerGets, transport, history
<1>6. CASE HandlerReturns
  BY <1>6 DEF Dispatched, IInv, HandlerReturns, transport, history
<1>7. CASE HandlerRaises
  BY <1>7 DEF Dispatched, IInv, HandlerRaises, transport, history
<1>8. CASE ConnectionLost
  <2>1. CASE CallbackCancelled
    BY <1>8, <2>1
    DEF Dispatched, IInv, ConnectionLost, CallbackCancelled, Dispatched
  <2>2. CASE CallbackGoesOn
    BY <1>8, <2>2 DEF Dispatched, IInv, ConnectionLost, CallbackGoesOn
  <2>. QED
    BY <1>8, <2>1, <2>2 DEF ConnectionLost
<1>9. CASE Reconnected
  BY <1>9 DEF Dispatched, IInv, Reconnected, history
<1>10. CASE StopTransport
  BY <1>10 DEF Dispatched, IInv, StopTransport, CallbackCancelled
<1>11. CASE StopChannel
  BY <1>11 DEF Dispatched, IInv, StopChannel, transport
<1>12. CASE ResumeSentinel
  BY <1>12 DEF Dispatched, IInv, ResumeSentinel, transport, history
<1>13. CASE Join
  BY <1>13 DEF Dispatched, IInv, Join, transport, history
<1>14. CASE UNCHANGED vars
  BY <1>14 DEF Dispatched, IInv, vars, transport, history
<1>. QED
  BY <1>1, <1>2, <1>3, <1>4, <1>5, <1>6, <1>7, <1>8, <1>9, <1>10, <1>11, <1>12,
     <1>13, <1>14
  DEF Next, CallbackStep, WorkerStep, StopChannelStep

\* A put waits once, parked or woken, also when another is cancelled.
LEMMA WaitingStep == IInv /\ [Next]_vars => Waiting'
<1>. SUFFICES ASSUME IInv, [Next]_vars PROVE Waiting'
  OBVIOUS
<1>1. ASSUME NEW m \in Messages, Arrive(m) PROVE Waiting'
  BY <1>1 DEF Waiting, IInv, Arrive, Free
<1>2. ASSUME NEW m \in Messages, ConvertFails(m) PROVE Waiting'
  BY <1>2 DEF Waiting, IInv, ConvertFails, At
<1>3. ASSUME NEW m \in Messages, Receive(m) PROVE Waiting'
  <2>0. m \in Items
    BY DEF Items
  <2>1. CASE ~Accepts /\ At(m, "dropped") /\ UNCHANGED <<queue, putters>>
    BY <1>3, <2>0, <2>1 DEF Waiting, IInv, Receive, At
  <2>2. CASE Accepts /\ ~Full /\ Enqueue(m) /\ At(m, "queued") /\ UNCHANGED putters
    BY <1>3, <2>0, <2>2 DEF Waiting, IInv, Receive, At
  <2>3. CASE Accepts /\ Full /\ Park(m) /\ At(m, "parked") /\ UNCHANGED queue
    <3>1. Extends(putters', putters, m)
      BY <2>0, <2>3, PutShape DEF IInv
    <3>2. woken' = woken /\ m \notin woken /\ \A i \in DOMAIN putters : putters[i] # m
      BY <1>3 DEF IInv, Waiting, Receive
    <3>3. callback'[m] = "parked"
      BY <2>3 DEF IInv, Marks, At
    <3>4. \A n \in Messages : n # m => callback'[n] = callback[n]
      BY <2>3 DEF IInv, Marks, At
    <3>. QED
      BY <3>1, <3>2, <3>3, <3>4, WaitingPark DEF IInv
  <2>. QED
    BY <1>3, <2>1, <2>2, <2>3 DEF Receive
<1>4. ASSUME NEW m \in Messages, ResumePut(m) PROVE Waiting'
  <2>0. m \in Items
    BY DEF Items
  <2>1. CASE ~Full /\ Enqueue(m) /\ At(m, "queued") /\ UNCHANGED putters
    BY <1>4, <2>0, <2>1 DEF Waiting, IInv, ResumePut, At
  <2>2. CASE Full /\ Park(m) /\ UNCHANGED <<queue, callback, updating>>
    <3>1. Extends(putters', putters, m)
      BY <2>0, <2>2, PutShape DEF IInv
    <3>2. /\ woken' = woken \ {m}
          /\ \A i \in DOMAIN putters : putters[i] # m
      BY <1>4 DEF IInv, Waiting, ResumePut
    <3>3. callback'[m] = "parked"
      BY <1>4, <2>2 DEF IInv, Waiting, ResumePut
    <3>4. \A n \in Messages : callback'[n] = callback[n]
      BY <2>2
    <3>. QED
      BY <3>1, <3>2, <3>3, <3>4, WaitingPark DEF IInv
  <2>. QED
    BY <1>4, <2>1, <2>2 DEF ResumePut
<1>5. CASE WorkerGets
  <2>1. CASE queue[1] = Sentinel
    BY <1>5, <2>1, GetShape DEF Waiting, IInv, WorkerGets, Follows
  <2>2. CASE queue[1] # Sentinel
    BY <1>5, <2>2, GetShape
    DEF Waiting, IInv, WorkerGets, Follows, Extends, Dispatched
  <2>. QED
    BY <2>1, <2>2
<1>6. CASE HandlerReturns
  BY <1>6 DEF Waiting, IInv, HandlerReturns
<1>7. CASE HandlerRaises
  BY <1>7 DEF Waiting, IInv, HandlerRaises, AfterFailure
<1>8. CASE ConnectionLost
  BY <1>8, CancelPutsProperties
  DEF Waiting, IInv, ConnectionLost, CallbackCancelled, CallbackGoesOn
<1>9. CASE Reconnected
  BY <1>9 DEF Waiting, IInv, Reconnected
<1>10. CASE StopTransport
  BY <1>10, CancelPutsProperties
  DEF Waiting, IInv, StopTransport, CallbackCancelled
<1>11. CASE StopChannel
  <2>0. Sentinel \in Items
    BY DEF Items
  <2>1. CASE ~Full /\ PutSentinel /\ stopping' = "joining" /\ UNCHANGED putters
    BY <1>11, <2>0, <2>1, PutShape
    DEF Waiting, IInv, StopChannel, PutSentinel, In, ToSet
  <2>2. CASE Full /\ Park(Sentinel) /\ stopping' = "putting" /\ UNCHANGED queue
    <3>1. Extends(putters', putters, Sentinel)
      BY <2>0, <2>2, PutShape DEF IInv
    <3>2. /\ woken' = woken /\ Sentinel \notin woken
          /\ \A i \in DOMAIN putters : putters[i] # Sentinel
      BY <1>11 DEF IInv, Stopping, StopChannel
    <3>3. Sentinel \notin Messages
      BY ChannelAssumption
    <3>4. callback' = callback
      BY <1>11 DEF StopChannel
    <3>. QED
      BY <3>1, <3>2, <3>3, <3>4, WaitingPark DEF IInv
  <2>. QED
    BY <1>11, <2>1, <2>2 DEF StopChannel
<1>12. CASE ResumeSentinel
  <2>0. Sentinel \in Items
    BY DEF Items
  <2>1. CASE ~Full /\ PutSentinel /\ stopping' = "joining" /\ UNCHANGED putters
    BY <1>12, <2>0, <2>1, PutShape
    DEF Waiting, IInv, ResumeSentinel, PutSentinel
  <2>2. CASE Full /\ Park(Sentinel) /\ UNCHANGED <<queue, stopping>>
    BY <1>12, <2>0, <2>2, PutShape, ChannelAssumption
    DEF Waiting, IInv, ResumeSentinel, Full, Extends, transport, Dispatched,
        Stopping, Items
  <2>. QED
    BY <1>12, <2>1, <2>2 DEF ResumeSentinel
<1>13. CASE Join
  BY <1>13 DEF Waiting, IInv, Join, WorkerOver
<1>14. CASE UNCHANGED vars
  BY <1>14 DEF Waiting, IInv, vars
<1>. QED
  BY <1>1, <1>2, <1>3, <1>4, <1>5, <1>6, <1>7, <1>8, <1>9, <1>10, <1>11, <1>12,
     <1>13, <1>14
  DEF Next, CallbackStep, WorkerStep, StopChannelStep

\* A message enters the queue at the end of its callback.
LEMMA PassedStep == IInv /\ [Next]_vars => Passed'
<1>. SUFFICES ASSUME IInv, [Next]_vars PROVE Passed'
  OBVIOUS
<1>1. ASSUME NEW m \in Messages, Arrive(m) PROVE Passed'
  BY <1>1 DEF Passed, IInv, Arrive, Free
<1>2. ASSUME NEW m \in Messages, ConvertFails(m) PROVE Passed'
  BY <1>2 DEF Passed, IInv, ConvertFails, At
<1>3. ASSUME NEW m \in Messages, Receive(m) PROVE Passed'
  <2>0. m \in Items
    BY DEF Items
  <2>1. CASE ~Accepts /\ At(m, "dropped") /\ UNCHANGED <<queue, putters>>
    BY <1>3, <2>0, <2>1 DEF Passed, IInv, Receive, At
  <2>2. CASE Accepts /\ ~Full /\ Enqueue(m) /\ At(m, "queued") /\ UNCHANGED putters
    BY <1>3, <2>0, <2>2, PutShape
    DEF Passed, IInv, Receive, At, Extends, Marks, Waiting
  <2>3. CASE Accepts /\ Full /\ Park(m) /\ At(m, "parked") /\ UNCHANGED queue
    BY <1>3, <2>0, <2>3 DEF Passed, IInv, Receive, At
  <2>. QED
    BY <1>3, <2>1, <2>2, <2>3 DEF Receive
<1>4. ASSUME NEW m \in Messages, ResumePut(m) PROVE Passed'
  <2>0. m \in Items
    BY DEF Items
  <2>1. CASE ~Full /\ Enqueue(m) /\ At(m, "queued") /\ UNCHANGED putters
    BY <1>4, <2>0, <2>1, PutShape, ChannelAssumption
    DEF Passed, IInv, ResumePut, Full, At, Extends, Marks, Dispatched
  <2>2. CASE Full /\ Park(m) /\ UNCHANGED <<queue, callback, updating>>
    BY <1>4, <2>0, <2>2, PutShape DEF Passed, IInv, ResumePut
  <2>. QED
    BY <1>4, <2>1, <2>2 DEF ResumePut
<1>5. CASE WorkerGets
  <2>1. /\ callback' = callback /\ Follows(queue', queue)
        /\ \/ UNCHANGED handled
           \/ queue[1] # Sentinel /\ Extends(handled', handled, queue[1])
    BY <1>5, GetShape DEF IInv, WorkerGets
  <2>2. \A i \in DOMAIN queue' : queue'[i] # Sentinel => callback'[queue'[i]] = "queued"
    BY <2>1 DEF IInv, Passed, Follows
  <2>3. \A i \in DOMAIN handled' :
           \/ i \in DOMAIN handled /\ handled'[i] = handled[i]
           \/ handled'[i] = queue[1] /\ queue[1] # Sentinel /\ 1 \in DOMAIN queue
    BY <2>1 DEF Extends, Follows
  <2>4. \A i \in DOMAIN handled' : callback'[handled'[i]] = "queued"
    BY <2>1, <2>3 DEF IInv, Passed
  <2>. QED
    BY <2>2, <2>4 DEF Passed
<1>6. CASE HandlerReturns
  BY <1>6 DEF Passed, IInv, HandlerReturns
<1>7. CASE HandlerRaises
  BY <1>7 DEF Passed, IInv, HandlerRaises, AfterFailure
<1>8. CASE ConnectionLost
  <2>1. \A i \in DOMAIN queue : queue[i] # Sentinel => queue[i] \in Messages
    BY DEF IInv, Lines, Items
  <2>2. \A i \in DOMAIN handled : handled[i] \in Messages
    BY DEF IInv, Lines
  <2>3. \A n \in Messages : callback[n] = "queued" => n \notin updating
    BY DEF IInv, Dispatched
  <2>4. \A n \in Messages : callback[n] = "queued" => callback'[n] = "queued"
    BY <1>8, <2>3 DEF ConnectionLost, CallbackCancelled, CallbackGoesOn
  <2>. QED
    BY <1>8, <2>1, <2>2, <2>4 DEF Passed, IInv, ConnectionLost
<1>9. CASE Reconnected
  BY <1>9 DEF Passed, IInv, Reconnected
<1>10. CASE StopTransport
  <2>1. \A i \in DOMAIN queue : queue[i] # Sentinel => queue[i] \in Messages
    BY DEF IInv, Lines, Items
  <2>2. \A i \in DOMAIN handled : handled[i] \in Messages
    BY DEF IInv, Lines
  <2>3. \A n \in Messages : callback[n] = "queued" => n \notin updating
    BY DEF IInv, Dispatched
  <2>4. \A n \in Messages : callback[n] = "queued" => callback'[n] = "queued"
    BY <1>10, <2>3 DEF StopTransport, CallbackCancelled
  <2>. QED
    BY <1>10, <2>1, <2>2, <2>4 DEF Passed, IInv, StopTransport
<1>11. CASE StopChannel
  <2>0. Sentinel \in Items
    BY DEF Items
  <2>1. CASE ~Full /\ PutSentinel /\ stopping' = "joining" /\ UNCHANGED putters
    BY <1>11, <2>0, <2>1, PutShape
    DEF Passed, IInv, StopChannel, PutSentinel, Extends, transport, Waiting
  <2>2. CASE Full /\ Park(Sentinel) /\ stopping' = "putting" /\ UNCHANGED queue
    BY <1>11, <2>0, <2>2, PutShape DEF Passed, IInv, StopChannel, In, ToSet
  <2>. QED
    BY <1>11, <2>1, <2>2 DEF StopChannel
<1>12. CASE ResumeSentinel
  <2>0. Sentinel \in Items
    BY DEF Items
  <2>1. CASE ~Full /\ PutSentinel /\ stopping' = "joining" /\ UNCHANGED putters
    BY <1>12, <2>0, <2>1, PutShape
    DEF Passed, IInv, ResumeSentinel, PutSentinel, Extends, Dispatched
  <2>2. CASE Full /\ Park(Sentinel) /\ UNCHANGED <<queue, stopping>>
    BY <1>12, <2>0, <2>2, PutShape DEF Passed, IInv, ResumeSentinel
  <2>. QED
    BY <1>12, <2>1, <2>2 DEF ResumeSentinel
<1>13. CASE Join
  BY <1>13 DEF Passed, IInv, Join, WorkerOver
<1>14. CASE UNCHANGED vars
  BY <1>14 DEF Passed, IInv, vars
<1>. QED
  BY <1>1, <1>2, <1>3, <1>4, <1>5, <1>6, <1>7, <1>8, <1>9, <1>10, <1>11, <1>12,
     <1>13, <1>14
  DEF Next, CallbackStep, WorkerStep, StopChannelStep

\* The sentinel enters the queue after the channel was closed to callbacks.
LEMMA StoppingStep == IInv /\ [Next]_vars => Stopping'
<1>. SUFFICES ASSUME IInv, [Next]_vars PROVE Stopping'
  OBVIOUS
<1>1. ASSUME NEW m \in Messages, Arrive(m) PROVE Stopping'
  BY <1>1 DEF Stopping, IInv, Arrive, Free
<1>2. ASSUME NEW m \in Messages, ConvertFails(m) PROVE Stopping'
  BY <1>2 DEF Stopping, IInv, ConvertFails, At, history
<1>3. ASSUME NEW m \in Messages, Receive(m) PROVE Stopping'
  <2>0. m \in Items
    BY DEF Items
  <2>1. CASE ~Accepts /\ At(m, "dropped") /\ UNCHANGED <<queue, putters>>
    BY <1>3, <2>0, <2>1 DEF Stopping, IInv, Receive, At, history
  <2>2. CASE Accepts /\ ~Full /\ Enqueue(m) /\ At(m, "queued") /\ UNCHANGED putters
    BY <1>3, <2>0, <2>2, PutShape, ChannelAssumption
    DEF Stopping, IInv, Receive, Accepts, Extends, history
  <2>3. CASE Accepts /\ Full /\ Park(m) /\ At(m, "parked") /\ UNCHANGED queue
    BY <1>3, <2>0, <2>3, PutShape, ChannelAssumption
    DEF Stopping, IInv, Receive, Accepts, Extends, history
  <2>. QED
    BY <1>3, <2>1, <2>2, <2>3 DEF Receive
<1>4. ASSUME NEW m \in Messages, ResumePut(m) PROVE Stopping'
  <2>0. m \in Items
    BY DEF Items
  <2>1. CASE ~Full /\ Enqueue(m) /\ At(m, "queued") /\ UNCHANGED putters
    <3>1. Extends(queue', queue, m) /\ m # Sentinel
      BY <2>0, <2>1, PutShape, ChannelAssumption DEF IInv
    <3>2. /\ callback[m] = "parked" /\ callback'[m] = "queued"
          /\ \A n \in Messages : n # m => callback'[n] = callback[n]
      BY <1>4, <2>1 DEF IInv, Marks, Waiting, ResumePut, At
    <3>3. /\ UNCHANGED <<accepting, stopping, worker, atStop>>
          /\ putters' = putters /\ woken' \subseteq woken
      BY <1>4, <2>1 DEF ResumePut, history
    <3>4. \A i \in DOMAIN queue' : queue'[i] = Sentinel => stopping = "joining"
      BY <3>1 DEF IInv, Stopping, Extends
    <3>5. ~accepting =>
             /\ \A n \in Messages : callback'[n] = "parked" => n \in atStop.parked
             /\ \A n \in atStop.converting : callback'[n] \in {"converting", "dropped"}
      BY <3>2 DEF IInv, Marks, Stopping
    <3>. QED
      BY <3>3, <3>4, <3>5 DEF IInv, Stopping
  <2>2. CASE Full /\ Park(m) /\ UNCHANGED <<queue, callback, updating>>
    BY <1>4, <2>0, <2>2, PutShape
    DEF Stopping, IInv, ResumePut, Extends, history
  <2>. QED
    BY <1>4, <2>1, <2>2 DEF ResumePut
<1>5. CASE WorkerGets
  <2>1. /\ worker = Idle /\ worker # Ended
        /\ UNCHANGED <<accepting, stopping, callback, atStop>>
    BY <1>5 DEF WorkerGets, history, Idle, Ended
  <2>2. /\ Follows(queue', queue)
        /\ \/ UNCHANGED <<putters, woken>>
           \/ woken' = woken \cup {putters[1]} /\ Follows(putters', putters)
        /\ \/ queue[1] = Sentinel /\ worker' = Ended
           \/ queue[1] \in Items /\ worker' = queue[1]
    BY <1>5, GetShape DEF IInv
  <2>3. \A i \in DOMAIN queue' : queue'[i] = Sentinel => stopping = "joining"
    BY <2>2 DEF IInv, Stopping, Follows
  <2>4. /\ \A i \in DOMAIN putters' : putters'[i] = Sentinel => stopping = "putting"
        /\ Sentinel \in woken' => stopping = "putting"
    BY <2>2 DEF IInv, Stopping, Follows
  <2>5. worker' = Ended => stopping = "joining"
    BY <2>2, ChannelAssumption DEF IInv, Stopping, Follows
  <2>6. stopping # "done"
    BY <2>1 DEF IInv, Stopping
  <2>. QED
    BY <2>1, <2>3, <2>4, <2>5, <2>6 DEF IInv, Stopping
<1>6. CASE HandlerReturns
  BY <1>6, ChannelAssumption
  DEF Stopping, IInv, HandlerReturns, history, Idle, Ended, Items
<1>7. CASE HandlerRaises
  BY <1>7, ChannelAssumption
  DEF Stopping, IInv, HandlerRaises, AfterFailure, history, Idle, Ended, Items
<1>8. CASE ConnectionLost
  <2>1. UNCHANGED <<accepting, queue, worker, stopping, atStop>>
    BY <1>8 DEF ConnectionLost
  <2>2. CASE CallbackCancelled
    <3>1. /\ \A i \in DOMAIN putters' : \E j \in DOMAIN putters : putters'[i] = putters[j]
          /\ \A x \in woken' : x \in woken \/ \E j \in DOMAIN putters : putters[j] = x
      BY <2>2, CancelPutsProperties DEF IInv, CallbackCancelled, Marks
    <3>2. \A m \in Messages : callback'[m] \in {callback[m], "dropped"}
      BY <2>2 DEF CallbackCancelled
    <3>3. atStop.converting \subseteq Messages
      BY DEF IInv, Marks
    <3>. QED
      BY <2>1, <3>1, <3>2, <3>3 DEF Stopping, IInv
  <2>3. CASE CallbackGoesOn
    BY <2>1, <2>3 DEF Stopping, IInv, CallbackGoesOn
  <2>. QED
    BY <1>8, <2>2, <2>3 DEF ConnectionLost
<1>9. CASE Reconnected
  BY <1>9 DEF Stopping, IInv, Reconnected, history
<1>10. CASE StopTransport
  BY <1>10, CancelPutsProperties
  DEF Stopping, IInv, StopTransport, CallbackCancelled
<1>11. CASE StopChannel
  BY <1>11 DEF Stopping, IInv, StopChannel, PutSentinel, In, ToSet
<1>12. CASE ResumeSentinel
  BY <1>12 DEF Stopping, IInv, ResumeSentinel, history, Waiting
<1>13. CASE Join
  <2>1. /\ ~accepting /\ worker = Ended /\ stopping = "joining"
        /\ \A i \in DOMAIN queue : queue[i] # Sentinel
    BY <1>13, ChannelAssumption
    DEF IInv, Stopping, Draining, Marks, Join, WorkerOver
  <2>. QED
    BY <1>13, <2>1 DEF IInv, Stopping, Join, history
<1>14. CASE UNCHANGED vars
  BY <1>14 DEF Stopping, IInv, vars, history
<1>. QED
  BY <1>1, <1>2, <1>3, <1>4, <1>5, <1>6, <1>7, <1>8, <1>9, <1>10, <1>11, <1>12,
     <1>13, <1>14
  DEF Next, CallbackStep, WorkerStep, StopChannelStep

\* What was queued when the stop was called stays before the sentinel, and what
\* was parked then may follow it.
LEMMA DrainingStep == IInv /\ [Next]_vars => Draining'
<1>. SUFFICES ASSUME IInv, [Next]_vars PROVE Draining'
  OBVIOUS
<1>1. ASSUME NEW m \in Messages, Arrive(m) PROVE Draining'
  BY <1>1 DEF Draining, IInv, Arrive, Stopping
<1>2. ASSUME NEW m \in Messages, ConvertFails(m) PROVE Draining'
  BY <1>2 DEF Draining, IInv, ConvertFails, history, Given
<1>3. ASSUME NEW m \in Messages, Receive(m) PROVE Draining'
  BY <1>3 DEF Draining, IInv, Receive, Accepts, history, Given
<1>4. ASSUME NEW m \in Messages, ResumePut(m) PROVE Draining'
  <2>0. m \in Items
    BY DEF Items
  <2>1. CASE ~Full /\ Enqueue(m) /\ At(m, "queued") /\ UNCHANGED putters
    <3>1. Extends(queue', queue, m) /\ m # Sentinel
      BY <2>0, <2>1, PutShape, ChannelAssumption DEF IInv
    <3>2. ~accepting => m \in atStop.parked
      BY <1>4 DEF IInv, Waiting, Stopping, ResumePut
    <3>3. UNCHANGED <<accepting, handled, worker, atStop>>
      BY <1>4 DEF ResumePut, history
    <3>. QED
      BY <3>1, <3>2, <3>3, DrainingPut DEF IInv
  <2>2. CASE Full /\ Park(m) /\ UNCHANGED <<queue, callback, updating>>
    BY <1>4, <2>0, <2>2 DEF Draining, IInv, ResumePut, history, Given
  <2>. QED
    BY <1>4, <2>1, <2>2 DEF ResumePut
<1>5. CASE WorkerGets
  <2>1. SUFFICES ASSUME ~accepting PROVE Draining'
    BY <1>5 DEF Draining, WorkerGets
  <2>2. UNCHANGED <<accepting, atStop>> /\ Follows(queue', queue)
    BY <1>5, GetShape DEF IInv, WorkerGets, history
  <2>3. \A i \in DOMAIN queue' : /\ i \in Nat /\ i + 1 \in DOMAIN queue
                                 /\ queue'[i] = queue[i + 1] /\ 1 < i + 1
    BY <2>2 DEF Follows
  <2>4. \A i, j \in DOMAIN queue' :
           i < j /\ queue'[i] = Sentinel => queue'[j] \in atStop.parked
    BY <2>1, <2>3 DEF IInv, Draining
  <2>5. CASE queue[1] = Sentinel /\ UNCHANGED handled
    <3>1. \A m \in atStop.queued : Given(m)
      BY <2>1, <2>2, <2>5 DEF IInv, Draining, Follows
    <3>2. \A i \in DOMAIN queue' : queue'[i] \in atStop.parked
      BY <2>1, <2>2, <2>3, <2>5 DEF IInv, Draining, Follows
    <3>. QED
      BY <2>2, <2>4, <2>5, <3>1, <3>2 DEF Draining, Given
  <2>6. CASE queue[1] # Sentinel /\ worker' = queue[1] /\ Extends(handled', handled, queue[1])
    <3>1. worker' # Ended
      BY <2>6, GetShape, ChannelAssumption, <1>5 DEF IInv
    <3>2. /\ \E i \in DOMAIN handled' : handled'[i] = queue[1]
          /\ \A m : Given(m) => \E i \in DOMAIN handled' : handled'[i] = m
      BY <2>6 DEF Extends, Given
    <3>3. ASSUME NEW m \in atStop.queued, ~\E i \in DOMAIN handled' : handled'[i] = m
          PROVE  \E i \in DOMAIN queue' :
                    queue'[i] = m /\ \A j \in DOMAIN queue' : queue'[j] = Sentinel => i < j
      <4>1. PICK i \in DOMAIN queue :
               queue[i] = m /\ \A j \in DOMAIN queue : queue[j] = Sentinel => i < j
        BY <2>1, <3>2, <3>3 DEF IInv, Draining
      <4>2. i # 1 /\ i \in Nat /\ i - 1 \in DOMAIN queue' /\ queue'[i - 1] = m
        BY <2>2, <3>2, <3>3, <4>1 DEF Follows
      <4>3. ASSUME NEW j \in DOMAIN queue', queue'[j] = Sentinel PROVE i - 1 < j
        BY <2>3, <4>1, <4>2, <4>3
      <4>. QED
        BY <4>2, <4>3
    <3>. QED
      BY <2>2, <2>4, <3>1, <3>3 DEF Draining, Given
  <2>. QED
    BY <1>5, <2>5, <2>6, GetShape DEF IInv
<1>6. CASE HandlerReturns
  BY <1>6 DEF Draining, IInv, HandlerReturns, history, Idle, Ended, Given
<1>7. CASE HandlerRaises
  BY <1>7
  DEF Draining, IInv, HandlerRaises, AfterFailure, history, Idle, Ended, Given
<1>8. CASE ConnectionLost
  BY <1>8 DEF Draining, IInv, ConnectionLost, Given
<1>9. CASE Reconnected
  BY <1>9 DEF Draining, IInv, Reconnected, Stopping
<1>10. CASE StopTransport
  BY <1>10 DEF Draining, IInv, StopTransport, Stopping
<1>11. CASE StopChannel
  <2>0. Sentinel \in Items
    BY DEF Items
  <2>1. CASE ~Full /\ PutSentinel /\ stopping' = "joining" /\ UNCHANGED putters
    <3>1. Extends(queue', queue, Sentinel)
      BY <2>0, <2>1, PutShape DEF IInv, PutSentinel
    <3>2. worker' # Ended /\ \A i \in DOMAIN queue : queue[i] # Sentinel
      BY <1>11 DEF IInv, Stopping, StopChannel
    <3>3. /\ \A n \in atStop'.queued : \E i \in DOMAIN queue : queue[i] = n
      BY <1>11 DEF StopChannel, ToSet
    <3>4. \A j \in DOMAIN queue' : queue'[j] = Sentinel => j = Len(queue) + 1
      BY <3>1, <3>2 DEF Extends
    <3>5. /\ \A n \in atStop'.queued : \E i \in DOMAIN queue' :
                queue'[i] = n /\ \A j \in DOMAIN queue' : queue'[j] = Sentinel => i < j
          /\ \A i, j \in DOMAIN queue' : ~(i < j /\ queue'[i] = Sentinel)
      BY <3>1, <3>3, <3>4 DEF Extends
    <3>. QED
      BY <3>2, <3>5 DEF Draining
  <2>2. CASE Full /\ Park(Sentinel) /\ stopping' = "putting" /\ UNCHANGED queue
    BY <1>11, <2>0, <2>2 DEF Draining, IInv, StopChannel, ToSet, Stopping
  <2>. QED
    BY <1>11, <2>1, <2>2 DEF StopChannel
<1>12. CASE ResumeSentinel
  <2>0. Sentinel \in Items
    BY DEF Items
  <2>1. CASE ~Full /\ PutSentinel /\ stopping' = "joining" /\ UNCHANGED putters
    <3>1. Extends(queue', queue, Sentinel)
      BY <2>0, <2>1, PutShape DEF IInv, PutSentinel
    <3>2. worker # Ended /\ \A i \in DOMAIN queue : queue[i] # Sentinel
      BY <1>12 DEF IInv, Stopping, ResumeSentinel
    <3>3. UNCHANGED <<accepting, handled, worker, atStop>>
      BY <1>12 DEF ResumeSentinel, history
    <3>. QED
      BY <3>1, <3>2, <3>3, DrainingPut DEF IInv
  <2>2. CASE Full /\ Park(Sentinel) /\ UNCHANGED <<queue, stopping>>
    BY <1>12, <2>0, <2>2 DEF Draining, IInv, ResumeSentinel, history, Given
  <2>. QED
    BY <1>12, <2>1, <2>2 DEF ResumeSentinel
<1>13. CASE Join
  BY <1>13 DEF Draining, IInv, Join, history, Given
<1>14. CASE UNCHANGED vars
  BY <1>14 DEF Draining, IInv, vars, history, Given
<1>. QED
  BY <1>1, <1>2, <1>3, <1>4, <1>5, <1>6, <1>7, <1>8, <1>9, <1>10, <1>11, <1>12,
     <1>13, <1>14
  DEF Next, CallbackStep, WorkerStep, StopChannelStep

\* Puts enter, and gets leave, in the order of arrival.
LEMMA OrderedStep == IInv /\ [Next]_vars => Ordered'
<1>. SUFFICES ASSUME IInv, [Next]_vars PROVE Ordered'
  OBVIOUS
<1>1. ASSUME NEW m \in Messages, Arrive(m) PROVE Ordered'
  <2>1. arrived \in Seq(Messages) /\ arrived' = Append(arrived, m)
        /\ UNCHANGED <<handled, queue, outlived>>
    BY <1>1 DEF IInv, Lines, Arrive
  <2>2. Extends(arrived', arrived, m)
    BY <2>1, AppendShape
  <2>3. \A k \in DOMAIN arrived : k \in DOMAIN arrived' /\ arrived'[k] = arrived[k]
    BY <2>2 DEF Extends
  <2>4. ASSUME NEW x, NEW y, Before(x, y)
        PROVE  \E k, l \in DOMAIN arrived' : k < l /\ arrived'[k] = x /\ arrived'[l] = y
    BY <2>3, <2>4 DEF Before
  <2>5. /\ \A i, j \in DOMAIN handled :
              i < j /\ Regular(handled[i]) /\ Regular(handled[j])
                => Before(handled[i], handled[j])
        /\ \A i \in DOMAIN handled, j \in DOMAIN queue :
              Regular(handled[i]) /\ Regular(queue[j]) => Before(handled[i], queue[j])
        /\ \A i, j \in DOMAIN queue :
              i < j /\ Regular(queue[i]) /\ Regular(queue[j])
                => Before(queue[i], queue[j])
    BY DEF IInv, Ordered
  <2>6. \A u : Regular(u)' <=> Regular(u)
    BY <2>1 DEF Regular
  <2>7. \A u, v : Before(u, v) => Before(u, v)'
    BY <2>4 DEF Before
  <2>. QED
    BY <2>1, <2>5, <2>6, <2>7 DEF Ordered
<1>2. ASSUME NEW m \in Messages, ConvertFails(m) PROVE Ordered'
  BY <1>2 DEF Ordered, IInv, ConvertFails, history, Before, Regular
<1>3. ASSUME NEW m \in Messages, Receive(m) PROVE Ordered'
  <2>0. m \in Items
    BY DEF Items
  <2>1. CASE ~Accepts /\ At(m, "dropped") /\ UNCHANGED <<queue, putters>>
    BY <1>3, <2>0, <2>1 DEF Ordered, IInv, Receive, history, Before, Regular
  <2>2. CASE Accepts /\ ~Full /\ Enqueue(m) /\ At(m, "queued") /\ UNCHANGED putters
    <3>1. Extends(queue', queue, m) /\ callback[m] \in {"converting", "parked"}
      BY <1>3, <2>0, <2>2, PutShape DEF IInv, Waiting, Receive
    <3>2. UNCHANGED <<handled, arrived, outlived>>
      BY <1>3 DEF Receive, history
    <3>3. \A x : Regular(x) => x # Sentinel
      BY ChannelAssumption DEF Regular
    <3>4. Regular(m) =>
             /\ \A i \in DOMAIN handled : Regular(handled[i]) => Before(handled[i], m)
             /\ \A i \in DOMAIN queue : Regular(queue[i]) => Before(queue[i], m)
      BY <3>1, <3>3, NewestIsLast DEF IInv, Passed
    <3>. QED
      BY <3>1, <3>2, <3>4, OrderedPut DEF IInv
  <2>3. CASE Accepts /\ Full /\ Park(m) /\ At(m, "parked") /\ UNCHANGED queue
    BY <1>3, <2>0, <2>3 DEF Ordered, IInv, Receive, history, Before, Regular
  <2>. QED
    BY <1>3, <2>1, <2>2, <2>3 DEF Receive
<1>4. ASSUME NEW m \in Messages, ResumePut(m) PROVE Ordered'
  <2>0. m \in Items
    BY DEF Items
  <2>1. CASE ~Full /\ Enqueue(m) /\ At(m, "queued") /\ UNCHANGED putters
    <3>1. Extends(queue', queue, m) /\ callback[m] \in {"converting", "parked"}
      BY <1>4, <2>0, <2>1, PutShape DEF IInv, Waiting, ResumePut
    <3>2. UNCHANGED <<handled, arrived, outlived>>
      BY <1>4 DEF ResumePut, history
    <3>3. \A x : Regular(x) => x # Sentinel
      BY ChannelAssumption DEF Regular
    <3>4. Regular(m) =>
             /\ \A i \in DOMAIN handled : Regular(handled[i]) => Before(handled[i], m)
             /\ \A i \in DOMAIN queue : Regular(queue[i]) => Before(queue[i], m)
      BY <3>1, <3>3, NewestIsLast DEF IInv, Passed
    <3>. QED
      BY <3>1, <3>2, <3>4, OrderedPut DEF IInv
  <2>2. CASE Full /\ Park(m) /\ UNCHANGED <<queue, callback, updating>>
    BY <1>4, <2>0, <2>2 DEF Ordered, IInv, ResumePut, history, Before, Regular
  <2>. QED
    BY <1>4, <2>1, <2>2 DEF ResumePut
<1>5. CASE WorkerGets
  <2>1. UNCHANGED <<arrived, outlived>>
    BY <1>5 DEF WorkerGets, history
  <2>2. /\ Follows(queue', queue)
        /\ UNCHANGED handled \/ Extends(handled', handled, queue[1])
    BY <1>5, GetShape DEF IInv
  <2>3. /\ 1 \in DOMAIN queue
        /\ \A i \in DOMAIN queue' : /\ i \in Nat /\ i + 1 \in DOMAIN queue
                                    /\ queue'[i] = queue[i + 1] /\ 1 < i + 1
    BY <2>2 DEF Follows
  <2>4. /\ \A i \in DOMAIN handled' :
              \/ i \in DOMAIN handled /\ handled'[i] = handled[i]
              \/ handled'[i] = queue[1]
        /\ \A i, j \in DOMAIN handled' :
              i < j => i \in DOMAIN handled /\ handled'[i] = handled[i]
    <3>1. CASE UNCHANGED handled
      <4>1. \A i \in DOMAIN handled : i \in Nat
        BY DEF IInv, Lines
      <4>. QED
        BY <3>1
    <3>2. CASE Extends(handled', handled, queue[1])
      BY <3>2 DEF Extends
    <3>. QED
      BY <2>2, <3>1, <3>2
  <2>5. ASSUME NEW i \in DOMAIN handled', NEW j \in DOMAIN handled',
               i < j, Regular(handled'[i]), Regular(handled'[j])
        PROVE  Before(handled'[i], handled'[j])
    <3>1. i \in DOMAIN handled /\ handled'[i] = handled[i]
      BY <2>4, <2>5
    <3>2. CASE j \in DOMAIN handled /\ handled'[j] = handled[j]
      BY <2>5, <3>1, <3>2 DEF IInv, Ordered
    <3>3. CASE handled'[j] = queue[1]
      BY <2>3, <2>5, <3>1, <3>3 DEF IInv, Ordered
    <3>. QED
      BY <2>4, <3>2, <3>3
  <2>6. ASSUME NEW i \in DOMAIN handled', NEW j \in DOMAIN queue',
               Regular(handled'[i]), Regular(queue'[j])
        PROVE  Before(handled'[i], queue'[j])
    <3>1. CASE i \in DOMAIN handled /\ handled'[i] = handled[i]
      BY <2>3, <2>6, <3>1 DEF IInv, Ordered
    <3>2. CASE handled'[i] = queue[1]
      BY <2>3, <2>6, <3>2 DEF IInv, Ordered
    <3>. QED
      BY <2>4, <3>1, <3>2
  <2>7. ASSUME NEW i \in DOMAIN queue', NEW j \in DOMAIN queue',
               i < j, Regular(queue'[i]), Regular(queue'[j])
        PROVE  Before(queue'[i], queue'[j])
    BY <2>3, <2>7 DEF IInv, Ordered
  <2>. QED
    BY <2>1, <2>5, <2>6, <2>7 DEF Ordered, Before, Regular
<1>6. CASE HandlerReturns
  BY <1>6 DEF Ordered, IInv, HandlerReturns, history, Before, Regular
<1>7. CASE HandlerRaises
  BY <1>7 DEF Ordered, IInv, HandlerRaises, history, Before, Regular
<1>8. CASE ConnectionLost
  BY <1>8
  DEF Ordered, IInv, ConnectionLost, CallbackCancelled, CallbackGoesOn, Before,
      Regular
<1>9. CASE Reconnected
  BY <1>9 DEF Ordered, IInv, Reconnected, history, Before, Regular
<1>10. CASE StopTransport
  BY <1>10 DEF Ordered, IInv, StopTransport, CallbackCancelled, Before, Regular
<1>11. CASE StopChannel
  <2>0. Sentinel \in Items
    BY DEF Items
  <2>1. CASE ~Full /\ PutSentinel /\ stopping' = "joining" /\ UNCHANGED putters
    <3>1. Extends(queue', queue, Sentinel)
      BY <2>0, <2>1, PutShape DEF IInv, PutSentinel
    <3>2. UNCHANGED <<handled, arrived, outlived>>
      BY <1>11 DEF StopChannel, history
    <3>3. ~Regular(Sentinel)
      BY ChannelAssumption DEF Regular
    <3>. QED
      BY <3>1, <3>2, <3>3, OrderedPut DEF IInv
  <2>2. CASE Full /\ Park(Sentinel) /\ stopping' = "putting" /\ UNCHANGED queue
    BY <1>11, <2>0, <2>2 DEF Ordered, IInv, StopChannel, Before, Regular
  <2>. QED
    BY <1>11, <2>1, <2>2 DEF StopChannel
<1>12. CASE ResumeSentinel
  <2>0. Sentinel \in Items
    BY DEF Items
  <2>1. CASE ~Full /\ PutSentinel /\ stopping' = "joining" /\ UNCHANGED putters
    <3>1. Extends(queue', queue, Sentinel)
      BY <2>0, <2>1, PutShape DEF IInv, PutSentinel
    <3>2. UNCHANGED <<handled, arrived, outlived>>
      BY <1>12 DEF ResumeSentinel, history
    <3>3. ~Regular(Sentinel)
      BY ChannelAssumption DEF Regular
    <3>. QED
      BY <3>1, <3>2, <3>3, OrderedPut DEF IInv
  <2>2. CASE Full /\ Park(Sentinel) /\ UNCHANGED <<queue, stopping>>
    BY <1>12, <2>0, <2>2
    DEF Ordered, IInv, ResumeSentinel, history, Before, Regular
  <2>. QED
    BY <1>12, <2>1, <2>2 DEF ResumeSentinel
<1>13. CASE Join
  BY <1>13 DEF Ordered, IInv, Join, history, Before, Regular
<1>14. CASE UNCHANGED vars
  BY <1>14 DEF Ordered, IInv, vars, history, Before, Regular
<1>. QED
  BY <1>1, <1>2, <1>3, <1>4, <1>5, <1>6, <1>7, <1>8, <1>9, <1>10, <1>11, <1>12,
     <1>13, <1>14
  DEF Next, CallbackStep, WorkerStep, StopChannelStep

-----------------------------------------------------------------------------
(* The theorems *)

\* A started channel satisfies the invariant.
LEMMA InitInv == Init => IInv
<1>. SUFFICES ASSUME Init PROVE IInv
  OBVIOUS
<1>. USE ChannelAssumption DEF Init
<1>1. Marks /\ Lines
  BY DEF Marks, Lines, Idle, Items
<1>2. Dispatched /\ Waiting /\ Passed /\ Ordered
  BY DEF Dispatched, Waiting, Passed, Ordered
<1>3. Stopping /\ Draining
  BY DEF Stopping, Draining, Idle, Ended
<1>. QED
  BY <1>1, <1>2, <1>3 DEF IInv

\* Each step keeps every part of the invariant.
LEMMA StepInv == IInv /\ [Next]_vars => IInv'
  BY MarksStep, LinesStep, DispatchedStep, WaitingStep, PassedStep, OrderedStep,
     StoppingStep, DrainingStep
  DEF IInv

\* The inductive invariant holds in every reachable state.
THEOREM Invariance == Spec => []IInv
  BY InitInv, StepInv, PTL DEF Spec

\* The variables keep their types and the queue its bound, for every capacity.
THEOREM TypeCorrect == Spec => []TypeOK
<1>1. IInv => TypeOK
  BY DEF IInv, Marks, Lines, TypeOK
<1>. QED
  BY <1>1, Invariance, PTL

\* Messages are given to the handler at most once and in the order Telegram sent
\* them, unless a callback outlived its connection: the queue, the order of the
\* parked puts and the retries of the woken ones lose nothing of the order.
THEOREM InOrder == Spec => []HandledInOrder
<1>1. IInv => HandledInOrder
  <2>. SUFFICES ASSUME IInv, NEW i \in DOMAIN handled, NEW j \in DOMAIN handled,
                       i < j, {handled[i], handled[j]} \cap outlived = {}
                PROVE  Before(handled[i], handled[j])
    BY DEF HandledInOrder
  <2>1. handled[i] \in Messages /\ handled[j] \in Messages
    BY DEF IInv, Lines
  <2>2. Regular(handled[i]) /\ Regular(handled[j])
    BY <2>1 DEF Regular
  <2>. QED
    BY <2>2 DEF IInv, Ordered
<1>. QED
  BY <1>1, Invariance, PTL

\* When stop() has returned, what was queued when it was called has been handled,
\* and what is left in the queue was parked then.
THEOREM Drains == Spec => []StopDrains
<1>1. IInv => StopDrains
  BY DEF IInv, Marks, Stopping, Draining, StopDrains, Given, ToSet
<1>. QED
  BY <1>1, Invariance, PTL

\* A message that was still being converted when stop() was called is not handled.
THEOREM LateOnesShutOut == Spec => []NobodyLate
<1>1. IInv => NobodyLate
  BY DEF IInv, Passed, Stopping, NobodyLate, ToSet
<1>. QED
  BY <1>1, Invariance, PTL

-----------------------------------------------------------------------------
(* The refinement *)

Queued(m) == \E i \in DOMAIN queue : queue[i] = m

\* Beyond IInv: a message whose callback is over is in one place.
Once ==
    /\ \A m \in Messages : callback[m] = "queued" => Given(m) \/ Queued(m)
    /\ \A m \in Messages : ~(Given(m) /\ Queued(m))
    /\ \A i, j \in DOMAIN queue : queue[i] = queue[j] /\ queue[i] # Sentinel => i = j

\* It stays there while queue and handler are left alone.
LEMMA OnceKept ==
    ASSUME Once, UNCHANGED <<queue, handled>>,
           \A m \in Messages : callback'[m] = "queued" => callback[m] = "queued"
    PROVE  Once'
  BY DEF Once, Given, Queued

\* A put adds a message that was in neither place, or the sentinel.
LEMMA OncePut ==
    ASSUME IInv, Once, NEW x \in Items, Extends(queue', queue, x), UNCHANGED handled,
           x \in Messages => callback[x] # "queued",
           \A m \in Messages : callback'[m] = "queued" => callback[m] = "queued" \/ m = x
    PROVE  Once'
<1>1. \A m \in Messages : Given(m)' <=> Given(m)
  BY DEF Given
<1>2. \A m : Queued(m)' <=> Queued(m) \/ m = x
  BY DEF Queued, Extends
<1>3. x \in Messages => ~Given(x) /\ ~Queued(x)
  BY ChannelAssumption DEF IInv, Passed, Given, Queued
<1>4. \A i, j \in DOMAIN queue' : queue'[i] = queue'[j] /\ queue'[i] # Sentinel => i = j
  <2>1. x # Sentinel => x \in Messages
    BY DEF Items
  <2>. QED
    BY <1>3, <2>1 DEF Once, Queued, Extends
<1>5. \A m \in Messages : callback'[m] = "queued" => Given(m)' \/ Queued(m)'
  BY <1>1, <1>2 DEF Once
<1>6. \A m \in Messages : ~(Given(m)' /\ Queued(m)')
  BY <1>1, <1>2, <1>3 DEF Once
<1>. QED
  BY <1>4, <1>5, <1>6 DEF Once

\* A get moves the first message of the queue to those handled.
LEMMA OnceGet == IInv /\ Once /\ WorkerGets => Once'
<1>. SUFFICES ASSUME IInv, Once, WorkerGets PROVE Once'
  OBVIOUS
<1>1. /\ Follows(queue', queue) /\ UNCHANGED callback
      /\ \/ queue[1] = Sentinel /\ UNCHANGED handled
         \/ queue[1] # Sentinel /\ Extends(handled', handled, queue[1])
  BY GetShape DEF IInv, WorkerGets
<1>2. \A m \in Messages : Given(m)' <=> Given(m) \/ m = queue[1]
  <2>1. Sentinel \notin Messages
    BY ChannelAssumption
  <2>2. CASE queue[1] = Sentinel /\ UNCHANGED handled
    BY <2>1, <2>2 DEF Given
  <2>3. CASE Extends(handled', handled, queue[1])
    BY <2>3 DEF Given, Extends
  <2>. QED
    BY <1>1, <2>2, <2>3
<1>3. /\ \A i \in DOMAIN queue' : /\ i \in Nat /\ i >= 1
                                  /\ i + 1 \in DOMAIN queue /\ queue'[i] = queue[i + 1]
      /\ \A i \in DOMAIN queue :
            i # 1 => /\ i \in Nat /\ i - 1 \in DOMAIN queue'
                     /\ queue'[i - 1] = queue[i]
      /\ 1 \in DOMAIN queue
  BY <1>1 DEF Follows
<1>4. \A m \in Messages : Queued(m)' <=> Queued(m) /\ m # queue[1]
  <2>. SUFFICES ASSUME NEW m \in Messages
                PROVE  Queued(m)' <=> Queued(m) /\ m # queue[1]
    OBVIOUS
  <2>0. m # Sentinel
    BY ChannelAssumption
  <2>1. ASSUME Queued(m)' PROVE Queued(m) /\ m # queue[1]
    <3>1. PICK i \in DOMAIN queue' : queue'[i] = m
      BY <2>1 DEF Queued
    <3>2. i + 1 \in DOMAIN queue /\ queue[i + 1] = m /\ i + 1 # 1
      BY <1>3, <3>1
    <3>. QED
      BY <1>3, <2>0, <3>2 DEF Once, Queued
  <2>2. ASSUME Queued(m), m # queue[1] PROVE Queued(m)'
    BY <1>3, <2>2 DEF Queued
  <2>. QED
    BY <2>1, <2>2
<1>5. \A m \in Messages : callback'[m] = "queued" => Given(m)' \/ Queued(m)'
  BY <1>1, <1>2, <1>4 DEF Once
<1>6. \A m \in Messages : ~(Given(m)' /\ Queued(m)')
  BY <1>2, <1>4 DEF Once
<1>7. \A i, j \in DOMAIN queue' : queue'[i] = queue'[j] /\ queue'[i] # Sentinel => i = j
  <2>. SUFFICES ASSUME NEW i \in DOMAIN queue', NEW j \in DOMAIN queue',
                       queue'[i] = queue'[j], queue'[i] # Sentinel
                PROVE  i = j
    OBVIOUS
  <2>1. i + 1 = j + 1
    BY <1>3 DEF Once
  <2>. QED
    BY <1>3, <2>1
<1>. QED
  BY <1>5, <1>6, <1>7 DEF Once

\* Each step keeps a message in one place.
LEMMA OnceStep == IInv /\ Once /\ [Next]_vars => Once'
<1>. SUFFICES ASSUME IInv, Once, [Next]_vars PROVE Once'
  OBVIOUS
<1>0. Marks
  BY DEF IInv
<1>1. ASSUME NEW m \in Messages, Arrive(m) PROVE Once'
  BY <1>0, <1>1, OnceKept DEF Marks, Arrive
<1>2. ASSUME NEW m \in Messages, ConvertFails(m) PROVE Once'
  BY <1>0, <1>2, OnceKept DEF Marks, ConvertFails, At
<1>3. ASSUME NEW m \in Messages, Receive(m) PROVE Once'
  <2>0. m \in Items /\ callback[m] = "converting" /\ UNCHANGED handled
    BY <1>3 DEF Items, Receive
  <2>1. CASE ~Accepts /\ At(m, "dropped") /\ UNCHANGED <<queue, putters>>
    BY <1>0, <2>0, <2>1, OnceKept DEF Marks, At
  <2>2. CASE Accepts /\ ~Full /\ Enqueue(m) /\ At(m, "queued") /\ UNCHANGED putters
    <3>1. Extends(queue', queue, m)
      BY <2>0, <2>2, PutShape DEF IInv
    <3>2. \A n \in Messages : callback'[n] = "queued" => callback[n] = "queued" \/ n = m
      BY <1>0, <2>2 DEF Marks, At
    <3>. QED
      BY <2>0, <3>1, <3>2, OncePut
  <2>3. CASE Accepts /\ Full /\ Park(m) /\ At(m, "parked") /\ UNCHANGED queue
    BY <1>0, <2>0, <2>3, OnceKept DEF Marks, At
  <2>. QED
    BY <1>3, <2>1, <2>2, <2>3 DEF Receive
<1>4. ASSUME NEW m \in Messages, ResumePut(m) PROVE Once'
  <2>0. m \in Items /\ callback[m] = "parked" /\ UNCHANGED handled
    BY <1>4 DEF Items, ResumePut, IInv, Waiting
  <2>1. CASE ~Full /\ Enqueue(m) /\ At(m, "queued") /\ UNCHANGED putters
    <3>1. Extends(queue', queue, m)
      BY <2>0, <2>1, PutShape DEF IInv
    <3>2. \A n \in Messages : callback'[n] = "queued" => callback[n] = "queued" \/ n = m
      BY <1>0, <2>1 DEF Marks, At
    <3>. QED
      BY <2>0, <3>1, <3>2, OncePut
  <2>2. CASE Full /\ Park(m) /\ UNCHANGED <<queue, callback, updating>>
    BY <2>0, <2>2, OnceKept
  <2>. QED
    BY <1>4, <2>1, <2>2 DEF ResumePut
<1>5. CASE WorkerGets
  BY <1>5, OnceGet
<1>6. CASE HandlerReturns \/ HandlerRaises \/ Reconnected \/ Join
  BY <1>6, OnceKept DEF HandlerReturns, HandlerRaises, Reconnected, Join, history
<1>7. CASE ConnectionLost \/ StopTransport
  <2>1. \A n \in Messages : callback'[n] = "queued" => callback[n] = "queued"
    BY <1>7 DEF ConnectionLost, StopTransport, CallbackCancelled, CallbackGoesOn
  <2>. QED
    BY <1>7, <2>1, OnceKept DEF ConnectionLost, StopTransport
<1>8. CASE StopChannel \/ ResumeSentinel
  <2>1. UNCHANGED <<callback, handled>>
    BY <1>8 DEF StopChannel, ResumeSentinel, transport, history
  <2>2. Sentinel \in Items /\ Sentinel \notin Messages
    BY ChannelAssumption DEF Items
  <2>3. CASE PutSentinel
    BY <2>1, <2>2, <2>3, PutShape, OncePut DEF PutSentinel, IInv
  <2>4. CASE UNCHANGED queue
    BY <2>1, <2>4, OnceKept
  <2>. QED
    BY <1>8, <2>3, <2>4 DEF StopChannel, ResumeSentinel
<1>9. CASE UNCHANGED vars
  BY <1>9, OnceKept DEF vars
<1>. QED
  BY <1>1, <1>2, <1>3, <1>4, <1>5, <1>6, <1>7, <1>8, <1>9
  DEF Next, CallbackStep, WorkerStep, StopChannelStep
\* A message keeps its place unless its callback or the handler moves it.
LEMMA PlaceKept ==
    ASSUME UNCHANGED handled,
           \A m \in Messages :
              \/ callback'[m] = callback[m]
              \/ {callback[m], callback'[m]} \subseteq {"none", "converting"}
    PROVE  Place' = Place
  BY DEF Place

\* A callback under way moves its message.
LEMMA PlaceMoved ==
    ASSUME IInv, UNCHANGED handled,
           NEW m \in Messages, NEW to \in {"parked", "queued", "dropped"},
           callback[m] \in {"converting", "parked"},
           callback' = [callback EXCEPT ![m] = to]
    PROVE  /\ Place[m] = IF callback[m] = "parked" THEN "parked" ELSE "new"
           /\ Place' = [Place EXCEPT ![m] = to]
<1>1. m \notin ToSet(handled)
  BY DEF IInv, Passed, ToSet
<1>2. callback \in [Messages -> {"none", "converting", "parked", "queued", "dropped"}]
  BY DEF IInv, Marks
<1>3. \A n \in Messages : Place'[n] = IF n = m THEN to ELSE Place[n]
  BY <1>1, <1>2 DEF Place
<1>. QED
  BY <1>1, <1>2, <1>3 DEF Place

\* A connection that ends loses the message of its callback at most.
LEMMA LossMaps ==
    ASSUME IInv, CallbackCancelled, UNCHANGED <<handled, worker, atStop>>, Stage' = Stage
    PROVE  [Promise!Next]_(Promise!vars)
<1>1. CASE updating = {}
  <2>1. Place' = Place
    BY <1>1, PlaceKept DEF IInv, Marks, CallbackCancelled
  <2>. QED
    BY <2>1 DEF Promise!vars
<1>2. ASSUME NEW m \in updating PROVE Promise!Next
  <2>1. m \in Messages /\ updating = {m} /\ callback[m] \in {"converting", "parked"}
    BY <1>2 DEF IInv, Marks, Dispatched
  <2>2. callback' = [callback EXCEPT ![m] = "dropped"]
    BY <2>1 DEF IInv, Marks, CallbackCancelled
  <2>3. Place[m] \in {"new", "parked"} /\ Place' = [Place EXCEPT ![m] = "dropped"]
    BY <2>1, <2>2, PlaceMoved
  <2>4. Promise!Move(m, {"new", "parked"}, "dropped")
    BY <2>3 DEF Promise!Move
  <2>5. Promise!Lose(m)
    BY <2>4 DEF Promise!Lose
  <2>. QED
    BY <2>1, <2>5 DEF Promise!Next
<1>. QED
  BY <1>1, <1>2

\* The callback of a message accepts it, gives it up, or lets it wait.
LEMMA CallbackMaps ==
    ASSUME IInv, NEW m \in Messages, CallbackStep(m)
    PROVE  [Promise!Next]_(Promise!vars)
<1>1. /\ UNCHANGED <<handled, worker, atStop, accepting, stopping>> /\ Stage' = Stage
  BY DEF CallbackStep, ConvertFails, Receive, ResumePut, history, Stage
<1>2. CASE At(m, "dropped") /\ callback[m] = "converting"
  <2>1. Promise!Move(m, {"new", "parked"}, "dropped")
    BY <1>1, <1>2, PlaceMoved DEF At, Promise!Move
  <2>2. Promise!Lose(m)
    BY <1>1, <2>1 DEF Promise!Lose
  <2>. QED
    BY <2>2 DEF Promise!Next
<1>3. ASSUME NEW to \in {"queued", "parked"}, At(m, to), callback[m] = "converting", accepting
      PROVE  Promise!Next
  <2>1. Promise!Move(m, {"new"}, to)
    BY <1>1, <1>3, PlaceMoved DEF At, Promise!Move
  <2>2. Promise!Accept(m)
    BY <1>1, <1>3, <2>1 DEF Promise!Accept, Stage
  <2>. QED
    BY <2>2 DEF Promise!Next
<1>4. CASE At(m, "queued") /\ callback[m] = "parked"
  <2>1. Promise!Move(m, {"parked"}, "queued")
    BY <1>1, <1>4, PlaceMoved DEF At, Promise!Move
  <2>2. Promise!Queue(m)
    BY <1>1, <2>1 DEF Promise!Queue
  <2>. QED
    BY <2>2 DEF Promise!Next
<1>5. CASE UNCHANGED callback
  BY <1>1, <1>5, PlaceKept DEF Promise!vars
<1>6. m \in woken => callback[m] = "parked"
  BY DEF IInv, Waiting
<1>. QED
  BY <1>2, <1>3, <1>4, <1>5, <1>6
  DEF CallbackStep, ConvertFails, Receive, ResumePut, Accepts

\* The worker begins the first message of the queue, ends, or ends with it.
LEMMA WorkerMaps ==
    ASSUME IInv, Once, WorkerStep
    PROVE  [Promise!Next]_(Promise!vars)
<1>1. UNCHANGED <<callback, atStop, accepting, stopping>> /\ Stage' = Stage
  BY DEF WorkerStep, WorkerGets, HandlerReturns, HandlerRaises, history, Stage
<1>2. Idle \notin Messages /\ Ended \notin Messages /\ Sentinel \notin Messages
  BY ChannelAssumption DEF Items
<1>3. CASE WorkerGets
  <2>1. /\ worker = Idle
        /\ \/ queue[1] = Sentinel /\ worker' = Ended /\ UNCHANGED handled
           \/ /\ queue[1] \in Messages /\ worker' = queue[1]
              /\ Extends(handled', handled, queue[1])
    BY <1>3, GetShape DEF IInv, WorkerGets, Items
  <2>2. CASE worker' = Ended /\ UNCHANGED handled
    <3>1. Place' = Place
      BY <1>1, <2>2, PlaceKept
    <3>. QED
      BY <1>1, <1>2, <2>1, <2>2, <3>1 DEF Promise!vars
  <2>3. CASE /\ queue[1] \in Messages /\ worker' = queue[1]
             /\ Extends(handled', handled, queue[1])
    <3>. DEFINE m == queue[1]
    <3>1. Queued(m)
      BY <1>3, GetShape DEF IInv, Queued, Follows
    <3>2. callback[m] = "queued" /\ ~Given(m)
      BY <1>2, <2>3, <3>1 DEF IInv, Passed, Once, Queued
    <3>3. \A n \in Messages : n \in ToSet(handled') <=> n \in ToSet(handled) \/ n = m
      BY <2>3 DEF ToSet, Extends
    <3>4. Place[m] = "queued"
      BY <2>3, <3>2 DEF Place, Given, ToSet
    <3>5. Place' = [Place EXCEPT ![m] = "handled"]
      BY <1>1, <2>3, <3>3 DEF Place
    <3>6. Promise!Move(m, {"queued"}, "handled")
      BY <3>4, <3>5 DEF Promise!Move
    <3>7. Stage # "stopped"
      BY <2>1 DEF IInv, Stopping, Stage, Idle, Ended
    <3>8. {worker} \cap Messages = {} /\ {worker'} \cap Messages = {m}
      BY <1>2, <2>1, <2>3
    <3>9. Promise!Handle(m)
      BY <1>1, <3>6, <3>7, <3>8 DEF Promise!Handle
    <3>. QED
      BY <2>3, <3>9 DEF Promise!Next
  <2>. QED
    BY <2>1, <2>2, <2>3
<1>4. CASE HandlerReturns \/ HandlerRaises
  <2>1. worker \in Messages /\ worker' = Idle /\ UNCHANGED handled
    BY <1>4 DEF HandlerReturns, HandlerRaises, AfterFailure
  <2>2. Place' = Place
    BY <1>1, <2>1, PlaceKept
  <2>3. {worker} \cap Messages # {} /\ {worker'} \cap Messages = {}
    BY <1>2, <2>1
  <2>4. Promise!Handled
    BY <1>1, <2>2, <2>3 DEF Promise!Handled
  <2>. QED
    BY <2>4 DEF Promise!Next
<1>. QED
  BY <1>3, <1>4 DEF WorkerStep

\* Each step is one of the contract, or the runtime does not see it.
LEMMA StepMaps == IInv /\ Once /\ [Next]_vars => [Promise!Next]_(Promise!vars)
<1>. SUFFICES ASSUME IInv, Once, [Next]_vars PROVE [Promise!Next]_(Promise!vars)
  OBVIOUS
<1>1. ASSUME NEW m \in Messages, Arrive(m) PROVE [Promise!Next]_(Promise!vars)
  <2>1. /\ UNCHANGED <<handled, worker, atStop, accepting, stopping>>
        /\ \A n \in Messages :
              \/ callback'[n] = callback[n]
              \/ {callback[n], callback'[n]} \subseteq {"none", "converting"}
    BY <1>1 DEF IInv, Marks, Arrive
  <2>2. Place' = Place
    BY <2>1, PlaceKept
  <2>. QED
    BY <2>1, <2>2 DEF Promise!vars, Stage
<1>2. CASE ConnectionLost \/ StopTransport
  <2>1. /\ UNCHANGED <<handled, worker, atStop, accepting>>
        /\ UNCHANGED stopping \/ accepting
    BY <1>2 DEF IInv, Stopping, ConnectionLost, StopTransport
  <2>2. Stage' = Stage
    BY <2>1 DEF Stage
  <2>3. CASE CallbackCancelled
    BY <2>1, <2>2, <2>3, LossMaps
  <2>4. CASE CallbackGoesOn
    <3>1. Place' = Place
      BY <2>1, <2>4, PlaceKept DEF CallbackGoesOn
    <3>. QED
      BY <2>1, <2>2, <3>1 DEF Promise!vars
  <2>. QED
    BY <1>2, <2>3, <2>4 DEF ConnectionLost, StopTransport
<1>3. CASE StopChannel
  <2>1. /\ accepting /\ ~accepting' /\ stopping' # "done"
        /\ UNCHANGED <<callback, handled, worker>>
        /\ atStop'.queued = ToSet(queue)
    BY <1>3 DEF IInv, Stopping, StopChannel, transport
  <2>2. Place' = Place
    BY <2>1, PlaceKept
  <2>3. \A m \in Messages : Place[m] = "queued" <=> m \in ToSet(queue)
    <3>. SUFFICES ASSUME NEW m \in Messages
                  PROVE  Place[m] = "queued" <=> m \in ToSet(queue)
      OBVIOUS
    <3>1. m \in ToSet(queue) <=> Queued(m)
      BY DEF ToSet, Queued
    <3>2. m \in ToSet(handled) <=> Given(m)
      BY DEF ToSet, Given
    <3>3. Place[m] = "queued" <=> ~Given(m) /\ callback[m] = "queued"
      BY <3>2 DEF Place
    <3>4. Queued(m) => callback[m] = "queued"
      BY ChannelAssumption DEF Queued, IInv, Passed
    <3>. QED
      BY <3>1, <3>3, <3>4 DEF Once
  <2>4. ToSet(queue) \subseteq Messages
    BY <2>1 DEF IInv, Lines, Stopping, Items, ToSet
  <2>5. atStop'.queued = {m \in Messages : Place[m] = "queued"}
    BY <2>1, <2>3, <2>4
  <2>6. Stage = "open" /\ Stage' = "draining"
    BY <2>1 DEF Stage
  <2>7. Promise!Stop
    BY <2>1, <2>2, <2>5, <2>6 DEF Promise!Stop
  <2>. QED
    BY <2>7 DEF Promise!Next
<1>4. CASE ResumeSentinel \/ Reconnected
  <2>1. /\ UNCHANGED <<callback, handled, worker, atStop, accepting>>
        /\ stopping' = stopping \/ {stopping, stopping'} \subseteq {"putting", "joining"}
    BY <1>4 DEF IInv, Stopping, ResumeSentinel, Reconnected, transport, history
  <2>2. Place' = Place
    BY <2>1, PlaceKept
  <2>. QED
    BY <2>1, <2>2 DEF Promise!vars, Stage
<1>5. CASE Join
  <2>1. /\ stopping = "joining" /\ stopping' = "done" /\ worker = Ended
        /\ UNCHANGED <<callback, handled, worker, atStop, accepting>>
    BY <1>5 DEF Join, WorkerOver, history
  <2>2. Place' = Place
    BY <2>1, PlaceKept
  <2>3. ~accepting /\ Stage = "draining" /\ Stage' = "stopped"
    BY <2>1 DEF IInv, Stopping, Stage
  <2>4. {worker} \cap Messages = {}
    BY <2>1, ChannelAssumption DEF Items
  <2>5. \A m \in atStop.queued : Place[m] = "handled"
    BY <2>1, <2>3 DEF IInv, Marks, Draining, Given, ToSet, Place
  <2>6. Promise!Stopped
    BY <2>1, <2>2, <2>3, <2>4, <2>5 DEF Promise!Stopped
  <2>. QED
    BY <2>6 DEF Promise!Next
<1>6. CASE UNCHANGED vars
  <2>1. Place' = Place
    BY <1>6, PlaceKept DEF vars
  <2>. QED
    BY <1>6, <2>1 DEF Promise!vars, vars, Stage, history
<1>. QED
  BY <1>1, <1>2, <1>3, <1>4, <1>5, <1>6, CallbackMaps, WorkerMaps
  DEF Next, StopChannelStep

\* For all messages and every capacity the channel keeps its promise to the
\* runtime: no message is handled twice, stop() returns only when what was queued
\* has been handled, and from then on no handler runs or starts.
THEOREM KeepsPromise == Spec => RefinesPromise
<1>1. Init => Once /\ Promise!Init
  BY ChannelAssumption
  DEF Init, Once, Given, Queued, Promise!Init, Place, Stage, ToSet, Idle, Items
<1>2. Spec => []Once
  BY <1>1, Invariance, OnceStep, PTL DEF Spec
<1>. QED
  BY <1>1, <1>2, Invariance, StepMaps, PTL DEF Spec, RefinesPromise, Promise!Spec

=============================================================================
