-------------------------- MODULE Commands_proofs ---------------------------
(***************************************************************************)
(* Proofs about Commands, for any sidecars, windows, queue capacity,       *)
(* requests and number of faults.                                          *)
(***************************************************************************)
EXTENDS Commands, FiniteSetTheorems, TLAPS

-----------------------------------------------------------------------------
(***************************************************************************)
(* The event streams: what each operation of the broker and of the /events *)
(* response preserves, for events of any kinds                             *)
(***************************************************************************)
LogsOf(AnyEvents) == [ Sidecars -> Seq(AnyEvents) ]

(* The inductive invariant: a queue that is in order, with an account of   *)
(* everything published, is a queue of positions in the log.               *)
StreamsInv(AnyEvents) ==
  /\ published \in LogsOf(AnyEvents)
  /\ stream \in [ Clients -> StreamType ]
  /\ StreamsOrdered

-----------------------------------------------------------------------------
LEMMA ClosedType == Closed \in StreamType /\ ~ Closed.open
<1>1. (CHOOSE s \in Sidecars : TRUE) \in Sidecars
  BY SidecarsAssumption
<1> QED
  BY <1>1 DEF Closed, Subscription, StreamType, ReaderStates

(* Before the first event there is nothing to order. *)
LEMMA StreamInitInv ==
  ASSUME NEW AnyEvents, StreamInit
  PROVE  StreamsInv(AnyEvents)
BY ClosedType DEF StreamInit, StreamsInv, LogsOf, StreamsOrdered

(* A new subscription starts where the log is. *)
LEMMA SubscriptionType ==
  ASSUME NEW s \in Sidecars, NEW n \in Nat
  PROVE  /\ Subscription(s, n, TRUE) \in StreamType
         /\ SubscriptionOrdered(Subscription(s, n, TRUE), n)
BY CapacityAssumption
   DEF Subscription, StreamType, ReaderStates, SubscriptionOrdered, InHand

LEMMA Numbers ==
  ASSUME NEW sub \in StreamType
  PROVE  /\ sub.first \in Nat /\ sub.last \in Nat /\ sub.held \in Nat
         /\ sub.delivered \in Nat /\ sub.dropped \in Nat /\ InHand(sub) \in Nat
         /\ sub.queue \in Seq(Nat) /\ Len(sub.queue) \in Nat
         /\ sub.reader \in ReaderStates /\ sub.to \in Sidecars
         /\ sub.open \in BOOLEAN
BY DEF StreamType, InHand

(* A queue with the newest event at its end, whatever it dropped. *)
LEMMA OneMore ==
  ASSUME NEW sub \in StreamType, NEW new \in StreamType, NEW n \in Nat,
         SubscriptionOrdered(sub, n),
         new.first = sub.first, new.last = sub.last, new.held = sub.held,
         new.reader = sub.reader, new.delivered = sub.delivered,
         Len(new.queue) <= Capacity, Len(new.queue) <= Len(sub.queue) + 1,
         \A i \in 1 .. Len(new.queue) : new.queue[i] = (n + 1) - Len(new.queue) + i,
         Len(new.queue) + new.dropped = Len(sub.queue) + sub.dropped + 1
  PROVE  SubscriptionOrdered(new, n + 1)
<1>1. InHand(new) = InHand(sub)
  BY DEF InHand
<1>2. /\ sub.first <= sub.last /\ sub.last <= sub.held
      /\ sub.held + Len(sub.queue) <= n
      /\ sub.reader = "holding" => sub.last < sub.held
      /\ sub.reader # "holding" => sub.last = sub.held
      /\ sub.first + sub.delivered + InHand(sub) + Len(sub.queue)
           + sub.dropped = n
  BY DEF SubscriptionOrdered
<1>3. /\ sub.first \in Nat /\ sub.last \in Nat /\ sub.held \in Nat
      /\ sub.delivered \in Nat /\ sub.dropped \in Nat /\ InHand(sub) \in Nat
      /\ Len(sub.queue) \in Nat /\ Len(new.queue) \in Nat /\ new.dropped \in Nat
  BY Numbers
<1>4. new.held + Len(new.queue) <= n + 1
  <2> DEFINE h == sub.held   d == Len(sub.queue)   f == Len(new.queue)
  <2>1. /\ h \in Nat /\ d \in Nat /\ f \in Nat /\ h + d <= n /\ f <= d + 1
    BY <1>2, <1>3
  <2>2. h + f <= n + 1
    <3> HIDE DEF h, d, f
    <3> QED
      BY <2>1
  <2> QED
    BY <2>2
<1>5. new.first + new.delivered + InHand(new) + Len(new.queue) + new.dropped
        = n + 1
  <2> DEFINE a == sub.first          b == sub.delivered
             c == InHand(sub)        d == Len(sub.queue)
             e == sub.dropped        f == Len(new.queue)
             g == new.dropped
  <2>1. /\ a \in Nat /\ b \in Nat /\ c \in Nat /\ d \in Nat /\ e \in Nat
        /\ f \in Nat /\ g \in Nat
        /\ a + b + c + d + e = n /\ f + g = d + e + 1
    BY <1>2, <1>3
  <2>2. a + b + c + f + g = n + 1
    <3> HIDE DEF a, b, c, d, e, f, g
    <3> QED
      BY <2>1
  <2> QED
    BY <1>1, <2>2
<1>6. /\ new.first <= new.last /\ new.last <= new.held
      /\ new.reader = "holding" => new.last < new.held
      /\ new.reader # "holding" => new.last = new.held
  BY <1>2
<1> QED
  BY <1>4, <1>5, <1>6 DEF SubscriptionOrdered

(* An event more in the log, and in the queue. *)
LEMMA PutOrdered ==
  ASSUME NEW sub \in StreamType, NEW n \in Nat, SubscriptionOrdered(sub, n)
  PROVE  /\ Put(sub, n + 1) \in StreamType
         /\ Put(sub, n + 1).to = sub.to /\ Put(sub, n + 1).open = sub.open
         /\ SubscriptionOrdered(Put(sub, n + 1), n + 1)
<1> DEFINE q == sub.queue
           new == Put(sub, n + 1)
<1>0. Capacity \in Nat \ {0}
  BY CapacityAssumption
<1>1. q \in Seq(Nat) /\ Len(q) \in Nat
  BY Numbers
<1>2. \A i \in 1 .. Len(q) : q[i] = n - Len(q) + i
  BY DEF SubscriptionOrdered
<1>3. CASE Len(q) = Capacity
  <2> DEFINE full == Append(Tail(q), n + 1)
  <2>1. new = [ sub EXCEPT !.queue = full, !.dropped = sub.dropped + 1 ]
    BY <1>3 DEF Put
  <2>2. /\ Tail(q) \in Seq(Nat) /\ Len(Tail(q)) = Len(q) - 1
        /\ \A i \in 1 .. Len(q) - 1 : Tail(q)[i] = q[i + 1]
    BY <1>0, <1>1, <1>3
  <2>3. /\ full \in Seq(Nat) /\ Len(full) = Len(q)
        /\ \A i \in 1 .. Len(q) - 1 : full[i] = q[i + 1]
        /\ full[Len(q)] = n + 1
    BY <1>0, <1>1, <1>3, <2>2
  <2>4. ASSUME NEW i \in 1 .. Len(full)
        PROVE  full[i] = (n + 1) - Len(full) + i
    <3> HIDE DEF q, full
    <3>1. CASE i = Len(q)
      BY <1>1, <2>3, <3>1
    <3>2. CASE i # Len(q)
      <4>1. i \in 1 .. Len(q) - 1 /\ i + 1 \in 1 .. Len(q)
        BY <1>1, <2>3, <3>2
      <4>2. full[i] = n - Len(q) + (i + 1)
        BY <1>2, <2>3, <4>1
      <4> QED
        BY <1>1, <2>3, <4>1, <4>2
    <3> QED
      BY <3>1, <3>2
  <2> HIDE DEF q, full, new
  <2>5. sub.dropped + 1 \in Nat
    BY Numbers
  <2>6. /\ new \in StreamType
        /\ new.queue = full /\ new.dropped = sub.dropped + 1
        /\ new.to = sub.to /\ new.open = sub.open /\ new.first = sub.first
        /\ new.last = sub.last /\ new.held = sub.held
        /\ new.reader = sub.reader /\ new.delivered = sub.delivered
        /\ InHand(new) = InHand(sub)
    BY <2>1, <2>3, <2>5 DEF StreamType, InHand
  <2>7. SubscriptionOrdered(new, n + 1)
    <3>1. Len(new.queue) + new.dropped = Len(sub.queue) + sub.dropped + 1
      <4>1. Len(new.queue) = Len(q) /\ new.dropped = sub.dropped + 1
        BY <2>3, <2>6
      <4>2. Len(sub.queue) = Len(q)
        BY DEF q
      <4>3. Len(q) \in Nat /\ sub.dropped \in Nat
        BY <1>1, Numbers
      <4> QED
        BY <4>1, <4>2, <4>3
    <3>2. Len(new.queue) <= Capacity /\ Len(new.queue) <= Len(sub.queue) + 1
      BY <1>0, <1>1, <1>3, <2>3, <2>6 DEF q
    <3> QED
      BY <2>4, <2>6, <3>1, <3>2, OneMore
  <2> QED
    BY <2>6, <2>7 DEF new
<1>4. CASE Len(q) # Capacity
  <2> DEFINE longer == Append(q, n + 1)
  <2>1. new = [ sub EXCEPT !.queue = longer, !.dropped = sub.dropped ]
    BY <1>4 DEF Put, StreamType
  <2>2. /\ longer \in Seq(Nat) /\ Len(longer) = Len(q) + 1
        /\ \A i \in 1 .. Len(q) : longer[i] = q[i]
        /\ longer[Len(q) + 1] = n + 1
    BY <1>1
  <2>3. ASSUME NEW i \in 1 .. Len(longer)
        PROVE  longer[i] = (n + 1) - Len(longer) + i
    <3> HIDE DEF q, longer
    <3>1. CASE i = Len(q) + 1
      BY <1>1, <2>2, <3>1
    <3>2. CASE i # Len(q) + 1
      <4>1. i \in 1 .. Len(q)
        BY <1>1, <2>2, <3>2
      <4> QED
        BY <1>1, <1>2, <2>2, <4>1
    <3> QED
      BY <3>1, <3>2
  <2> HIDE DEF q, longer, new
  <2>4. /\ new \in StreamType
        /\ new.queue = longer /\ new.dropped = sub.dropped
        /\ new.to = sub.to /\ new.open = sub.open /\ new.first = sub.first
        /\ new.last = sub.last /\ new.held = sub.held
        /\ new.reader = sub.reader /\ new.delivered = sub.delivered
        /\ InHand(new) = InHand(sub)
    BY <2>1, <2>2, Numbers DEF StreamType, InHand
  <2>5. SubscriptionOrdered(new, n + 1)
    <3>1. Len(new.queue) + new.dropped = Len(sub.queue) + sub.dropped + 1
      <4> DEFINE d == Len(q)   e == sub.dropped   f == Len(longer)
      <4>1. d \in Nat /\ e \in Nat /\ f = d + 1
        BY <1>1, <2>2, Numbers
      <4>2. f + e = d + e + 1
        <5> HIDE DEF d, e, f
        <5> QED
          BY <4>1
      <4> QED
        BY <2>4, <4>2 DEF q
    <3>2. Len(new.queue) <= Capacity /\ Len(new.queue) <= Len(sub.queue) + 1
      BY <1>0, <1>1, <1>4, <2>2, <2>4 DEF q, SubscriptionOrdered
    <3> QED
      BY <2>3, <2>4, <3>1, <3>2, OneMore
  <2> QED
    BY <2>4, <2>5 DEF new
<1> QED
  BY <1>3, <1>4

-----------------------------------------------------------------------------
(***************************************************************************)
(* Every operation                                                         *)
(***************************************************************************)
LEMMA UnchangedStreams ==
  ASSUME NEW AnyEvents, StreamsInv(AnyEvents), UNCHANGED streamVars
  PROVE  StreamsInv(AnyEvents)'
BY DEF StreamsInv, LogsOf, streamVars, StreamsOrdered, SubscriptionOrdered, InHand

(* Publishing puts one event into the log and into every open queue. *)
LEMMA PublishInv ==
  ASSUME NEW AnyEvents, StreamsInv(AnyEvents), NEW s \in Sidecars,
         NEW event \in AnyEvents, Publish(s, event)
  PROVE  StreamsInv(AnyEvents)'
<1> DEFINE n == Len(published[s])
<1>1. published[s] \in Seq(AnyEvents) /\ n \in Nat
  BY DEF StreamsInv, LogsOf
<1>2. /\ published' \in LogsOf(AnyEvents)
      /\ Len(published'[s]) = n + 1
      /\ \A t \in Sidecars : t # s => published'[t] = published[t]
  BY <1>1 DEF Publish, StreamsInv, LogsOf
<1>3. ASSUME NEW c \in Clients
      PROVE  /\ stream'[c] \in StreamType
             /\ stream'[c].open =>
                  SubscriptionOrdered(stream'[c], Len(published'[stream'[c].to]))
  <2>1. stream[c] \in StreamType /\ stream[c].to \in Sidecars
    BY Numbers DEF StreamsInv
  <2>2. CASE Listens(c, s)
    <3>1. stream'[c] = Put(stream[c], n + 1)
      BY <2>2 DEF Publish
    <3>2. SubscriptionOrdered(stream[c], n) /\ stream[c].to = s
      BY <2>2 DEF StreamsInv, StreamsOrdered, Listens
    <3>3. /\ Put(stream[c], n + 1) \in StreamType
          /\ Put(stream[c], n + 1).to = s
          /\ SubscriptionOrdered(Put(stream[c], n + 1), n + 1)
      BY <1>1, <2>1, <3>2, PutOrdered
    <3> QED
      BY <1>2, <3>1, <3>3
  <2>3. CASE ~ Listens(c, s)
    <3>1. stream'[c] = stream[c]
      BY <2>3 DEF Publish
    <3>2. stream[c].open => published'[stream[c].to] = published[stream[c].to]
      BY <1>2, <2>1, <2>3 DEF Listens
    <3> QED
      BY <2>1, <3>1, <3>2 DEF StreamsInv, StreamsOrdered
  <2> QED
    BY <2>2, <2>3
<1>4. stream' \in [ Clients -> StreamType ]
  BY <1>3 DEF Publish
<1> QED
  BY <1>2, <1>3, <1>4 DEF StreamsInv, StreamsOrdered

(* One client's stream becomes another one, of the same log. *)
LEMMA OneStream ==
  ASSUME NEW AnyEvents, StreamsInv(AnyEvents), NEW c \in Clients,
         NEW sub \in StreamType, UNCHANGED published,
         stream' = [ stream EXCEPT ![c] = sub ],
         sub.open => SubscriptionOrdered(sub, Len(published[sub.to]))
  PROVE  StreamsInv(AnyEvents)'
<1>1. published' = published /\ stream' \in [ Clients -> StreamType ]
  BY DEF StreamsInv
<1>2. ASSUME NEW d \in Clients, stream'[d].open
      PROVE  SubscriptionOrdered(stream'[d], Len(published'[stream'[d].to]))
  <2>1. CASE d = c
    <3>1. stream'[d] = sub
      BY <2>1 DEF StreamsInv
    <3> QED
      BY <1>1, <1>2, <3>1
  <2>2. CASE d # c
    <3>1. stream'[d] = stream[d]
      BY <2>2 DEF StreamsInv
    <3> QED
      BY <1>1, <1>2, <3>1 DEF StreamsInv, StreamsOrdered
  <2> QED
    BY <2>1, <2>2
<1> QED
  BY <1>1, <1>2 DEF StreamsInv, StreamsOrdered, LogsOf

(* A new stream starts behind the last event of the log. *)
LEMMA ConnectInv ==
  ASSUME NEW AnyEvents, StreamsInv(AnyEvents), NEW c \in Clients, NEW s \in Sidecars,
         Connect(c, s)
  PROVE  StreamsInv(AnyEvents)'
<1> DEFINE n == Len(published[s])   sub == Subscription(s, n, TRUE)
<1>1. n \in Nat
  BY DEF StreamsInv, LogsOf
<1>2. sub \in StreamType /\ SubscriptionOrdered(sub, n)
  BY <1>1, SubscriptionType
<1>3. sub.to = s
  BY DEF Subscription
<1>4. stream' = [ stream EXCEPT ![c] = sub ] /\ UNCHANGED published
  BY DEF Connect
<1> HIDE DEF sub
<1> QED
  BY <1>2, <1>3, <1>4, OneStream

(* The reader takes what is next after the last event it took. *)
LEMMA TakeInv ==
  ASSUME NEW AnyEvents, StreamsInv(AnyEvents), NEW c \in Clients, Take(c)
  PROVE  StreamsInv(AnyEvents)'
<1> DEFINE old == stream[c]
           n == Len(published[old.to])
           sub == [ old EXCEPT !.reader = "holding", !.held = Head(old.queue),
                               !.queue = Tail(old.queue) ]
<1>1. old \in StreamType /\ old.to \in Sidecars
  BY Numbers DEF StreamsInv
<1>2. n \in Nat /\ SubscriptionOrdered(old, n) /\ old.open
  BY <1>1 DEF StreamsInv, LogsOf, StreamsOrdered, Take
<1>3. old.queue # << >> /\ old.reader = "waiting"
  BY DEF Take
<1>4. stream' = [ stream EXCEPT ![c] = sub ] /\ UNCHANGED published
  BY DEF Take, StreamsInv
<1> DEFINE q == old.queue   rest == Tail(q)   k == Len(q)
<1>5. /\ q \in Seq(Nat) /\ k \in Nat /\ k # 0
      /\ Head(q) = q[1] /\ Head(q) \in Nat
      /\ rest \in Seq(Nat) /\ Len(rest) = k - 1
      /\ \A i \in 1 .. k - 1 : rest[i] = q[i + 1]
  BY <1>1, <1>3, Numbers
<1>6. /\ sub \in StreamType /\ sub.to = old.to /\ sub.open = old.open
      /\ sub.queue = rest /\ sub.held = Head(q) /\ sub.reader = "holding"
      /\ sub.first = old.first /\ sub.last = old.last
      /\ sub.delivered = old.delivered /\ sub.dropped = old.dropped
  BY <1>1, <1>5 DEF StreamType, ReaderStates
<1>7. SubscriptionOrdered(sub, n)
  <2>1. /\ old.first \in Nat /\ old.last \in Nat /\ old.held \in Nat
        /\ old.delivered \in Nat /\ old.dropped \in Nat /\ Capacity \in Nat
    BY <1>1, Numbers, CapacityAssumption
  <2>2. /\ k <= Capacity /\ old.first <= old.last /\ old.last = old.held
        /\ old.held + k <= n
        /\ old.first + old.delivered + 0 + k + old.dropped = n
        /\ \A i \in 1 .. k : q[i] = n - k + i
    BY <1>2, <1>3 DEF SubscriptionOrdered, InHand
  <2> DEFINE a == old.first   b == old.last   d == old.delivered
             e == old.dropped h == old.held   x == Head(q)
             r == Len(rest)
  <2>3. x = n - k + 1
    <3>1. 1 \in 1 .. k /\ x = q[1]
      BY <1>5
    <3> HIDE DEF n, k, x, q
    <3> QED
      BY <2>2, <3>1
  <2>4. ASSUME NEW i \in 1 .. r
        PROVE  rest[i] = n - r + i
    <3>1. i \in 1 .. k - 1 /\ i + 1 \in 1 .. k /\ i \in Nat
      BY <1>5
    <3>2. rest[i] = q[i + 1] /\ q[i + 1] = n - k + (i + 1)
      BY <1>5, <2>2, <3>1
    <3>3. r = k - 1 /\ k \in Nat /\ n \in Nat
      BY <1>2, <1>5
    <3>4. n - k + (i + 1) = n - r + i
      <4> HIDE DEF r, k, n
      <4> QED
        BY <3>1, <3>3
    <3> QED
      BY <3>2, <3>4
  <2>5. /\ r <= Capacity /\ a <= b /\ b <= x /\ b < x /\ x + r <= n
        /\ a + d + 1 + r + e = n
    <3>1. r = k - 1 /\ k \in Nat /\ k # 0 /\ n \in Nat /\ x \in Nat
          /\ a \in Nat /\ b \in Nat /\ d \in Nat /\ e \in Nat /\ h \in Nat
          /\ k <= Capacity /\ a <= b /\ b = h /\ h + k <= n
          /\ a + d + 0 + k + e = n
      BY <1>2, <1>5, <2>1, <2>2
    <3> HIDE DEF a, b, d, e, h, x, r, k, n
    <3> QED
      BY <2>1, <2>3, <3>1
  <2>6. InHand(sub) = 1
    BY <1>6 DEF InHand
  <2> HIDE DEF sub, n
  <2> QED
    BY <1>6, <2>4, <2>5, <2>6 DEF SubscriptionOrdered
<1> HIDE DEF sub
<1> QED
  BY <1>4, <1>6, <1>7, OneStream

(* A wait that timed out takes nothing from the queue. *)
LEMMA TimeOutInv ==
  ASSUME NEW AnyEvents, StreamsInv(AnyEvents), NEW c \in Clients, TimeOut(c)
  PROVE  StreamsInv(AnyEvents)'
<1> DEFINE old == stream[c]
           sub == [ old EXCEPT !.reader = "nothing" ]
<1>1. old \in StreamType /\ old.open /\ old.reader = "waiting"
  BY DEF StreamsInv, TimeOut
<1>2. SubscriptionOrdered(old, Len(published[old.to]))
  BY <1>1 DEF StreamsInv, StreamsOrdered
<1>3. stream' = [ stream EXCEPT ![c] = sub ] /\ UNCHANGED published
  BY DEF TimeOut, StreamsInv
<1>4. sub \in StreamType /\ sub.to = old.to
  BY <1>1 DEF StreamType, ReaderStates
<1>5. SubscriptionOrdered(sub, Len(published[old.to]))
  BY <1>1, <1>2 DEF SubscriptionOrdered, InHand, StreamType
<1> HIDE DEF sub
<1> QED
  BY <1>3, <1>4, <1>5, OneStream

(* A reader that resumes hands over the event it holds. *)
LEMMA ResumeInv ==
  ASSUME NEW AnyEvents, StreamsInv(AnyEvents), NEW c \in Clients, Resume(c)
  PROVE  StreamsInv(AnyEvents)'
<1> DEFINE old == stream[c]
           n == Len(published[old.to])
<1>1. old \in StreamType /\ old.open /\ old.to \in Sidecars
  BY Numbers DEF StreamsInv, Resume
<1>2. SubscriptionOrdered(old, n) /\ n \in Nat
  BY <1>1 DEF StreamsInv, StreamsOrdered, LogsOf
<1>3. CASE old.reader = "holding"
  <2> DEFINE sub == [ old EXCEPT !.reader = "waiting", !.last = old.held,
                                 !.delivered = old.delivered + 1 ]
  <2>1. stream' = [ stream EXCEPT ![c] = sub ] /\ UNCHANGED published
    BY <1>3 DEF Resume, StreamsInv
  <2>0. old.delivered + 1 \in Nat /\ old.held \in Nat
    BY <1>1, Numbers
  <2>2. /\ sub \in StreamType /\ sub.to = old.to /\ sub.queue = old.queue
        /\ sub.held = old.held /\ sub.last = old.held /\ sub.first = old.first
        /\ sub.delivered = old.delivered + 1 /\ sub.dropped = old.dropped
        /\ sub.reader = "waiting"
    BY <1>1, <2>0 DEF StreamType, ReaderStates
  <2>3. InHand(old) = 1 /\ InHand(sub) = 0
    BY <1>3, <2>2 DEF InHand
  <2>4. old.first <= old.held
    <3>1. old.first \in Nat /\ old.last \in Nat /\ old.held \in Nat
      BY <1>1, Numbers
    <3> QED
      BY <1>2, <3>1 DEF SubscriptionOrdered
  <2>5. sub.first + sub.delivered + 0 + Len(sub.queue) + sub.dropped = n
    <3> DEFINE a == old.first   d == old.delivered   k == Len(old.queue)
               e == old.dropped
    <3>1. /\ a \in Nat /\ d \in Nat /\ k \in Nat /\ e \in Nat
          /\ a + d + 1 + k + e = n
      BY <1>1, <1>2, <2>3, Numbers DEF SubscriptionOrdered
    <3>2. a + (d + 1) + 0 + k + e = n
      <4> HIDE DEF a, d, k, e, n
      <4> QED
        BY <1>2, <3>1
    <3> QED
      BY <2>2, <3>2
  <2>6. SubscriptionOrdered(sub, n)
    <3>1. old.held \in Nat /\ old.held <= old.held
      BY <1>1, Numbers
    <3> HIDE DEF sub, n
    <3> QED
      BY <1>2, <2>2, <2>3, <2>4, <2>5, <3>1 DEF SubscriptionOrdered
  <2> HIDE DEF sub
  <2> QED
    BY <2>1, <2>2, <2>6, OneStream
<1>4. CASE old.reader # "holding"
  <2> DEFINE sub == [ old EXCEPT !.reader = "waiting" ]
  <2>1. stream' = [ stream EXCEPT ![c] = sub ] /\ UNCHANGED published
    BY <1>4 DEF Resume, StreamsInv
  <2>2. sub \in StreamType /\ sub.to = old.to
    BY <1>1 DEF StreamType, ReaderStates
  <2>3. SubscriptionOrdered(sub, n)
    BY <1>1, <1>2, <1>4 DEF SubscriptionOrdered, InHand, StreamType
  <2> HIDE DEF sub
  <2> QED
    BY <2>1, <2>2, <2>3, OneStream
<1> QED
  BY <1>3, <1>4

(* A stream that ends is closed. *)
LEMMA LeaveInv ==
  ASSUME NEW AnyEvents, StreamsInv(AnyEvents), NEW c \in Clients, Leave(c)
  PROVE  StreamsInv(AnyEvents)'
BY ClosedType, OneStream DEF Leave

(* A process that dies closes its streams. *)
LEMMA HangupInv ==
  ASSUME NEW AnyEvents, StreamsInv(AnyEvents), NEW s \in Sidecars, Hangup(s)
  PROVE  StreamsInv(AnyEvents)'
<1>1. published' = published
  BY DEF Hangup
<1>2. \A c \in Clients : stream'[c] = Closed \/ stream'[c] = stream[c]
  BY DEF Hangup
<1>3. stream' \in [ Clients -> StreamType ]
  BY ClosedType DEF Hangup, StreamsInv
<1> QED
  BY <1>1, <1>2, <1>3, ClosedType DEF StreamsInv, StreamsOrdered, LogsOf

-----------------------------------------------------------------------------
(***************************************************************************)
(* Jobs                                                                    *)
(***************************************************************************)
Events == [ by : Nat, kind : EventNames \X Nat ]

JobFields ==
  { "step", "request", "id", "existing", "code", "todo", "seen", "loaded" }

(* The steps that only analyze_report comes to *)
PipelineSteps ==
  { "read", "extract", "exists", "find", "enrich", "score", "insert",
    "resolve", "reload", "timeline" }

(* A job's request was accepted, its step is one of that command's, and a  *)
(* report is exported of an investigation that was there.                  *)
JobOK(j, top) ==
  /\ JobFields \subseteq DOMAIN j
  /\ j.step \in Steps
  /\ j.loaded \in [ SettingNames -> SettingValues ]
  /\ \/ j.request.name = "none"
     \/ /\ j.request \in Sent
        /\ Verdict(j.request.name, j.request.payload) = "accepted"
  /\ j.step \in PipelineSteps => j.request.name = "analyze_report"
  /\ j.step = "save" => j.request.name = "save_settings"
  /\ j.step \in { "render", "replace" } => j.id \in 1 .. top

JobsInv ==
  /\ lastId \in Nat
  /\ DOMAIN job = Sidecars
  /\ \A s \in Sidecars : JobOK(job[s], lastId)
  /\ inbox \in [ Sidecars -> Seq(Sent) ]
  /\ settings \in SettingsContents

LEMMA DefaultsType == Defaults \in [ SettingNames -> SettingValues ]
BY DefaultAssumption DEF Defaults

LEMMA IdleOK ==
  ASSUME NEW top \in Nat
  PROVE  JobOK(Idle, top) /\ JobOK(Down, top)
BY DefaultsType DEF JobOK, JobFields, Idle, Down, Steps, PipelineSteps

(* One sidecar's job becomes another one. *)
LEMMA JobsKept ==
  ASSUME JobsInv, NEW s \in Sidecars, NEW j,
         job' = [ job EXCEPT ![s] = j ], JobOK(j, lastId'),
         lastId' \in Nat, lastId <= lastId',
         inbox' \in [ Sidecars -> Seq(Sent) ], settings' \in SettingsContents
  PROVE  JobsInv'
<1>1. DOMAIN job' = Sidecars /\ job'[s] = j
      /\ \A t \in Sidecars : t # s => job'[t] = job[t]
  BY DEF JobsInv
<1>2. ASSUME NEW t \in Sidecars PROVE JobOK(job'[t], lastId')
  <2>1. CASE t = s
    BY <1>1, <2>1
  <2>2. CASE t # s
    BY <1>1, <2>2 DEF JobsInv, JobOK
  <2> QED
    BY <2>1, <2>2
<1> QED
  BY <1>1, <1>2 DEF JobsInv, JobOK

(* A job goes on with its request. *)
LEMMA GoesOn ==
  ASSUME NEW j, NEW k, NEW top \in Nat, JobOK(j, top),
         DOMAIN k = DOMAIN j, k.request = j.request,
         k.loaded = j.loaded \/ k.loaded \in [ SettingNames -> SettingValues ],
         k.step \in Steps,
         k.step \in PipelineSteps => j.request.name = "analyze_report",
         k.step = "save" => j.request.name = "save_settings",
         k.step \in { "render", "replace" } => k.id \in 1 .. top
  PROVE  JobOK(k, top)
BY DEF JobOK

-----------------------------------------------------------------------------
(***************************************************************************)
(* What a step may do to a job                                             *)
(***************************************************************************)
(* Other sidecars may add investigations; the file stays a settings file.  *)
Around ==
  /\ lastId' \in Nat /\ lastId <= lastId'
  /\ settings' \in SettingsContents

(* A step that leaves the jobs and the inboxes alone keeps their invariant. *)
LEMMA Stays ==
  ASSUME JobsInv, Around, UNCHANGED << job, inbox >>
  PROVE  JobsInv'
BY DEF JobsInv, JobOK, Around

(* A step that ends one sidecar's job keeps it. *)
LEMMA Ends ==
  ASSUME JobsInv, Around, UNCHANGED inbox, NEW s \in Sidecars,
         job' = [ job EXCEPT ![s] = Idle ]
  PROVE  JobsInv'
BY IdleOK, JobsKept DEF JobsInv, Around

(* A step that takes one job on to a legal place keeps it. *)
LEMMA Continues ==
  ASSUME JobsInv, Around, UNCHANGED inbox, NEW s \in Sidecars, NEW k,
         job' = [ job EXCEPT ![s] = k ],
         DOMAIN k = DOMAIN job[s], k.request = job[s].request,
         k.loaded = job[s].loaded \/ k.loaded \in [ SettingNames -> SettingValues ],
         k.step \in Steps,
         k.step \in PipelineSteps => job[s].request.name = "analyze_report",
         k.step = "save" => job[s].request.name = "save_settings",
         k.step \in { "render", "replace" } => k.id \in 1 .. lastId
  PROVE  JobsInv'
<1>1. JobOK(job[s], lastId)
  BY DEF JobsInv
<1>2. JobOK(k, lastId')
  BY <1>1 DEF JobOK, Around, JobsInv
<1> QED
  BY <1>2, JobsKept DEF JobsInv, Around

(* GoTo is such a step. *)
LEMMA GoesTo ==
  ASSUME JobsInv, Around, UNCHANGED inbox, NEW s \in Sidecars, NEW x \in Steps,
         GoTo(s, x),
         x \in PipelineSteps => job[s].request.name = "analyze_report",
         x = "save" => job[s].request.name = "save_settings",
         x \in { "render", "replace" } => job[s].id \in 1 .. lastId
  PROVE  JobsInv'
<1> DEFINE k == [ job[s] EXCEPT !.step = x ]
<1>1. JobFields \subseteq DOMAIN job[s]
  BY DEF JobsInv, JobOK
<1>2. /\ job' = [ job EXCEPT ![s] = k ] /\ DOMAIN k = DOMAIN job[s]
      /\ k.step = x /\ k.request = job[s].request /\ k.id = job[s].id
      /\ k.loaded = job[s].loaded
  BY <1>1 DEF GoTo, JobFields
<1> HIDE DEF k
<1> QED
  BY <1>2, Continues

(* A step that only comes up in an analysis goes on to another one. *)
LEMMA Analyzing ==
  ASSUME JobsInv, NEW s \in Sidecars, job[s].step \in PipelineSteps
  PROVE  job[s].request.name = "analyze_report"
BY DEF JobsInv, JobOK

(* Taking a request from the inbox keeps the invariant of the jobs. *)
LEMMA AcceptJobs ==
  ASSUME JobsInv, Around, NEW s \in Sidecars, Accept(s)
  PROVE  JobsInv'
<1> DEFINE request == Head(inbox[s])
<1>1. inbox[s] \in Seq(Sent) /\ inbox[s] # << >>
  BY DEF JobsInv, Accept
<1>2. request \in Sent /\ Tail(inbox[s]) \in Seq(Sent)
  BY <1>1
<1>3. inbox' \in [ Sidecars -> Seq(Sent) ]
  BY <1>2 DEF Accept, JobsInv
<1>4. CASE job' = job
  BY <1>3, <1>4 DEF JobsInv, JobOK, Around
<1>5. CASE Verdict(request.name, request.payload) = "accepted" /\ Start(s, request)
  <2> DEFINE j == [ Idle EXCEPT !.request = request,
                                !.step = FirstStep(request.name),
                                !.id = RequestedId(request) ]
  <2>1. job' = [ job EXCEPT ![s] = j ]
    BY <1>5 DEF Start
  <2>2. request.name \in CommandNames
    BY <1>5 DEF Verdict
  <2>3. FirstStep(request.name) \in { "row", "rows", "delete", "load", "begin" }
    BY <2>2 DEF CommandNames, ByIdNames, BareNames, FirstStep, ReadsRow, ReadsRows
  <2> HIDE DEF request
  <2>4. /\ DOMAIN j = DOMAIN Idle /\ j.request = request
        /\ j.step = FirstStep(request.name) /\ j.loaded = Defaults
    BY DEF Idle
  <2>5. JobFields \subseteq DOMAIN j
    BY <2>4 DEF Idle, JobFields
  <2> HIDE DEF j
  <2>6. JobOK(j, lastId')
    BY <1>2, <1>5, <2>3, <2>4, <2>5, DefaultsType
       DEF JobOK, Steps, PipelineSteps
  <2> QED
    BY <1>3, <2>1, <2>6, JobsKept DEF Around
<1> QED
  BY <1>4, <1>5 DEF Accept, Refuse

(* Returning ends the job. *)
LEMMA ReturnJobs ==
  ASSUME JobsInv, Around, NEW s \in Sidecars, Return(s)
  PROVE  JobsInv'
BY Ends DEF Return, ReplyOk, Reply, inboxVars

(* So do the commands that read, list and delete investigations. *)
LEMMA StoreStepJobs ==
  ASSUME JobsInv, Around, NEW s \in Sidecars, StoreStep(s),
         \A row \in rows : row.id \in 1 .. lastId
  PROVE  JobsInv'
<1> USE DEF inboxVars, Reply, ReplySeen, ReplyOk, ReplyError, Breaks, Steps, PipelineSteps
<1>1. CASE ReadRow(s)
  <2>1. UNCHANGED inbox
    BY <1>1 DEF ReadRow
  <2>2. CASE job' = [ job EXCEPT ![s] = Idle ]
    BY <2>1, <2>2, Ends
  <2>3. CASE RowsWithId(job[s].id) # {} /\ GoTo(s, "render")
    <3>1. job[s].id \in 1 .. lastId
      BY <2>3 DEF RowsWithId
    <3> QED
      BY <2>1, <2>3, <3>1, GoesTo
  <2>4. CASE GoTo(s, "entries") \/ GoTo(s, "load")
    BY <2>1, <2>4, GoesTo
  <2> QED
    BY <1>1, <2>2, <2>3, <2>4 DEF ReadRow
<1>2. CASE ReadEntries(s)
  BY <1>2, Ends DEF ReadEntries
<1>3. CASE ReadRows(s)
  <2>1. UNCHANGED inbox
    BY <1>3 DEF ReadRows
  <2>2. CASE job' = [ job EXCEPT ![s] = Idle ]
    BY <2>1, <2>2, Ends
  <2>3. ASSUME NEW seen, NEW x \in { "recent", "open" },
               job' = [ job EXCEPT ![s].seen = seen, ![s].step = x ]
        PROVE  JobsInv'
    <3> DEFINE k == [ job[s] EXCEPT !.seen = seen, !.step = x ]
    <3>1. JobFields \subseteq DOMAIN job[s] /\ DOMAIN job = Sidecars
      BY DEF JobsInv, JobOK
    <3>2. /\ DOMAIN k = DOMAIN job[s]
          /\ k.step = x /\ k.request = job[s].request /\ k.loaded = job[s].loaded
      BY <3>1 DEF JobFields
    <3>3. job' = [ job EXCEPT ![s] = k ]
      BY <2>3, <3>1
    <3> HIDE DEF k
    <3> QED
      BY <2>1, <3>2, <3>3, Continues
  <2> QED
    BY <1>3, <2>2, <2>3 DEF ReadRows
<1>4. CASE ReadRecent(s)
  BY <1>4, Ends DEF ReadRecent
<1>5. CASE DeleteRow(s)
  <2>1. UNCHANGED inbox
    BY <1>5 DEF DeleteRow
  <2>2. CASE job' = [ job EXCEPT ![s] = Idle ]
    BY <2>1, <2>2, Ends
  <2>3. ASSUME NEW found,
               job' = [ job EXCEPT ![s].step = "answer", ![s].existing = found ]
        PROVE  JobsInv'
    <3> DEFINE k == [ job[s] EXCEPT !.step = "answer", !.existing = found ]
    <3>1. JobFields \subseteq DOMAIN job[s] /\ DOMAIN job = Sidecars
      BY DEF JobsInv, JobOK
    <3>2. /\ DOMAIN k = DOMAIN job[s] /\ k.step = "answer"
          /\ k.request = job[s].request /\ k.loaded = job[s].loaded
      BY <3>1 DEF JobFields
    <3>3. job' = [ job EXCEPT ![s] = k ]
      BY <2>3, <3>1
    <3> HIDE DEF k
    <3> QED
      BY <2>1, <3>2, <3>3, Continues
  <2> QED
    BY <1>5, <2>2, <2>3 DEF DeleteRow
<1> QED
  BY <1>1, <1>2, <1>3, <1>4, <1>5 DEF StoreStep

(* A handler that has loaded the settings goes on or answers. *)
LEMMA AfterLoadJobs ==
  ASSUME JobsInv, Around, UNCHANGED inbox, NEW s \in Sidecars,
         NEW values \in [ SettingNames -> SettingValues ], AfterLoad(s, values)
  PROVE  JobsInv'
<1> USE DEF Steps, PipelineSteps
<1>1. CASE /\ Named(s, { "save_settings" })
           /\ job' = [ job EXCEPT ![s].step = "save", ![s].loaded = values ]
  <2> DEFINE k == [ job[s] EXCEPT !.step = "save", !.loaded = values ]
  <2>1. JobFields \subseteq DOMAIN job[s] /\ DOMAIN job = Sidecars
    BY DEF JobsInv, JobOK
  <2>2. /\ DOMAIN k = DOMAIN job[s] /\ k.step = "save"
        /\ k.request = job[s].request /\ k.loaded = values
    BY <2>1 DEF JobFields
  <2>3. job' = [ job EXCEPT ![s] = k ]
    BY <1>1, <2>1
  <2> HIDE DEF k
  <2> QED
    BY <1>1, <2>2, <2>3, Continues DEF Named
<1>2. CASE GoTo(s, "answer") \/ GoTo(s, "lookup")
  BY <1>2, GoesTo
<1>3. CASE Named(s, { "analyze_report" }) /\ GoTo(s, "score")
  BY <1>3, GoesTo DEF Named
<1> QED
  BY <1>1, <1>2, <1>3 DEF AfterLoad, Done

(* What the last loaded or reset file holds *)
LEMMA LoadedType ==
  ASSUME settings \in SettingsContents
  PROVE  LoadedValues \in [ SettingNames -> SettingValues ]
BY DefaultsType
   DEF LoadedValues, Readable, SettingsContents, AbsentFile, GarbledFile, Saved

(* What is saved is what was asked for, among the settings loaded. *)
LEMMA UpdatedType ==
  ASSUME JobsInv, NEW s \in Sidecars, At(s, "save")
  PROVE  Updated(s) \in [ SettingNames -> SettingValues ]
<1> DEFINE request == job[s].request   payload == request.payload
<1>1. /\ request \in Sent /\ request.name = "save_settings"
      /\ Verdict(request.name, payload) = "accepted"
      /\ job[s].loaded \in [ SettingNames -> SettingValues ]
  BY DEF JobsInv, JobOK, At
<1>2. SettingsAccepted(payload)
  BY <1>1 DEF Verdict, Accepted, ByIdNames, BareNames
<1>3. SettingOf(s) \in SettingNames /\ ~ Absent(SettingOf(s), payload)
  BY <1>2 DEF SettingsAccepted, SettingOf, SettingNames, Payload
<1>4. payload[SettingOf(s)][2] \in SettingValues
  BY <1>1, <1>3, SituationsAssumption
<1> QED
  BY <1>1, <1>3, <1>4 DEF Updated, Payload

(* So do the commands about settings, reports and CSV files. *)
LEMMA FileStepJobs ==
  ASSUME JobsInv, Around, NEW s \in Sidecars, FileStep(s)
  PROVE  JobsInv'
<1> USE DEF inboxVars, Reply, ReplySeen, ReplyOk, ReplyError, Breaks, Steps, PipelineSteps
<1>1. CASE LoadSettings(s)
  <2>1. UNCHANGED inbox
    BY <1>1 DEF LoadSettings
  <2>2. CASE AfterLoad(s, LoadedValues)
    BY <2>1, <2>2, LoadedType, AfterLoadJobs DEF JobsInv
  <2>3. CASE GoTo(s, "reset")
    BY <2>1, <2>3, GoesTo
  <2> QED
    BY <1>1, <2>2, <2>3 DEF LoadSettings
<1>2. CASE ResetSettings(s)
  BY <1>2, DefaultsType, AfterLoadJobs DEF ResetSettings
<1>3. CASE SaveSettings(s)
  <2>1. UNCHANGED inbox
    BY <1>3 DEF SaveSettings
  <2>2. CASE GoTo(s, "answer")
    BY <2>1, <2>2, GoesTo
  <2>3. CASE job' = [ job EXCEPT ![s] = Idle ]
    BY <2>1, <2>3, Ends
  <2> QED
    BY <1>3, <2>2, <2>3 DEF SaveSettings, Done
<1>4. CASE RenderReport(s)
  <2>1. UNCHANGED inbox
    BY <1>4 DEF RenderReport
  <2>2. CASE GoTo(s, "replace")
    <3>1. job[s].id \in 1 .. lastId
      BY <1>4 DEF RenderReport, At, JobsInv, JobOK
    <3> QED
      BY <2>1, <2>2, <3>1, GoesTo
  <2>3. CASE job' = [ job EXCEPT ![s] = Idle ]
    BY <2>1, <2>3, Ends
  <2> QED
    BY <1>4, <2>2, <2>3 DEF RenderReport
<1>5. CASE ReplaceReport(s)
  <2>1. UNCHANGED inbox
    BY <1>5 DEF ReplaceReport
  <2>2. CASE GoTo(s, "record")
    BY <2>1, <2>2, GoesTo
  <2>3. CASE job' = [ job EXCEPT ![s] = Idle ]
    BY <2>1, <2>3, Ends
  <2> QED
    BY <1>5, <2>2, <2>3 DEF ReplaceReport
<1>6. CASE RecordExport(s)
  BY <1>6, GoesTo DEF RecordExport, Done
<1>7. CASE OpenCsv(s)
  <2>1. UNCHANGED inbox
    BY <1>7 DEF OpenCsv
  <2>2. CASE GoTo(s, "write")
    BY <2>1, <2>2, GoesTo
  <2>3. CASE job' = [ job EXCEPT ![s] = Idle ]
    BY <2>1, <2>3, Ends
  <2> QED
    BY <1>7, <2>2, <2>3 DEF OpenCsv
<1>8. CASE WriteCsv(s)
  <2>1. UNCHANGED inbox
    BY <1>8 DEF WriteCsv
  <2>2. CASE GoTo(s, "answer")
    BY <2>1, <2>2, GoesTo
  <2>3. CASE job' = [ job EXCEPT ![s] = Idle ]
    BY <2>1, <2>3, Ends
  <2> QED
    BY <1>8, <2>2, <2>3 DEF WriteCsv, Done
<1> QED
  BY <1>1, <1>2, <1>3, <1>4, <1>5, <1>6, <1>7, <1>8 DEF FileStep

(* The step changes with an error code, an id or a list of entries. *)
LEMMA JobShape ==
  ASSUME JobsInv, NEW s \in Sidecars
  PROVE  /\ DOMAIN job = Sidecars
         /\ { "step", "request", "id", "existing", "code", "todo", "loaded" }
              \subseteq DOMAIN job[s]
BY DEF JobsInv, JobOK, JobFields

LEMMA GoesWithCode ==
  ASSUME JobsInv, Around, UNCHANGED inbox, NEW s \in Sidecars, NEW code,
         NEW x \in { "respond", "fail" },
         job' = [ job EXCEPT ![s].step = x, ![s].code = code ]
  PROVE  JobsInv'
<1> DEFINE k == [ job[s] EXCEPT !.step = x, !.code = code ]
<1>1. job' = [ job EXCEPT ![s] = k ]
  BY JobShape
<1>2. /\ DOMAIN k = DOMAIN job[s] /\ k.step = x
      /\ k.request = job[s].request /\ k.loaded = job[s].loaded
  BY JobShape
<1> HIDE DEF k
<1> QED
  BY <1>1, <1>2, Continues DEF Steps, PipelineSteps

(* So does an exception in the pipeline. *)
LEMMA RaisesJobs ==
  ASSUME JobsInv, Around, UNCHANGED inbox, NEW s \in Sidecars, NEW code,
         Raises(s, code)
  PROVE  JobsInv'
BY GoesWithCode DEF Raises

(* So do the commands that publish events. *)
LEMMA AnalyzeStepJobs ==
  ASSUME JobsInv, Around, NEW s \in Sidecars, AnalyzeStep(s)
  PROVE  JobsInv'
<1> USE DEF inboxVars, Steps, PipelineSteps, BreaksPipeline
<1>1. CASE Begin(s)
  <2>1. UNCHANGED inbox
    BY <1>1 DEF Begin
  <2>2. CASE Named(s, { "analyze_report" }) /\ GoTo(s, "read")
    BY <2>1, <2>2, GoesTo DEF Named
  <2>3. CASE GoTo(s, "load")
    BY <2>1, <2>3, GoesTo
  <2>4. CASE job' = [ job EXCEPT ![s].step = "respond",
                                 ![s].code = "REPORT_NOT_FOUND" ]
    BY <2>1, <2>4, GoesWithCode
  <2> QED
    BY <1>1, <2>2, <2>3, <2>4 DEF Begin
<1>2. CASE FailJob(s) \/ CompleteJob(s)
  BY <1>2, GoesTo DEF FailJob, CompleteJob
<1>3. CASE Respond(s)
  BY <1>3, Ends DEF Respond, ReplyOk, ReplyError, Reply
<1>4. CASE Lookup(s)
  <2>1. UNCHANGED inbox
    BY <1>4 DEF Lookup
  <2>2. CASE GoTo(s, "complete")
    BY <2>1, <2>2, GoesTo
  <2>3. ASSUME NEW code \in EnrichFailures, Raises(s, code) PROVE JobsInv'
    BY <2>1, <2>3, RaisesJobs
  <2> QED
    BY <1>4, <2>2, <2>3 DEF Lookup
<1>5. CASE ReadReport(s)
  <2>1. UNCHANGED inbox
    BY <1>5 DEF ReadReport
  <2>2. CASE GoTo(s, "extract")
    BY <1>5, <2>1, <2>2, GoesTo, Analyzing DEF ReadReport, At
  <2>3. CASE Raises(s, "APPLICATION_ERROR") \/ Raises(s, "INTERNAL_ERROR")
    BY <2>1, <2>3, RaisesJobs
  <2> QED
    BY <1>5, <2>2, <2>3 DEF ReadReport
<1>6. CASE Extract(s)
  BY <1>6, GoesTo, Analyzing DEF Extract, At
<1>7. CASE CheckExists(s)
  <2>1. UNCHANGED inbox /\ job[s].request.name = "analyze_report"
    BY <1>7, Analyzing DEF CheckExists, At
  <2>2. CASE GoTo(s, "find") \/ GoTo(s, "enrich")
    BY <2>1, <2>2, GoesTo
  <2>3. CASE Raises(s, "INTERNAL_ERROR")
    BY <2>1, <2>3, RaisesJobs
  <2> QED
    BY <1>7, <2>2, <2>3 DEF CheckExists
<1>8. CASE FindExisting(s)
  <2>1. UNCHANGED inbox
    BY <1>8 DEF FindExisting
  <2>2. CASE \E row \in RowsOfReport(Report(s)) :
               job' = [ job EXCEPT ![s].step = "complete", ![s].id = row.id,
                                   ![s].existing = TRUE ]
    <3>1. PICK row \in RowsOfReport(Report(s)) :
            job' = [ job EXCEPT ![s].step = "complete", ![s].id = row.id,
                                ![s].existing = TRUE ]
      BY <2>2
    <3> DEFINE k == [ job[s] EXCEPT !.step = "complete", !.id = row.id,
                                    !.existing = TRUE ]
    <3>2. job' = [ job EXCEPT ![s] = k ]
      BY <3>1, JobShape
    <3>3. /\ DOMAIN k = DOMAIN job[s] /\ k.step = "complete"
          /\ k.request = job[s].request /\ k.loaded = job[s].loaded
      BY JobShape
    <3> HIDE DEF k
    <3> QED
      BY <2>1, <3>2, <3>3, Continues
  <2>3. CASE Raises(s, "VANISHED") \/ Raises(s, "INTERNAL_ERROR")
    BY <2>1, <2>3, RaisesJobs
  <2> QED
    BY <1>8, <2>2, <2>3 DEF FindExisting
<1>9. CASE Enrich(s)
  <2>1. UNCHANGED inbox /\ job[s].request.name = "analyze_report"
    BY <1>9, Analyzing DEF Enrich, At
  <2> QED
    BY <1>9, <2>1, GoesTo DEF Enrich
<1>10. CASE Score(s)
  BY <1>10, GoesTo, Analyzing DEF Score, At
<1>11. CASE InsertRow(s)
  <2>1. UNCHANGED inbox /\ job[s].request.name = "analyze_report"
    BY <1>11, Analyzing DEF InsertRow, At
  <2>2. CASE job' = [ job EXCEPT ![s].step = "reload", ![s].id = NextId ]
    <3> DEFINE k == [ job[s] EXCEPT !.step = "reload", !.id = NextId ]
    <3>1. job' = [ job EXCEPT ![s] = k ]
      BY <2>2, JobShape
    <3>2. /\ DOMAIN k = DOMAIN job[s] /\ k.step = "reload"
          /\ k.request = job[s].request /\ k.loaded = job[s].loaded
      BY JobShape
    <3> HIDE DEF k
    <3> QED
      BY <2>1, <3>1, <3>2, Continues
  <2>3. CASE GoTo(s, "resolve")
    BY <2>1, <2>3, GoesTo
  <2>4. CASE Raises(s, "INTERNAL_ERROR")
    BY <2>1, <2>4, RaisesJobs
  <2> QED
    BY <1>11, <2>2, <2>3, <2>4 DEF InsertRow
<1>12. CASE ResolveConflict(s)
  <2>1. UNCHANGED inbox /\ job[s].request.name = "analyze_report"
    BY <1>12, Analyzing DEF ResolveConflict, At
  <2>2. CASE \E row \in RowsOfReport(Report(s)) :
               job' = [ job EXCEPT ![s].step = "reload", ![s].id = row.id,
                                   ![s].existing = TRUE ]
    <3>1. PICK row \in RowsOfReport(Report(s)) :
            job' = [ job EXCEPT ![s].step = "reload", ![s].id = row.id,
                                ![s].existing = TRUE ]
      BY <2>2
    <3> DEFINE k == [ job[s] EXCEPT !.step = "reload", !.id = row.id,
                                    !.existing = TRUE ]
    <3>2. job' = [ job EXCEPT ![s] = k ]
      BY <3>1, JobShape
    <3>3. /\ DOMAIN k = DOMAIN job[s] /\ k.step = "reload"
          /\ k.request = job[s].request /\ k.loaded = job[s].loaded
      BY JobShape
    <3> HIDE DEF k
    <3> QED
      BY <2>1, <3>2, <3>3, Continues
  <2>3. CASE Raises(s, "VANISHED") \/ Raises(s, "INTERNAL_ERROR")
    BY <2>1, <2>3, RaisesJobs
  <2> QED
    BY <1>12, <2>2, <2>3 DEF ResolveConflict
<1>13. CASE Reload(s)
  <2>1. UNCHANGED inbox /\ job[s].request.name = "analyze_report"
    BY <1>13, Analyzing DEF Reload, At
  <2>2. ASSUME NEW todo,
               job' = [ job EXCEPT ![s].step = "timeline", ![s].todo = todo ]
        PROVE  JobsInv'
    <3> DEFINE k == [ job[s] EXCEPT !.step = "timeline", !.todo = todo ]
    <3>1. job' = [ job EXCEPT ![s] = k ]
      BY <2>2, JobShape
    <3>2. /\ DOMAIN k = DOMAIN job[s] /\ k.step = "timeline"
          /\ k.request = job[s].request /\ k.loaded = job[s].loaded
      BY JobShape
    <3> HIDE DEF k
    <3> QED
      BY <2>1, <3>1, <3>2, Continues
  <2>3. CASE Raises(s, "VANISHED") \/ Raises(s, "INTERNAL_ERROR")
    BY <2>1, <2>3, RaisesJobs
  <2> QED
    BY <1>13, <2>2, <2>3 DEF Reload
<1>14. CASE RecordEntry(s)
  <2>1. UNCHANGED inbox /\ job[s].request.name = "analyze_report"
    BY <1>14, Analyzing DEF RecordEntry, At
  <2>2. job[s].step = "timeline"
    BY <1>14 DEF RecordEntry, At
  <2> DEFINE k == [ job[s] EXCEPT !.todo = Tail(job[s].todo) ]
  <2>3. job' = [ job EXCEPT ![s] = k ]
    BY <1>14 DEF RecordEntry
  <2>4. /\ DOMAIN k = DOMAIN job[s] /\ k.step = "timeline"
        /\ k.request = job[s].request /\ k.loaded = job[s].loaded
    BY <2>2, JobShape
  <2> HIDE DEF k
  <2> QED
    BY <2>1, <2>3, <2>4, Continues
<1>15. CASE EntriesDone(s)
  BY <1>15, GoesTo DEF EntriesDone
<1> QED
  BY <1>1, <1>2, <1>3, <1>4, <1>5, <1>6, <1>7, <1>8, <1>9, <1>10, <1>11,
     <1>12, <1>13, <1>14, <1>15 DEF AnalyzeStep

-----------------------------------------------------------------------------
(***************************************************************************)
(* The store                                                               *)
(***************************************************************************)
(* Ids and report names identify investigations.                           *)
RowsInv ==
  /\ lastId \in Nat
  /\ \A row \in rows : row.id \in 1 .. lastId /\ row.report \in Reports
  /\ \A row, other \in rows :
       row.id = other.id \/ row.report = other.report => row = other

NewRow(s) ==
  [ id |-> NextId, report |-> Report(s), by |-> CommandOf(s),
    options |-> Options(s) ]

Inserts(s) ==
  /\ At(s, "insert") /\ ~ Conflict(Report(s)) /\ Insert(NewRow(s))

(* The steps of a command that leave the table of investigations alone. *)
LEMMA FileStepKeepsRows ==
  ASSUME NEW s \in Sidecars, FileStep(s)
  PROVE  UNCHANGED << rows, lastId >>
<1> USE DEF storeVars
<1>1. CASE LoadSettings(s)
  BY <1>1 DEF LoadSettings
<1>2. CASE ResetSettings(s)
  BY <1>2 DEF ResetSettings
<1>3. CASE SaveSettings(s)
  BY <1>3 DEF SaveSettings
<1>4. CASE RenderReport(s)
  BY <1>4 DEF RenderReport
<1>5. CASE ReplaceReport(s)
  BY <1>5 DEF ReplaceReport
<1>6. CASE RecordExport(s)
  BY <1>6 DEF RecordExport, AppendEntry
<1>7. CASE OpenCsv(s)
  BY <1>7 DEF OpenCsv
<1>8. CASE WriteCsv(s)
  BY <1>8 DEF WriteCsv
<1> QED
  BY <1>1, <1>2, <1>3, <1>4, <1>5, <1>6, <1>7, <1>8 DEF FileStep

(* In the analysis only the insert changes the investigations. *)
LEMMA AnalyzeStepRows ==
  ASSUME NEW s \in Sidecars, AnalyzeStep(s)
  PROVE  UNCHANGED << rows, lastId >> \/ Inserts(s)
<1> USE DEF storeVars
<1>1. CASE Begin(s)
  BY <1>1 DEF Begin
<1>2. CASE FailJob(s)
  BY <1>2 DEF FailJob
<1>3. CASE CompleteJob(s)
  BY <1>3 DEF CompleteJob
<1>4. CASE Respond(s)
  BY <1>4 DEF Respond
<1>5. CASE Lookup(s)
  BY <1>5 DEF Lookup
<1>6. CASE ReadReport(s)
  BY <1>6 DEF ReadReport
<1>7. CASE Extract(s)
  BY <1>7 DEF Extract
<1>8. CASE CheckExists(s)
  BY <1>8 DEF CheckExists
<1>9. CASE FindExisting(s)
  BY <1>9 DEF FindExisting
<1>10. CASE Enrich(s)
  BY <1>10 DEF Enrich
<1>11. CASE Score(s)
  BY <1>11 DEF Score
<1>12. CASE InsertRow(s)
  BY <1>12 DEF InsertRow, Inserts, NewRow
<1>13. CASE ResolveConflict(s)
  BY <1>13 DEF ResolveConflict
<1>14. CASE Reload(s)
  BY <1>14 DEF Reload
<1>15. CASE RecordEntry(s)
  BY <1>15 DEF RecordEntry, AppendEntry
<1>16. CASE EntriesDone(s)
  BY <1>16 DEF EntriesDone
<1> QED
  BY <1>1, <1>2, <1>3, <1>4, <1>5, <1>6, <1>7, <1>8, <1>9, <1>10, <1>11,
     <1>12, <1>13, <1>14, <1>15, <1>16 DEF AnalyzeStep

(* Only an insert or a delete changes the table of investigations. *)
LEMMA StoreChanges ==
  ASSUME [Next]_vars
  PROVE  \/ UNCHANGED << rows, lastId >>
         \/ \E s \in Sidecars : Inserts(s)
         \/ \E s \in Sidecars : Delete(job[s].id)
<1> USE DEF storeVars
<1>1. CASE UNCHANGED vars
  BY <1>1 DEF vars
<1>2. ASSUME NEW s \in Sidecars, CommandStep(s)
      PROVE  \/ UNCHANGED << rows, lastId >> \/ Inserts(s)
             \/ Delete(job[s].id)
  <2>1. CASE Accept(s)
    BY <2>1 DEF Accept
  <2>2. CASE StoreStep(s)
    <3>1. CASE DeleteRow(s)
      BY <3>1 DEF DeleteRow
    <3>2. CASE ReadRow(s) \/ ReadEntries(s) \/ ReadRows(s) \/ ReadRecent(s)
      BY <3>2 DEF ReadRow, ReadEntries, ReadRows, ReadRecent
    <3> QED
      BY <2>2, <3>1, <3>2 DEF StoreStep
  <2>3. CASE FileStep(s)
    BY <2>3, FileStepKeepsRows
  <2>4. CASE AnalyzeStep(s)
    BY <2>4, AnalyzeStepRows
  <2>5. CASE Return(s)
    BY <2>5 DEF Return
  <2> QED
    BY <1>2, <2>1, <2>2, <2>3, <2>4, <2>5 DEF CommandStep
<1>3. ASSUME NEW s \in Sidecars, Kill(s) \/ Restart(s)
      PROVE  UNCHANGED << rows, lastId >>
  BY <1>3 DEF Kill, Restart
<1>4. ASSUME NEW c \in Clients,
             OpenStream(c) \/ ReaderThread(c) \/ Generator(c) \/ CloseStream(c)
      PROVE  UNCHANGED << rows, lastId >>
  BY <1>4 DEF OpenStream, ReaderThread, Generator, CloseStream
<1> QED
  BY <1>1, <1>2, <1>3, <1>4 DEF Next

(* A report that is about to be inserted is one of Reports. *)
LEMMA ReportKnown ==
  ASSUME JobsInv, NEW s \in Sidecars, job[s].step \in PipelineSteps
  PROVE  Report(s) \in Reports
<1>1. JobOK(job[s], lastId)
  BY DEF JobsInv
<1>2. job[s].request \in Sent /\ job[s].request.name = "analyze_report"
      /\ Verdict(job[s].request.name, job[s].request.payload) = "accepted"
  BY <1>1 DEF JobOK
<1>3. job[s].request.payload["report_path"][2] \in Reports
  BY <1>2, SituationsAssumption
<1> QED
  BY <1>3 DEF Report, Payload

(* An insert keeps ids and reports distinct, and counts one id more. *)
LEMMA InsertRows ==
  ASSUME RowsInv, JobsInv, NEW s \in Sidecars, Inserts(s)
  PROVE  RowsInv' /\ lastId' = lastId + 1
<1> DEFINE new == NewRow(s)
<1>1. new.id = lastId + 1 /\ new.report = Report(s)
  BY DEF NewRow, NextId
<1>2. Report(s) \in Reports
  BY ReportKnown DEF Inserts, At, PipelineSteps
<1>3. \A row \in rows : row.report # Report(s)
  BY DEF Inserts, Conflict, RowsOfReport
<1>4. rows' = rows \cup { new } /\ lastId' = new.id
  BY DEF Inserts, Insert
<1> HIDE DEF new
<1> QED
  BY <1>1, <1>2, <1>3, <1>4 DEF RowsInv

(* A delete keeps ids and reports distinct. *)
LEMMA DeleteRows ==
  ASSUME RowsInv, NEW id, Delete(id)
  PROVE  RowsInv' /\ lastId' = lastId
BY DEF RowsInv, Delete

(* Every step keeps ids and reports distinct, and never lowers the last id. *)
LEMMA RowsStep ==
  ASSUME RowsInv, JobsInv, [Next]_vars
  PROVE  RowsInv' /\ lastId <= lastId'
<1>1. CASE UNCHANGED << rows, lastId >>
  BY <1>1 DEF RowsInv
<1>2. ASSUME NEW s \in Sidecars, Inserts(s)
      PROVE  RowsInv' /\ lastId <= lastId'
  BY <1>2, InsertRows DEF RowsInv
<1>3. ASSUME NEW s \in Sidecars, Delete(job[s].id)
      PROVE  RowsInv' /\ lastId <= lastId'
  BY <1>3, DeleteRows DEF RowsInv
<1> QED
  BY <1>1, <1>2, <1>3, StoreChanges

(* The ledger's step of each change *)
LEMMA LedgerStep ==
  ASSUME RowsInv, JobsInv, [Next]_vars
  PROVE  [Ledger!Next]_<< { << row.id, row.report >> : row \in rows }, lastId >>
<1> DEFINE Pairs(S) == { << row.id, row.report >> : row \in S }
<1>1. CASE UNCHANGED << rows, lastId >>
  BY <1>1
<1>2. ASSUME NEW s \in Sidecars, Inserts(s)
      PROVE  Ledger!Next
  <2>1. NewRow(s).id = lastId + 1 /\ NewRow(s).report = Report(s)
    BY DEF NewRow, NextId
  <2>2. rows' = rows \cup { NewRow(s) } /\ lastId' = lastId + 1
    BY <1>2, <2>1 DEF Inserts, Insert
  <2>3. \A entry \in Pairs(rows) : entry[2] # Report(s)
    BY <1>2 DEF Inserts, Conflict, RowsOfReport
  <2>4. Pairs(rows') = Pairs(rows) \cup { << lastId', Report(s) >> }
    BY <2>1, <2>2
  <2>5. PICK r \in Reports : r = Report(s)
    BY <1>2, ReportKnown DEF Inserts, At, PipelineSteps
  <2> QED
    BY <2>2, <2>3, <2>4, <2>5 DEF Ledger!Next, Ledger!Register
<1>3. ASSUME NEW s \in Sidecars, Delete(job[s].id)
      PROVE  Ledger!Next \/ UNCHANGED << Pairs(rows), lastId >>
  <2>1. rows' = rows \ RowsWithId(job[s].id) /\ lastId' = lastId
    BY <1>3 DEF Delete
  <2>2. CASE RowsWithId(job[s].id) = {}
    BY <2>1, <2>2
  <2>3. CASE RowsWithId(job[s].id) # {}
    <3>1. PICK row \in rows : row.id = job[s].id
      BY <2>3 DEF RowsWithId
    <3>2. RowsWithId(job[s].id) = { row }
      BY <3>1 DEF RowsWithId, RowsInv
    <3>3. \A other \in rows :
            << other.id, other.report >> = << row.id, row.report >> => other = row
      BY DEF RowsInv
    <3>4. Pairs(rows') = Pairs(rows) \ { << row.id, row.report >> }
      BY <2>1, <3>2, <3>3
    <3>5. << row.id, row.report >> \in Pairs(rows)
      BY <3>1
    <3> QED
      BY <2>1, <3>4, <3>5 DEF Ledger!Next, Ledger!Remove
  <2> QED
    BY <2>2, <2>3
<1> QED
  BY <1>1, <1>2, <1>3, StoreChanges

-----------------------------------------------------------------------------
(***************************************************************************)
(* Answers, faults and files                                               *)
(***************************************************************************)
AnswersInv ==
  /\ DOMAIN answers = Sidecars
  /\ \A s \in Sidecars : \E S : answers[s] \in Seq(S)

Appends(s) == \E a : answers' = [ answers EXCEPT ![s] = Append(@, a) ]

(* A step of sidecar s leaves the answers and jobs of the others alone.    *)
Effect(s) ==
  /\ \/ UNCHANGED answers \/ Appends(s)
     \/ answers' = [ answers EXCEPT ![s] = @ ]
  /\ faults' \in 0 .. MaxFaults
  /\ \A t \in Sidecars : t # s => job'[t] = job[t]

Replacing == { s \in Sidecars : At(s, "replace") }

(* A report that is being replaced has its temporary file. *)
FilesInv ==
  /\ faults \in 0 .. MaxFaults
  /\ reportFile \in 0 .. lastId /\ raced \in BOOLEAN
  /\ temporaries \in Nat /\ Cardinality(Replacing) <= temporaries

(* A step that adds at most an answer keeps the answers a sequence. *)
LEMMA AnswersStep ==
  ASSUME AnswersInv, NEW s \in Sidecars,
         \/ UNCHANGED answers \/ Appends(s)
         \/ answers' = [ answers EXCEPT ![s] = @ ]
  PROVE  AnswersInv'
<1>1. CASE UNCHANGED answers
  BY <1>1 DEF AnswersInv
<1>2. CASE Appends(s)
  <2>1. PICK a : answers' = [ answers EXCEPT ![s] = Append(@, a) ]
    BY <1>2 DEF Appends
  <2>2. PICK S : answers[s] \in Seq(S)
    BY DEF AnswersInv
  <2>3. answers[s] \in Seq(S \cup { a })
    BY <2>2
  <2>4. Append(answers[s], a) \in Seq(S \cup { a })
    BY <2>3
  <2>5. DOMAIN answers' = Sidecars /\ answers'[s] = Append(answers[s], a)
        /\ \A t \in Sidecars : t # s => answers'[t] = answers[t]
    BY <2>1 DEF AnswersInv
  <2> QED
    BY <2>4, <2>5 DEF AnswersInv
<1>3. CASE answers' = [ answers EXCEPT ![s] = @ ]
  BY <1>3 DEF AnswersInv
<1> QED
  BY <1>1, <1>2, <1>3

(* The number of the request being served is a number. *)
LEMMA CurrentNumber ==
  ASSUME AnswersInv, NEW s \in Sidecars
  PROVE  Current(s) \in Nat
<1>1. PICK S : answers[s] \in Seq(S)
  BY DEF AnswersInv
<1>2. Len(answers[s]) \in Nat
  BY <1>1
<1> QED
  BY <1>2 DEF Current

(* Answering, and going on *)
LEMMA Answering ==
  ASSUME JobsInv, NEW s \in Sidecars, job' = [ job EXCEPT ![s] = Idle ]
  PROVE  /\ \A t \in Sidecars : t # s => job'[t] = job[t]
         /\ job'[s].step # "replace"
BY JobShape DEF Idle

(* Going on changes no other job. *)
LEMMA GoingTo ==
  ASSUME JobsInv, NEW s \in Sidecars, NEW x, GoTo(s, x)
  PROVE  /\ \A t \in Sidecars : t # s => job'[t] = job[t]
         /\ job'[s].step = x
BY JobShape DEF GoTo

(* An error ends the command with an answer. *)
LEMMA ErrorAppends ==
  ASSUME NEW s \in Sidecars, NEW code, ReplyError(s, code)
  PROVE  Appends(s) /\ job' = [ job EXCEPT ![s] = Idle ]
BY DEF ReplyError, Reply, Appends

(* A result ends the command with an answer. *)
LEMMA OkAppends ==
  ASSUME NEW s \in Sidecars, ReplyOk(s)
  PROVE  Appends(s) /\ job' = [ job EXCEPT ![s] = Idle ]
BY DEF ReplyOk, Reply, Appends

(* The number of faults stays within its bound. *)
LEMMA FaultsCounted ==
  ASSUME FilesInv, NoFault \/ Fault
  PROVE  faults' \in 0 .. MaxFaults
BY FaultsAssumption DEF FilesInv, NoFault, Fault

(* What a command of the store may do to the rest of the state *)
LEMMA StoreStepEffect ==
  ASSUME JobsInv, FilesInv, NEW s \in Sidecars, StoreStep(s)
  PROVE  /\ Effect(s) /\ job'[s].step # "replace"
         /\ UNCHANGED streamVars /\ UNCHANGED settings
<1>1. UNCHANGED << streamVars, settings >>
  BY DEF StoreStep, ReadRow, ReadEntries, ReadRows, ReadRecent, DeleteRow
<1>2. NoFault \/ Fault
  BY DEF StoreStep, ReadRow, ReadEntries, ReadRows, ReadRecent, DeleteRow, Breaks
<1>3. CASE Breaks(s)
  BY <1>1, <1>2, <1>3, FaultsCounted, ErrorAppends, Answering DEF Breaks, Effect
<1>4. CASE ReadRow(s) /\ ~ Breaks(s)
  <2>1. CASE \/ GoTo(s, "entries") /\ UNCHANGED answers
             \/ GoTo(s, "render") /\ UNCHANGED answers
             \/ GoTo(s, "load") /\ UNCHANGED answers
    BY <1>1, <1>2, <2>1, FaultsCounted, GoingTo DEF Effect
  <2>2. CASE Appends(s) /\ job' = [ job EXCEPT ![s] = Idle ]
    BY <1>1, <1>2, <2>2, FaultsCounted, Answering DEF Effect
  <2> QED
    BY <1>4, <2>1, <2>2 DEF ReadRow, ReplyError, ReplySeen, Reply, Appends
<1>5. CASE (ReadEntries(s) \/ ReadRecent(s)) /\ ~ Breaks(s)
  <2>1. Appends(s) /\ job' = [ job EXCEPT ![s] = Idle ]
    BY <1>5 DEF ReadEntries, ReadRecent, ReplySeen, Reply, Appends
  <2> QED
    BY <1>1, <1>2, <2>1, FaultsCounted, Answering DEF Effect
<1>6. CASE ReadRows(s) /\ ~ Breaks(s)
  <2>1. CASE Appends(s) /\ job' = [ job EXCEPT ![s] = Idle ]
    BY <1>1, <1>2, <2>1, FaultsCounted, Answering DEF Effect
  <2>2. ASSUME NEW x \in { "recent", "open" }, UNCHANGED answers,
               job' = [ job EXCEPT ![s].seen = Listed(s), ![s].step = x ]
        PROVE  /\ Effect(s) /\ job'[s].step # "replace"
               /\ UNCHANGED streamVars /\ UNCHANGED settings
    <3>1. \A t \in Sidecars : t # s => job'[t] = job[t]
      BY <2>2, JobShape
    <3>2. job'[s].step = x
      BY <2>2, JobShape
    <3> QED
      BY <1>1, <1>2, <2>2, <3>1, <3>2, FaultsCounted DEF Effect
  <2> QED
    BY <1>6, <2>1, <2>2 DEF ReadRows, ReplySeen, Reply, Appends
<1>7. CASE DeleteRow(s) /\ ~ Breaks(s)
  <2>1. UNCHANGED answers
    BY <1>7 DEF DeleteRow
  <2>2. \A t \in Sidecars : t # s => job'[t] = job[t]
    BY <1>7, JobShape DEF DeleteRow
  <2>3. job'[s].step = "answer"
    BY <1>7, JobShape DEF DeleteRow
  <2> QED
    BY <1>1, <1>2, <2>1, <2>2, <2>3, FaultsCounted DEF Effect
<1> QED
  BY <1>3, <1>4, <1>5, <1>6, <1>7 DEF StoreStep

(* What the return of a handler may do to the rest of the state *)
LEMMA ReturnEffect ==
  ASSUME JobsInv, FilesInv, NEW s \in Sidecars, Return(s)
  PROVE  /\ Effect(s) /\ job'[s].step # "replace"
         /\ UNCHANGED streamVars /\ UNCHANGED settings
BY OkAppends, Answering DEF Return, FilesInv, Effect

(* What a handler may do once the settings are loaded *)
LEMMA AfterLoadEffect ==
  ASSUME JobsInv, NEW s \in Sidecars, NEW values, AfterLoad(s, values)
  PROVE  /\ UNCHANGED answers \/ Appends(s)
         /\ \A t \in Sidecars : t # s => job'[t] = job[t]
         /\ job'[s].step # "replace"
<1>1. CASE /\ job' = [ job EXCEPT ![s].step = "save", ![s].loaded = values ]
           /\ UNCHANGED answers
  BY <1>1, JobShape
<1>2. CASE /\ GoTo(s, "answer") \/ GoTo(s, "lookup") \/ GoTo(s, "score")
           /\ UNCHANGED answers
  BY <1>2, GoingTo
<1> QED
  BY <1>1, <1>2 DEF AfterLoad, Done

(* What is saved is a content of the settings file. *)
LEMMA SavedSettings ==
  ASSUME NEW values \in [ SettingNames -> SettingValues ],
         settings' = Saved(values, FALSE)
  PROVE  settings' \in SettingsContents
<1>1. settings' \in { Saved(v, FALSE) : v \in [ SettingNames -> SettingValues ] }
  OBVIOUS
<1> QED
  BY <1>1 DEF SettingsContents

(* What a command about files may do to the rest of the state *)
LEMMA FileStepEffect ==
  ASSUME JobsInv, FilesInv, NEW s \in Sidecars, FileStep(s)
  PROVE  /\ Effect(s) /\ UNCHANGED streamVars
         /\ settings' \in SettingsContents /\ raced' \in BOOLEAN
         /\ job'[s].step = "replace" => RenderReport(s)
         /\ UNCHANGED << reportFile, temporaries >>
              \/ RenderReport(s) \/ ReplaceReport(s)
<1>1. UNCHANGED streamVars
  BY DEF FileStep, LoadSettings, ResetSettings, SaveSettings, RenderReport,
         ReplaceReport, RecordExport, OpenCsv, WriteCsv
<1>2. NoFault \/ Fault
  BY DEF FileStep, LoadSettings, ResetSettings, SaveSettings, RenderReport,
         ReplaceReport, RecordExport, OpenCsv, WriteCsv, Breaks
<1>3. \/ UNCHANGED << reportFile, temporaries >>
      \/ RenderReport(s) \/ ReplaceReport(s)
  BY DEF FileStep, LoadSettings, ResetSettings, SaveSettings, RecordExport,
         OpenCsv, WriteCsv, fileVars
<1>4. settings' \in SettingsContents
  <2>1. settings \in SettingsContents
    BY DEF JobsInv
  <2>2. CASE ResetSettings(s)
    BY <2>1, <2>2, DefaultsType, SavedSettings DEF ResetSettings, Replace
  <2>3. CASE SaveSettings(s)
    <3>1. Updated(s) \in [ SettingNames -> SettingValues ]
      BY <2>3, UpdatedType DEF SaveSettings
    <3>2. settings' = Saved(Updated(s), FALSE) \/ UNCHANGED settings
      BY <2>3 DEF SaveSettings, Replace
    <3> QED
      BY <2>1, <3>1, <3>2, SavedSettings
  <2>4. CASE UNCHANGED settings
    BY <2>1, <2>4
  <2> QED
    BY <2>2, <2>3, <2>4 DEF FileStep, LoadSettings, RenderReport, ReplaceReport,
                            RecordExport, OpenCsv, WriteCsv
<1>5. raced' \in BOOLEAN
  <2>1. raced \in BOOLEAN
    BY DEF FilesInv
  <2>2. UNCHANGED raced \/ raced' = (raced \/ SomeoneBetween(s))
    BY DEF FileStep, LoadSettings, ResetSettings, SaveSettings, RenderReport,
           ReplaceReport, RecordExport, OpenCsv, WriteCsv, fileVars
  <2> QED
    BY <2>1, <2>2
<1>6. /\ UNCHANGED answers \/ Appends(s)
      /\ \A t \in Sidecars : t # s => job'[t] = job[t]
      /\ job'[s].step = "replace" => RenderReport(s)
  <2>1. CASE Breaks(s)
    BY <2>1, ErrorAppends, Answering DEF Breaks
  <2>2. CASE /\ \/ GoTo(s, "reset") \/ GoTo(s, "record") \/ GoTo(s, "write")
                \/ GoTo(s, "answer")
             /\ UNCHANGED answers
    BY <2>2, GoingTo
  <2>3. CASE RenderReport(s)
    BY <2>1, <2>3, GoingTo DEF RenderReport
  <2>4. CASE AfterLoad(s, LoadedValues) \/ AfterLoad(s, Defaults)
    BY <2>4, AfterLoadEffect
  <2> QED
    BY <2>1, <2>2, <2>3, <2>4
       DEF FileStep, LoadSettings, ResetSettings, SaveSettings, ReplaceReport,
           RecordExport, OpenCsv, WriteCsv, Done
<1> QED
  BY <1>1, <1>2, <1>3, <1>4, <1>5, <1>6, FaultsCounted DEF Effect

(* What a pipeline publishes is an event. *)
LEMMA EventOfKind ==
  ASSUME AnswersInv, NEW s \in Sidecars, NEW kind \in EventNames \X Nat
  PROVE  Event(s, kind) \in Events
BY CurrentNumber DEF Event, Events

(* What the pipeline publishes are events of its kinds. *)
LEMMA EventKinds ==
  /\ \A n \in Nat : Progress(n) \in EventNames \X Nat
  /\ Started \in EventNames \X Nat /\ Completed \in EventNames \X Nat
  /\ Failed \in EventNames \X Nat /\ TiStarted \in EventNames \X Nat
  /\ TiCompleted \in EventNames \X Nat /\ TiFailed \in EventNames \X Nat
BY DEF EventNames, Progress, Started, Completed, Failed, TiStarted, TiCompleted,
       TiFailed

(* The analysis touches the streams by publishing only. *)
LEMMA AnalyzeStepStream ==
  ASSUME AnswersInv, NEW s \in Sidecars, AnalyzeStep(s)
  PROVE  UNCHANGED streamVars \/ \E e \in Events : Publish(s, e)
<1>1. ASSUME NEW n \in { 10, 25, 40, 60, 80, 90, 100 },
             Publish(s, Event(s, Progress(n)))
      PROVE  \E e \in Events : Publish(s, e)
  BY <1>1, EventOfKind, EventKinds
<1>2. CASE Begin(s)
  BY <1>2, EventOfKind, EventKinds DEF Begin
<1>3. CASE FailJob(s)
  <2> DEFINE kind == IF Named(s, { "enrich_ioc" }) THEN TiFailed ELSE Failed
  <2>1. kind \in EventNames \X Nat
    BY EventKinds
  <2>2. Publish(s, Event(s, kind))
    BY <1>3 DEF FailJob
  <2> QED
    BY <2>1, <2>2, EventOfKind
<1>4. CASE CompleteJob(s)
  <2> DEFINE kind == IF Named(s, { "enrich_ioc" }) THEN TiCompleted
                                                   ELSE Completed
  <2>1. kind \in EventNames \X Nat
    BY EventKinds
  <2>2. Publish(s, Event(s, kind))
    BY <1>4 DEF CompleteJob
  <2> QED
    BY <2>1, <2>2, EventOfKind
<1>5. CASE Respond(s) \/ Lookup(s) \/ FindExisting(s) \/ ResolveConflict(s)
             \/ RecordEntry(s) \/ EntriesDone(s)
  BY <1>5 DEF Respond, Lookup, FindExisting, ResolveConflict, RecordEntry,
              EntriesDone
<1>6. CASE ReadReport(s)
  BY <1>1, <1>6 DEF ReadReport
<1>7. CASE Extract(s)
  BY <1>1, <1>7 DEF Extract
<1>8. CASE CheckExists(s)
  BY <1>1, <1>8 DEF CheckExists
<1>9. CASE Enrich(s)
  BY <1>1, <1>9 DEF Enrich
<1>10. CASE Score(s)
  BY <1>1, <1>10 DEF Score
<1>11. CASE InsertRow(s)
  BY <1>1, <1>11 DEF InsertRow
<1>12. CASE Reload(s)
  BY <1>1, <1>12 DEF Reload
<1> QED
  BY <1>2, <1>3, <1>4, <1>5, <1>6, <1>7, <1>8, <1>9, <1>10, <1>11, <1>12
     DEF AnalyzeStep

(* An exception ends the command or goes on to the failure event. *)
LEMMA Raising ==
  ASSUME JobsInv, NEW s \in Sidecars, NEW code, Raises(s, code)
  PROVE  /\ \A t \in Sidecars : t # s => job'[t] = job[t]
         /\ job'[s].step # "replace"
BY JobShape DEF Raises

(* The analysis changes one job and at most one answer. *)
LEMMA AnalyzeStepJob ==
  ASSUME JobsInv, NEW s \in Sidecars, AnalyzeStep(s)
  PROVE  /\ \A t \in Sidecars : t # s => job'[t] = job[t]
         /\ job'[s].step # "replace"
<1> USE DEF BreaksPipeline
<1>1. CASE Begin(s)
  BY <1>1, JobShape, GoingTo DEF Begin
<1>2. CASE FailJob(s) \/ CompleteJob(s) \/ Extract(s) \/ Score(s) \/ EntriesDone(s)
  BY <1>2, GoingTo DEF FailJob, CompleteJob, Extract, Score, EntriesDone
<1>3. CASE Respond(s)
  BY <1>3, Answering, OkAppends, ErrorAppends DEF Respond
<1>4. CASE Lookup(s)
  BY <1>4, GoingTo, Raising DEF Lookup
<1>5. CASE ReadReport(s)
  BY <1>5, GoingTo, Raising DEF ReadReport
<1>6. CASE CheckExists(s)
  <2>1. CASE GoTo(s, "find") \/ GoTo(s, "enrich")
    BY <2>1, GoingTo
  <2> QED
    BY <1>6, <2>1, Raising DEF CheckExists
<1>7. CASE FindExisting(s)
  <2>1. ASSUME NEW row \in RowsOfReport(Report(s)),
               job' = [ job EXCEPT ![s].step = "complete", ![s].id = row.id,
                                   ![s].existing = TRUE ]
        PROVE  /\ \A t \in Sidecars : t # s => job'[t] = job[t]
               /\ job'[s].step # "replace"
    BY <2>1, JobShape
  <2> QED
    BY <1>7, <2>1, Raising DEF FindExisting
<1>8. CASE Enrich(s)
  BY <1>8, GoingTo DEF Enrich
<1>9. CASE InsertRow(s)
  <2>1. CASE job' = [ job EXCEPT ![s].step = "reload", ![s].id = NextId ]
    BY <2>1, JobShape
  <2> QED
    BY <1>9, <2>1, GoingTo, Raising DEF InsertRow
<1>10. CASE ResolveConflict(s)
  <2>1. ASSUME NEW row \in RowsOfReport(Report(s)),
               job' = [ job EXCEPT ![s].step = "reload", ![s].id = row.id,
                                   ![s].existing = TRUE ]
        PROVE  /\ \A t \in Sidecars : t # s => job'[t] = job[t]
               /\ job'[s].step # "replace"
    BY <2>1, JobShape
  <2> QED
    BY <1>10, <2>1, Raising DEF ResolveConflict
<1>11. CASE Reload(s)
  <2>1. ASSUME NEW todo,
               job' = [ job EXCEPT ![s].step = "timeline", ![s].todo = todo ]
        PROVE  /\ \A t \in Sidecars : t # s => job'[t] = job[t]
               /\ job'[s].step # "replace"
    BY <2>1, JobShape
  <2> QED
    BY <1>11, <2>1, Raising DEF Reload
<1>12. CASE RecordEntry(s)
  <2>1. job' = [ job EXCEPT ![s].todo = Tail(@) ] /\ job[s].step = "timeline"
    BY <1>12 DEF RecordEntry, At
  <2> QED
    BY <2>1, JobShape
<1> QED
  BY <1>1, <1>2, <1>3, <1>4, <1>5, <1>6, <1>7, <1>8, <1>9, <1>10, <1>11, <1>12
     DEF AnalyzeStep

(* What the analysis may do to the rest of the state *)
LEMMA AnalyzeStepEffect ==
  ASSUME JobsInv, FilesInv, NEW s \in Sidecars, AnalyzeStep(s)
  PROVE  Effect(s) /\ UNCHANGED << settings, fileVars >>
<1> USE DEF BreaksPipeline
<1>1. UNCHANGED << settings, fileVars >>
  BY DEF AnalyzeStep, Begin, FailJob, CompleteJob, Respond, Lookup, ReadReport,
         Extract, CheckExists, FindExisting, Enrich, Score, InsertRow,
         ResolveConflict, Reload, RecordEntry, EntriesDone
<1>2. NoFault \/ Fault
  BY DEF AnalyzeStep, Begin, FailJob, CompleteJob, Respond, Lookup, ReadReport,
         Extract, CheckExists, FindExisting, Enrich, Score, InsertRow,
         ResolveConflict, Reload, RecordEntry, EntriesDone, NoFault
<1>3. UNCHANGED answers \/ Appends(s)
  BY OkAppends, ErrorAppends
     DEF AnalyzeStep, Begin, FailJob, CompleteJob, Respond, Lookup, ReadReport,
         Extract, CheckExists, FindExisting, Enrich, Score, InsertRow,
         ResolveConflict, Reload, RecordEntry, EntriesDone
<1> QED
  BY <1>1, <1>2, <1>3, AnalyzeStepJob, FaultsCounted DEF Effect

-----------------------------------------------------------------------------
(***************************************************************************)
(* One step of the whole                                                   *)
(***************************************************************************)
CommandsInv ==
  StreamsInv(Events) /\ JobsInv /\ AnswersInv /\ RowsInv /\ FilesInv

(* What taking a request may do to the rest of the state *)
LEMMA AcceptEffect ==
  ASSUME JobsInv, FilesInv, NEW s \in Sidecars, Accept(s)
  PROVE  /\ Effect(s) /\ job'[s].step # "replace"
         /\ UNCHANGED streamVars /\ UNCHANGED settings
<1> DEFINE request == Head(inbox[s])
<1>1. UNCHANGED streamVars /\ UNCHANGED settings /\ (NoFault \/ Fault)
  BY DEF Accept
<1>2. UNCHANGED answers \/ Appends(s)
  BY DEF Accept, Start, Refuse, Appends
<1>3. CASE UNCHANGED job
  <2>1. job'[s].step # "replace"
    BY <1>3 DEF Accept, LoopIdle, At
  <2> QED
    BY <1>1, <1>2, <1>3, <2>1, FaultsCounted DEF Effect
<1>4. CASE Verdict(request.name, request.payload) = "accepted" /\ Start(s, request)
  <2>1. request.name \in CommandNames
    BY <1>4 DEF Verdict
  <2>2. FirstStep(request.name) # "replace"
    BY <2>1 DEF CommandNames, ByIdNames, BareNames, FirstStep, ReadsRow, ReadsRows
  <2> HIDE DEF request
  <2> DEFINE j == [ Idle EXCEPT !.request = request,
                                !.step = FirstStep(request.name),
                                !.id = RequestedId(request) ]
  <2>3. job' = [ job EXCEPT ![s] = j ]
    BY <1>4 DEF Start
  <2>4. j.step = FirstStep(request.name)
    BY DEF Idle
  <2> HIDE DEF j
  <2>5. job'[s] = j /\ \A t \in Sidecars : t # s => job'[t] = job[t]
    BY <2>3, JobShape
  <2> QED
    BY <1>1, <1>2, <2>2, <2>4, <2>5, FaultsCounted DEF Effect
<1> QED
  BY <1>3, <1>4 DEF Accept, Refuse

(* What the death of a sidecar may do to the rest of the state *)
LEMMA KillEffect ==
  ASSUME JobsInv, FilesInv, NEW s \in Sidecars, Kill(s)
  PROVE  /\ Effect(s) /\ job'[s].step # "replace"
         /\ Hangup(s) /\ UNCHANGED << inbox, settings, fileVars >>
<1>1. Hangup(s) /\ Fault /\ UNCHANGED << inbox, settings, fileVars >>
  BY DEF Kill, inboxVars
<1>2. job'[s] = Down /\ \A t \in Sidecars : t # s => job'[t] = job[t]
  BY JobShape DEF Kill
<1>3. Down.step = "down"
  BY DEF Down, Idle
<1>4. \/ answers' = [ answers EXCEPT ![s] = @ ]
      \/ Appends(s)
  <2>1. CASE LoopIdle(s)
    BY <2>1 DEF Kill
  <2>2. CASE ~ LoopIdle(s)
    BY <2>2 DEF Kill, Appends
  <2> QED
    BY <2>1, <2>2
<1> QED
  BY <1>1, <1>2, <1>3, <1>4, FaultsCounted DEF Effect

(* What a restart may do to the rest of the state *)
LEMMA RestartEffect ==
  ASSUME JobsInv, FilesInv, NEW s \in Sidecars, Restart(s)
  PROVE  /\ Effect(s) /\ job'[s].step # "replace"
         /\ UNCHANGED streamVars /\ UNCHANGED << inbox, settings, fileVars >>
BY Answering DEF Restart, FilesInv, inboxVars, Effect

(* A window's step is about its stream only. *)
WindowStep(c) ==
  OpenStream(c) \/ ReaderThread(c) \/ Generator(c) \/ CloseStream(c)

(* What a window may do to the rest of the state *)
LEMMA WindowEffect ==
  ASSUME NEW c \in Clients, WindowStep(c)
  PROVE  UNCHANGED << jobVars, storeVars, settings, fileVars >>
BY DEF WindowStep, OpenStream, ReaderThread, Generator, CloseStream

(* What a running command may do to the rest of the state *)
LEMMA SidecarStepEffect ==
  ASSUME JobsInv, FilesInv, NEW s \in Sidecars,
         CommandStep(s) \/ Kill(s) \/ Restart(s)
  PROVE  Effect(s) /\ settings' \in SettingsContents
<1>1. settings \in SettingsContents
  BY DEF JobsInv
<1>2. CASE FileStep(s)
  BY <1>2, FileStepEffect
<1>3. CASE Accept(s)
  BY <1>1, <1>3, AcceptEffect
<1>4. CASE StoreStep(s)
  BY <1>1, <1>4, StoreStepEffect
<1>5. CASE AnalyzeStep(s)
  BY <1>1, <1>5, AnalyzeStepEffect
<1>6. CASE Kill(s)
  BY <1>1, <1>6, KillEffect
<1>7. CASE Restart(s)
  BY <1>1, <1>7, RestartEffect
<1>8. CASE Return(s)
  BY <1>1, <1>8, ReturnEffect
<1> QED
  BY <1>2, <1>3, <1>4, <1>5, <1>6, <1>7, <1>8 DEF CommandStep

(* Every step is one of a few kinds. *)
LEMMA StepCases ==
  ASSUME [Next]_vars
  PROVE  \/ UNCHANGED vars
         \/ \E s \in Sidecars : CommandStep(s) \/ Kill(s) \/ Restart(s)
         \/ \E c \in Clients : WindowStep(c)
BY DEF Next, WindowStep

LEMMA AroundStep ==
  ASSUME JobsInv, FilesInv, RowsInv, [Next]_vars
  PROVE  Around
<1>1. lastId' \in Nat /\ lastId <= lastId'
  BY RowsStep DEF RowsInv
<1>2. settings' \in SettingsContents
  <2>1. CASE UNCHANGED settings
    BY <2>1 DEF JobsInv
  <2>2. ASSUME NEW s \in Sidecars, CommandStep(s) \/ Kill(s) \/ Restart(s)
        PROVE  settings' \in SettingsContents
    BY <2>2, SidecarStepEffect
  <2>3. ASSUME NEW c \in Clients, WindowStep(c) PROVE UNCHANGED settings
    BY <2>3, WindowEffect
  <2> QED
    BY <2>1, <2>2, <2>3, StepCases DEF vars
<1> QED
  BY <1>1, <1>2 DEF Around

(* Every step keeps the invariant of the jobs. *)
LEMMA AllJobsStep ==
  ASSUME JobsInv, FilesInv, RowsInv, [Next]_vars
  PROVE  JobsInv'
<1>1. Around
  BY AroundStep
<1>2. CASE UNCHANGED << job, inbox >>
  BY <1>1, <1>2, Stays
<1>3. ASSUME NEW s \in Sidecars, CommandStep(s) PROVE JobsInv'
  <2>1. CASE Accept(s)
    BY <1>1, <2>1, AcceptJobs
  <2>2. CASE StoreStep(s)
    BY <1>1, <2>2, StoreStepJobs DEF RowsInv
  <2>3. CASE FileStep(s)
    BY <1>1, <2>3, FileStepJobs
  <2>4. CASE AnalyzeStep(s)
    BY <1>1, <2>4, AnalyzeStepJobs
  <2>5. CASE Return(s)
    BY <1>1, <2>5, ReturnJobs
  <2> QED
    BY <1>3, <2>1, <2>2, <2>3, <2>4, <2>5 DEF CommandStep
<1>4. ASSUME NEW s \in Sidecars, Kill(s) PROVE JobsInv'
  <2>1. job' = [ job EXCEPT ![s] = Down ] /\ UNCHANGED inbox
    BY <1>4 DEF Kill, inboxVars
  <2>2. JobOK(Down, lastId')
    BY <1>1, IdleOK DEF Around
  <2> QED
    BY <1>1, <2>1, <2>2, JobsKept DEF Around, JobsInv
<1>5. ASSUME NEW s \in Sidecars, Restart(s) PROVE JobsInv'
  BY <1>1, <1>5, Ends DEF Restart, inboxVars
<1>6. ASSUME NEW c \in Clients, WindowStep(c) PROVE UNCHANGED << job, inbox >>
  BY <1>6, WindowEffect DEF jobVars, inboxVars
<1> QED
  BY <1>2, <1>3, <1>4, <1>5, <1>6, StepCases DEF vars, jobVars, inboxVars

(* Every step keeps the invariant of the answers. *)
LEMMA AllAnswersStep ==
  ASSUME JobsInv, FilesInv, AnswersInv, [Next]_vars
  PROVE  AnswersInv'
<1>1. CASE UNCHANGED answers
  BY <1>1 DEF AnswersInv
<1>2. ASSUME NEW s \in Sidecars, CommandStep(s) \/ Kill(s) \/ Restart(s)
      PROVE  AnswersInv'
  BY <1>2, SidecarStepEffect, AnswersStep DEF Effect
<1>3. ASSUME NEW c \in Clients, WindowStep(c) PROVE UNCHANGED answers
  BY <1>3, WindowEffect DEF jobVars
<1> QED
  BY <1>1, <1>2, <1>3, StepCases DEF vars, jobVars

(* Every step keeps the invariant of the streams. *)
LEMMA AllStreamsStep ==
  ASSUME StreamsInv(Events), JobsInv, FilesInv, AnswersInv, [Next]_vars
  PROVE  StreamsInv(Events)'
<1>1. CASE UNCHANGED streamVars
  BY <1>1, UnchangedStreams
<1>2. ASSUME NEW s \in Sidecars, NEW e \in Events, Publish(s, e)
      PROVE  StreamsInv(Events)'
  BY <1>2, PublishInv
<1>3. ASSUME NEW s \in Sidecars, CommandStep(s)
      PROVE  UNCHANGED streamVars \/ \E e \in Events : Publish(s, e)
  BY <1>3, AcceptEffect, StoreStepEffect, ReturnEffect, FileStepEffect,
     AnalyzeStepStream DEF CommandStep
<1>4. ASSUME NEW s \in Sidecars, Kill(s) PROVE StreamsInv(Events)'
  BY <1>4, HangupInv DEF Kill
<1>5. ASSUME NEW s \in Sidecars, Restart(s) PROVE UNCHANGED streamVars
  BY <1>5 DEF Restart
<1>6. ASSUME NEW c \in Clients, WindowStep(c) PROVE StreamsInv(Events)'
  BY <1>6, ConnectInv, TakeInv, TimeOutInv, ResumeInv, LeaveInv
     DEF WindowStep, OpenStream, ReaderThread, Generator, CloseStream
<1> QED
  BY <1>1, <1>2, <1>3, <1>4, <1>5, <1>6, StepCases DEF vars

-----------------------------------------------------------------------------
(***************************************************************************)
(* Temporary report files                                                  *)
(***************************************************************************)
LEMMA ReplacingFinite ==
  /\ IsFiniteSet(Replacing) /\ Cardinality(Replacing) \in Nat
  /\ \A S \in SUBSET Replacing :
       Cardinality(S) \in Nat /\ Cardinality(S) <= Cardinality(Replacing)
<1>1. Replacing \in SUBSET Sidecars
  BY DEF Replacing
<1>2. IsFiniteSet(Replacing)
  BY <1>1, SidecarsAssumption, FS_Subset
<1>3. ASSUME NEW S \in SUBSET Replacing
      PROVE  Cardinality(S) \in Nat /\ Cardinality(S) <= Cardinality(Replacing)
  BY <1>2, <1>3, FS_Subset, FS_CardinalityType
<1> QED
  BY <1>2, <1>3, FS_CardinalityType

LEMMA NoMoreReplacing ==
  ASSUME NEW S \in SUBSET Replacing, FilesInv, Replacing' = S,
         UNCHANGED << reportFile, temporaries >>, lastId \in Nat,
         lastId' \in Nat, lastId <= lastId',
         faults' \in 0 .. MaxFaults, raced' \in BOOLEAN
  PROVE  FilesInv'
<1>1. Cardinality(S) \in Nat /\ Cardinality(S) <= Cardinality(Replacing)
      /\ Cardinality(Replacing) \in Nat
  BY ReplacingFinite
<1>2. Cardinality(Replacing') <= temporaries
  BY <1>1 DEF FilesInv
<1> QED
  BY <1>2 DEF FilesInv

LEMMA RenderFiles ==
  ASSUME JobsInv, FilesInv, Around, NEW s \in Sidecars, RenderReport(s)
  PROVE  FilesInv'
<1>1. /\ Effect(s) /\ raced' = raced /\ reportFile' = reportFile
      /\ raced' \in BOOLEAN
  BY FileStepEffect DEF FileStep, RenderReport
<1>2. CASE GoTo(s, "replace") /\ temporaries' = temporaries + 1
  <2>1. Replacing' = Replacing \cup { s }
    BY <1>2, GoingTo DEF Replacing, At
  <2>2. /\ Cardinality(Replacing \cup { s }) =
             IF s \in Replacing THEN Cardinality(Replacing)
                                ELSE Cardinality(Replacing) + 1
        /\ Cardinality(Replacing) \in Nat
    BY ReplacingFinite, FS_AddElement
  <2>3. Cardinality(Replacing') <= temporaries'
    BY <1>2, <2>1, <2>2 DEF FilesInv
  <2> QED
    BY <1>1, <1>2, <2>3 DEF FilesInv, Effect, Around, JobsInv
<1>3. CASE Breaks(s) /\ UNCHANGED temporaries
  <2>1. Replacing' = Replacing \ { s }
    BY <1>1, <1>3, ErrorAppends, Answering DEF Breaks, Replacing, At
  <2> QED
    BY <1>1, <1>3, <2>1, NoMoreReplacing DEF Around, Effect, JobsInv
<1> QED
  BY <1>2, <1>3 DEF RenderReport

LEMMA ReplaceFiles ==
  ASSUME JobsInv, FilesInv, Around, NEW s \in Sidecars, ReplaceReport(s)
  PROVE  FilesInv'
<1>1. /\ Effect(s) /\ raced' \in BOOLEAN
      /\ job'[s].step = "replace" => RenderReport(s)
  BY FileStepEffect DEF FileStep
<1>2. job[s].step = "replace" /\ s \in Replacing
  BY DEF ReplaceReport, At, Replacing
<1>3. job'[s].step # "replace"
  BY <1>1, <1>2 DEF RenderReport, At
<1>4. Replacing' = Replacing \ { s }
  BY <1>1, <1>3 DEF Replacing, At, Effect
<1>5. /\ Cardinality(Replacing \ { s }) = Cardinality(Replacing) - 1
      /\ Cardinality(Replacing \ { s }) \in Nat /\ Cardinality(Replacing) \in Nat
  BY <1>2, ReplacingFinite, FS_RemoveElement
<1>6. temporaries' = temporaries - 1
  BY DEF ReplaceReport
<1>7. temporaries' \in Nat /\ Cardinality(Replacing') <= temporaries'
  BY <1>4, <1>5, <1>6 DEF FilesInv
<1>8. job[s].id \in 1 .. lastId
  BY <1>2 DEF JobsInv, JobOK
<1>9. reportFile' = job[s].id \/ reportFile' = reportFile
  BY DEF ReplaceReport
<1>10. reportFile' \in 0 .. lastId'
  BY <1>8, <1>9 DEF Around, FilesInv, JobsInv
<1> QED
  BY <1>1, <1>7, <1>10 DEF FilesInv, Effect

(* Every step keeps the invariant of the files. *)
LEMMA AllFilesStep ==
  ASSUME JobsInv, FilesInv, RowsInv, [Next]_vars
  PROVE  FilesInv'
<1>1. Around /\ lastId \in Nat
  BY AroundStep DEF RowsInv
<1>2. CASE UNCHANGED << job, faults, reportFile, temporaries, raced >>
  <2>1. Replacing' = Replacing
    BY <1>2 DEF Replacing, At
  <2>2. Cardinality(Replacing') = Cardinality(Replacing)
    BY <2>1
  <2> QED
    BY <1>1, <1>2, <2>2 DEF FilesInv, Around
<1>3. ASSUME NEW s \in Sidecars, Effect(s), job'[s].step # "replace",
             UNCHANGED << reportFile, temporaries >>, raced' \in BOOLEAN
      PROVE  FilesInv'
  <2>1. Replacing' \in SUBSET Replacing
    BY <1>3 DEF Replacing, At, Effect
  <2> DEFINE S == Replacing'
  <2>2. S \in SUBSET Replacing /\ Replacing' = S
    BY <2>1
  <2> HIDE DEF S
  <2> QED
    BY <1>1, <1>3, <2>2, NoMoreReplacing DEF Around, Effect
<1>4. raced \in BOOLEAN
  BY DEF FilesInv
<1>5. ASSUME NEW s \in Sidecars, CommandStep(s) PROVE FilesInv'
  <2>1. CASE (Accept(s) \/ StoreStep(s) \/ Return(s)) /\ UNCHANGED fileVars
    BY <1>3, <1>4, <2>1, AcceptEffect, StoreStepEffect, ReturnEffect DEF fileVars
  <2>2. CASE FileStep(s)
    <3>1. CASE RenderReport(s)
      BY <1>1, <3>1, RenderFiles
    <3>2. CASE ReplaceReport(s)
      BY <1>1, <3>2, ReplaceFiles
    <3>3. CASE ~ RenderReport(s) /\ ~ ReplaceReport(s)
      BY <1>3, <2>2, <3>3, FileStepEffect
    <3> QED
      BY <3>1, <3>2, <3>3
  <2>3. CASE AnalyzeStep(s)
    BY <1>3, <1>4, <2>3, AnalyzeStepEffect, AnalyzeStepJob DEF fileVars
  <2> QED
    BY <1>5, <2>1, <2>2, <2>3 DEF CommandStep
<1>6. ASSUME NEW s \in Sidecars, Kill(s) \/ Restart(s) PROVE FilesInv'
  BY <1>3, <1>4, <1>6, KillEffect, RestartEffect DEF fileVars
<1>7. ASSUME NEW c \in Clients, WindowStep(c) PROVE FilesInv'
  BY <1>2, <1>7, WindowEffect DEF jobVars, fileVars
<1> QED
  BY <1>2, <1>5, <1>6, <1>7, StepCases DEF vars, jobVars, fileVars

-----------------------------------------------------------------------------
(***************************************************************************)
(* The theorems                                                            *)
(***************************************************************************)
LEMMA InitInv == Init => CommandsInv
<1> SUFFICES ASSUME Init PROVE CommandsInv
  OBVIOUS
<1>1. StreamsInv(Events)
  BY StreamInitInv DEF Init
<1>2. rows = {} /\ lastId = 0
  BY DEF Init, StoreInit
<1>3. JobsInv
  <2>1. PICK situation \in Situations :
          inbox = situation.inbox /\ settings = situation.settings
    BY DEF Init, JobInit
  <2>2. inbox \in [ Sidecars -> Seq(Sent) ] /\ settings \in SettingsContents
    BY <2>1, SituationsAssumption
  <2>3. job = [ s \in Sidecars |-> Idle ]
    BY DEF Init, JobInit
  <2>4. JobOK(Idle, lastId)
    BY <1>2, IdleOK
  <2> QED
    BY <1>2, <2>2, <2>3, <2>4 DEF JobsInv
<1>4. AnswersInv
  <2>1. answers = [ s \in Sidecars |-> << >> ]
    BY DEF Init, JobInit
  <2>2. << >> \in Seq({})
    OBVIOUS
  <2> QED
    BY <2>1, <2>2 DEF AnswersInv
<1>5. RowsInv
  BY <1>2 DEF RowsInv
<1>6. FilesInv
  <2>1. job = [ s \in Sidecars |-> Idle ]
    BY DEF Init, JobInit
  <2>2. Replacing = {}
    BY <2>1 DEF Replacing, At, Idle
  <2>3. Cardinality(Replacing) = 0
    BY <2>2, FS_EmptySet
  <2>4. faults = 0 /\ reportFile = 0 /\ temporaries = 0 /\ raced = FALSE
    BY DEF Init, JobInit, FileInit
  <2>5. lastId = 0 /\ Cardinality(Replacing) <= 0
    BY <1>2, <2>3
  <2>6. raced \in BOOLEAN
    BY <2>4, Zenon
  <2> QED
    BY <2>4, <2>5, <2>6, FaultsAssumption DEF FilesInv
<1> QED
  BY <1>1, <1>3, <1>4, <1>5, <1>6 DEF CommandsInv

(* The invariant is inductive. *)
LEMMA StepInv == CommandsInv /\ [Next]_vars => CommandsInv'
BY AllStreamsStep, AllJobsStep, AllAnswersStep, RowsStep, AllFilesStep
   DEF CommandsInv

(* The invariant holds in every reachable state. *)
LEMMA CommandsAlways == Spec => []CommandsInv
BY InitInv, StepInv, PTL DEF Spec

(* The type invariant, for any number of sidecars, windows, requests and   *)
(* faults: in particular there are never more reports being replaced than  *)
(* temporary files, and what is exported is an investigation that was      *)
(* stored.                                                                 *)
THEOREM Types == Spec => []CommandsTypeOK
<1>1. CommandsInv => CommandsTypeOK
  <2> SUFFICES ASSUME CommandsInv PROVE CommandsTypeOK
    OBVIOUS
  <2>1. /\ \A s \in Sidecars : published[s] \in Seq([ by : Nat, kind : EventNames \X Nat ])
        /\ stream \in [ Clients -> StreamType ]
    BY DEF CommandsInv, StreamsInv, LogsOf, Events
  <2>2. /\ \A row \in rows : row.id \in 1 .. lastId /\ row.report \in Reports
        /\ lastId \in Nat
    BY DEF CommandsInv, RowsInv
  <2>3. /\ faults \in 0 .. MaxFaults /\ reportFile \in 0 .. lastId
        /\ temporaries \in Nat /\ raced \in BOOLEAN
    BY DEF CommandsInv, FilesInv
  <2>4. /\ settings \in SettingsContents
        /\ \A s \in Sidecars :
             /\ job[s].step \in Steps
             /\ job[s].loaded \in [ SettingNames -> SettingValues ]
    BY DEF CommandsInv, JobsInv, JobOK
  <2> QED
    BY <2>1, <2>2, <2>3, <2>4 DEF CommandsTypeOK
<1> QED
  BY <1>1, CommandsAlways, PTL

(* Every open event stream delivers in order and accounts for what it      *)
(* drops, whatever the capacity of the queues, however the publishing      *)
(* command, the reader thread, the event loop and kills interleave.        *)
THEOREM Streams == Spec => []StreamsOrdered
<1>1. CommandsInv => StreamsOrdered
  BY DEF CommandsInv, StreamsInv
<1> QED
  BY <1>1, CommandsAlways, PTL

(* The investigation store is the ledger, however many sidecars analyse,   *)
(* delete and are killed.                                                  *)
THEOREM StoreIsLedger == Spec => LedgerSpec
<1>1. Init => Ledger!Init
  BY DEF Init, StoreInit, Ledger!Init
<1>2. CommandsInv /\ [Next]_vars
        => [Ledger!Next]_<< { << row.id, row.report >> : row \in rows }, lastId >>
  BY LedgerStep DEF CommandsInv
<1> QED
  BY <1>1, <1>2, CommandsAlways, PTL DEF Spec, LedgerSpec, Ledger!Spec
=============================================================================
