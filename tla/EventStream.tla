---------------------------- MODULE EventStream -----------------------------
(***************************************************************************)
(* The sidecar's event stream: the in-process broker of                    *)
(* application/broker.py and the GET /events response of api/app.py.       *)
(*                                                                         *)
(* publish() appends an event to the bounded queue of every subscription.  *)
(* A response waits for the next event in a worker thread                  *)
(* (Subscription.get) and writes it out on the event loop, so what the     *)
(* thread has taken is in the thread's hands until the loop is free.       *)
(*                                                                         *)
(* An event is named by its position in `published`, the log of everything *)
(* a sidecar has published.  The log is not in the code: it is what the    *)
(* queues are compared with.                                               *)
(***************************************************************************)
EXTENDS Naturals, Sequences, FiniteSets

CONSTANTS
  Sidecars,   (* sidecar processes, each with its broker                    *)
  Clients,    (* windows, each with at most one /events response open       *)
  Capacity    (* DEFAULT_SUBSCRIBER_CAPACITY                                *)

ASSUME CapacityAssumption == Capacity \in Nat \ {0}
ASSUME SidecarsAssumption == Sidecars # {} /\ IsFiniteSet(Sidecars)

VARIABLES
  published,  (* per sidecar, every event in the order of publication       *)
  stream      (* per client, the response it reads and its Subscription     *)

streamVars == << published, stream >>

(* A reader thread waits in get(), holds an event, or got nothing. *)
ReaderStates == { "waiting", "holding", "nothing" }

StreamType ==
  [ open : BOOLEAN, to : Sidecars, first : Nat, queue : Seq(Nat),
    reader : ReaderStates, held : Nat, last : Nat, delivered : Nat,
    dropped : Nat ]

(* A subscription sees what is published after it: nothing is replayed. *)
Subscription(s, n, isOpen) ==
  [ open |-> isOpen, to |-> s, first |-> n, queue |-> << >>,
    reader |-> "waiting", held |-> n, last |-> n, delivered |-> 0,
    dropped |-> 0 ]

Closed == Subscription(CHOOSE s \in Sidecars : TRUE, 0, FALSE)

StreamInit ==
  /\ published = [ s \in Sidecars |-> << >> ]
  /\ stream = [ c \in Clients |-> Closed ]

Listens(c, s) == stream[c].open /\ stream[c].to = s

-----------------------------------------------------------------------------
(***************************************************************************)
(* Subscription._put: a deque with a maxlen loses its oldest element.      *)
(***************************************************************************)

(* Mutant: a full queue refuses the new event. *)
PutDropsNewest(sub, n) ==
  IF Len(sub.queue) = Capacity
    THEN [ sub EXCEPT !.dropped = @ + 1 ]
    ELSE [ sub EXCEPT !.queue = Append(@, n) ]

Put(sub, n) ==
  IF Len(sub.queue) = Capacity
    THEN [ sub EXCEPT !.queue = Append(Tail(@), n), !.dropped = @ + 1 ]
    ELSE [ sub EXCEPT !.queue = Append(@, n) ]

(* EventBroker.publish, by the one thread that runs the sidecar's command. *)
Publish(s, event) ==
  /\ published' = [ published EXCEPT ![s] = Append(@, event) ]
  /\ stream' = [ c \in Clients |->
                   IF Listens(c, s)
                     THEN Put(stream[c], Len(published[s]) + 1)
                     ELSE stream[c] ]

(***************************************************************************)
(* _sse_event_stream.  Connect, Resume and Leave run on the event loop:    *)
(* the composition lets them happen only while no command runs.            *)
(***************************************************************************)
Connect(c, s) ==
  /\ ~ stream[c].open
  /\ stream' = [ stream EXCEPT
                   ![c] = Subscription(s, Len(published[s]), TRUE) ]
  /\ UNCHANGED published

(* Subscription.get returns an event. *)
Take(c) ==
  /\ stream[c].open /\ stream[c].reader = "waiting"
  /\ stream[c].queue # << >>
  /\ stream' = [ stream EXCEPT ![c].reader = "holding",
                               ![c].held = Head(stream[c].queue),
                               ![c].queue = Tail(@) ]
  /\ UNCHANGED published

(* Subscription.get times out after _SSE_POLL_INTERVAL_SECONDS. *)
TimeOut(c) ==
  /\ stream[c].open /\ stream[c].reader = "waiting"
  /\ stream[c].queue = << >>
  /\ stream' = [ stream EXCEPT ![c].reader = "nothing" ]
  /\ UNCHANGED published

(* Mutant: a wait that timed out is the last one. *)
ResumeUnlessTimedOut(c) ==
  /\ stream[c].open /\ stream[c].reader = "holding"
  /\ stream' = [ stream EXCEPT ![c].reader = "waiting",
                               ![c].last = stream[c].held,
                               ![c].delivered = @ + 1 ]
  /\ UNCHANGED published

(* The generator resumes: it writes the event it was given, or goes round. *)
Resume(c) ==
  /\ stream[c].open
  /\ \/ /\ stream[c].reader = "holding"
        /\ stream' = [ stream EXCEPT ![c].reader = "waiting",
                                     ![c].last = stream[c].held,
                                     ![c].delivered = @ + 1 ]
     \/ /\ stream[c].reader = "nothing"
        /\ stream' = [ stream EXCEPT ![c].reader = "waiting" ]
  /\ UNCHANGED published

(* The client goes away: the generator unsubscribes, and what the thread   *)
(* held is gone.                                                           *)
Leave(c) ==
  /\ stream[c].open
  /\ stream' = [ stream EXCEPT ![c] = Closed ]
  /\ UNCHANGED published

(* The process dies and its connections with it. *)
Hangup(s) ==
  /\ stream' = [ c \in Clients |->
                   IF Listens(c, s) THEN Closed ELSE stream[c] ]
  /\ UNCHANGED published

-----------------------------------------------------------------------------
(***************************************************************************)
(* What a client may rely on                                               *)
(***************************************************************************)

InHand(sub) == IF sub.reader = "holding" THEN 1 ELSE 0

(* The queue holds the newest events, all of them in order and up to the   *)
(* last one published; what was taken before them was taken in order; and  *)
(* dropped_count accounts for every event in between.                      *)
SubscriptionOrdered(sub, n) ==
  /\ Len(sub.queue) <= Capacity
  /\ \A i \in 1 .. Len(sub.queue) : sub.queue[i] = n - Len(sub.queue) + i
  /\ sub.first <= sub.last /\ sub.last <= sub.held
  /\ sub.held + Len(sub.queue) <= n
  /\ sub.reader = "holding" => sub.last < sub.held
  /\ sub.reader # "holding" => sub.last = sub.held
  /\ sub.first + sub.delivered + InHand(sub) + Len(sub.queue) + sub.dropped = n

(* An open stream delivers events in the order in which they were          *)
(* published, never twice, and a queue that overflows loses the oldest     *)
(* ones and counts them: broker.py's Subscription between a publishing     *)
(* thread, a reading thread and the event loop.                            *)
StreamsOrdered ==
  \A c \in Clients :
    stream[c].open =>
      SubscriptionOrdered(stream[c], Len(published[stream[c].to]))
=============================================================================
