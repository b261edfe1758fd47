---------------------------- MODULE StallBuffers ----------------------------
(***************************************************************************)
(* How a Ruby controller of the protocol waits: its MessageBuffers (a heap *)
(* ordered by arrival time and a table of stalled messages), the list of   *)
(* waiting buffers that AbstractController keeps per address and rank, the *)
(* wakeup loop that SLICC generates, and the Consumer that schedules it.   *)
(*                                                                         *)
(* What a transition computes is left to the protocol modules.  Here a     *)
(* request finds its line free or busy; it is served, it opens a           *)
(* transaction, it is stalled on a busy address, or it is recycled.  A     *)
(* response ends the transaction of its line and wakes what waits on it.   *)
(* Which ports do what, with which rank, is read off each controller.      *)
(* Times are relative to the current cycle: a message is ready at wait 0.  *)
(***************************************************************************)
EXTENDS Integers, FiniteSets

CONSTANTS
    Line,            \* line addresses
    MaxRequests,     \* bound: requests sent to the controller
    MaxRecycles,     \* bound: times a bank or a line turns a message back
    MaxDelay,        \* bound: longest latency of a message, in cycles
    OrderedDelay,    \* the one latency of the senders to an ordered buffer
    RecycleLatency,  \* recycle_latency of the controller
    TransitionsPerCycle,  \* transitions_per_cycle of the controller
    MaxSizes         \* values of buffer_size; 0 is an unbounded buffer

ASSUME BoundAssumption ==
    /\ Line # {}
    /\ MaxRequests \in Nat /\ MaxRecycles \in Nat
    /\ MaxDelay \in Nat \ {0} /\ OrderedDelay \in Nat \ {0}
    /\ RecycleLatency \in Nat \ {0}
    /\ TransitionsPerCycle \in Nat \ {0}
    /\ MaxSizes \subseteq Nat

VARIABLES
    ctl,      \* the controller under study: one of Controllers
    maxSize,  \* m_max_size of its buffers
    msg,      \* the messages, numbered as m_msg_counter numbers them
    count,    \* messages enqueued so far
    ahead,    \* per message: those of its buffer that come before it
    cyc,      \* per port: what the buffer remembers of the current cycle
    waiting,  \* m_waiting_buffers: the port registered per address and rank
    busy,     \* whether a transaction is open on a line, and answered
    loop,     \* transitions of the running wakeup, or Idle
    from,     \* the port whose transition was refused last in this pass, or 0
    sched     \* m_wakeup_ticks of the Consumer, relative to now

vars == <<ctl, maxSize, msg, count, ahead, cyc, waiting, busy, loop, from, sched>>

-----------------------------------------------------------------------------
(* The controllers.  Ports are numbered in the order they are declared,    *)
(* which is the order in which wakeup() looks at them.  The buffers between *)
(* L0 and L1 and the DMA controller's answers are ordered (strict FIFO).   *)

Port == 1 .. 3
Rank == 0 .. 2
NULL == 0

L0Ports == [rank |-> <<2, 1, 0>>, stalls |-> {1, 3}, wakes |-> {2},
            recycles |-> {}, ordered |-> {2}, evicts |-> TRUE, wake |-> "line"]

\* Mutant: the L1 wakes the ports of lower rank only, as the L2 does.
L1Ports_Lower ==
    [rank |-> <<2, 1, 0>>, stalls |-> {2, 3}, wakes |-> {1, 3},
     recycles |-> {}, ordered |-> {3}, evicts |-> TRUE, wake |-> "lower"]

L1Ports == [rank |-> <<2, 1, 0>>, stalls |-> {2, 3}, wakes |-> {1, 3},
            recycles |-> {}, ordered |-> {3}, evicts |-> TRUE, wake |-> "line"]

L2Ports == [rank |-> <<2, 1, 0>>, stalls |-> {3}, wakes |-> {1, 2},
            recycles |-> {2, 3}, ordered |-> {}, evicts |-> TRUE, wake |-> "lower"]

DirPorts == [rank |-> <<0, 1, 2>>, stalls |-> {1}, wakes |-> {2, 3},
             recycles |-> {1}, ordered |-> {}, evicts |-> FALSE, wake |-> "lower"]

\* Two ports, neither with a rank; there is no third.
DMAPorts == [rank |-> <<0, 0, 0>>, stalls |-> {1}, wakes |-> {2},
             recycles |-> {}, ordered |-> {2}, evicts |-> FALSE, wake |-> "all"]

Controllers == {L0Ports, L1Ports, L2Ports, DirPorts, DMAPorts}

-----------------------------------------------------------------------------
(* MessageBuffer *)

Msg == 1 .. 2 * MaxRequests

\* A message that is in no buffer: not sent yet, or handled.
Outside(st, kind) ==
    [st |-> st, kind |-> kind, port |-> 1, line |-> CHOOSE a \in Line : TRUE,
     on |-> CHOOSE a \in Line : TRUE, wait |-> 0, tries |-> 0]

InHeap(p) == {m \in Msg : msg[m].st = "heap" /\ msg[m].port = p}
StalledOn(p, a) ==
    {m \in Msg : msg[m].st = "stalled" /\ msg[m].port = p /\ msg[m].on = a}

\* The heap and the stall table together.
Held(p) == {m \in Msg : msg[m].st \in {"heap", "stalled"} /\ msg[m].port = p}

\* Mutant: the stalled messages are not counted.
areNSlotsAvailable_HeapOnly(p) ==
    \/ maxSize = 0
    \/ Cardinality(InHeap(p)) + 1 <= maxSize

\* One free slot.  Messages popped in this cycle still count.
areNSlotsAvailable(p) ==
    LET size == IF cyc[p].popped
                THEN cyc[p].size + cyc[p].enqueued
                ELSE Cardinality(Held(p))
    IN  maxSize = 0 \/ size + 1 <= maxSize

\* Message k comes before a message m that arrives at w: the heap is ordered
\* by arrival time, and at equal times by counter.
Before(k, w, m) == msg[k].wait < w \/ (msg[k].wait = w /\ k < m)

\* Message m takes its place in the buffer of port p.
Insert(m, p, w) ==
    [k \in Msg |->
        IF k = m THEN {j \in Held(p) \ {m} : Before(j, w, m)}
        ELSE IF k \in Held(p) /\ ~Before(k, w, m) THEN ahead[k] \cup {m}
        ELSE ahead[k] \ {m}]

Without(m) == [k \in Msg |-> IF k = m THEN {} ELSE ahead[k] \ {m}]

\* Mutant: requests and responses to an ordered buffer take their own time.
Latency_Mixed(p) ==
    IF p \in ctl.ordered THEN 1 .. OrderedDelay ELSE 1 .. MaxDelay

\* The latencies a message may be sent with.  All that is sent to an ordered
\* buffer has the same: l1_request_latency = l1_response_latency (L1 to L0),
\* request_latency = response_latency (L0 to L1), one link (to the DMA).
Latency(p) == IF p \in ctl.ordered THEN {OrderedDelay} ELSE 1 .. MaxDelay

\* The arrival is not before m_last_arrival_time, or the buffer is unordered.
\* (What arrives later than now is still held, and no ordered buffer recycles.)
InFifoOrder(p, delta) ==
    p \in ctl.ordered => \A k \in Held(p) : msg[k].wait <= delta

\* A message out of order panics.
\* (Msg has a number for every request and its response.)
enqueue(m, kind, p, a, delta) ==
    /\ m \in Msg
    /\ InFifoOrder(p, delta)
    /\ msg' = [msg EXCEPT ![m] = [st |-> "heap", kind |-> kind, port |-> p,
                 line |-> a, on |-> a, wait |-> delta, tries |-> 0]]
    /\ ahead' = Insert(m, p, delta)
    /\ cyc' = [cyc EXCEPT ![p].enqueued = @ + 1]
    /\ sched' = sched \cup {delta}
    /\ count' = m

\* The message at the head of the port's heap, when it has arrived.
isReady(m, p) ==
    /\ m \in InHeap(p)
    /\ msg[m].wait = 0
    /\ ahead[m] \cap InHeap(p) = {}

\* What dequeue() records at the first pop of a cycle.
NotePop(p) ==
    IF cyc[p].popped THEN cyc
    ELSE [cyc EXCEPT ![p].popped = TRUE,
                     ![p].size = Cardinality(Held(p))]

dequeue(m) ==
    /\ ahead' = Without(m)
    /\ cyc' = NotePop(msg[m].port)

recycle(m) ==
    /\ msg' = [msg EXCEPT ![m].wait = RecycleLatency, ![m].tries = @ + 1]
    /\ ahead' = Insert(m, msg[m].port, RecycleLatency)
    /\ sched' = sched \cup {RecycleLatency}
    /\ UNCHANGED cyc

stallMessage(m, a) ==
    /\ msg' = [msg EXCEPT ![m].st = "stalled", ![m].on = a]
    /\ cyc' = NotePop(msg[m].port)
    /\ UNCHANGED ahead

-----------------------------------------------------------------------------
(* AbstractController *)

stallBuffer(p, a) == waiting' = [waiting EXCEPT ![a][ctl.rank[p]] = p]

\* What a message handled at port p for line a wakes.
Woken(p, a) ==
    {m \in Msg :
        /\ msg[m].st = "stalled"
        /\ CASE ctl.wake = "lower" ->
                  /\ msg[m].on = a
                  /\ \E r \in Rank : r < ctl.rank[p] /\ waiting[a][r] = msg[m].port
             [] ctl.wake = "line" ->
                  /\ msg[m].on = a
                  /\ \E r \in Rank : waiting[a][r] = msg[m].port
             [] ctl.wake = "all" ->
                  \E b \in Line, r \in Rank : waiting[b][r] = msg[m].port}

NoneWaiting == [r \in Rank |-> NULL]

\* Mutant: the woken buffers stay registered.
Unregister_Keep(a) == waiting

\* The registrations that are left: the code erases the whole vector.
Unregister(a) ==
    IF ctl.wake = "all"
    THEN [b \in Line |-> NoneWaiting]
    ELSE [waiting EXCEPT ![a] = NoneWaiting]

-----------------------------------------------------------------------------
(* The requests, the responses and the wakeup loop *)

Idle == -1

NothingYet == [popped |-> FALSE, size |-> 0, enqueued |-> 0]

Init ==
    /\ ctl \in Controllers
    /\ maxSize \in MaxSizes
    /\ msg = [m \in Msg |-> Outside("none", "req")]
    /\ count = 0
    /\ ahead = [m \in Msg |-> {}]
    /\ cyc = [p \in Port |-> NothingYet]
    /\ waiting = [a \in Line |-> NoneWaiting]
    /\ busy = [a \in Line |-> "no"]
    /\ loop = Idle /\ from = 0
    /\ sched = {}

Requests == {m \in Msg : msg[m].st # "none" /\ msg[m].kind = "req"}

\* Another object enqueues a request, if it sees a free slot.
Request(p, a, delta) ==
    /\ loop = Idle
    /\ p \in ctl.stalls
    /\ Cardinality(Requests) < MaxRequests
    /\ areNSlotsAvailable(p)
    /\ enqueue(count + 1, "req", p, a, delta)
    /\ UNCHANGED <<ctl, maxSize, waiting, busy, loop, from>>

\* The answer that the open transaction of line a waits for.
Respond(p, a, delta) ==
    /\ loop = Idle
    /\ p \in ctl.wakes
    /\ busy[a] = "open"
    /\ areNSlotsAvailable(p)
    /\ enqueue(count + 1, "resp", p, a, delta)
    /\ busy' = [busy EXCEPT ![a] = "answered"]
    /\ UNCHANGED <<ctl, maxSize, waiting, loop, from>>

\* Consumer::processCurrentEvent
Wakeup ==
    /\ loop = Idle /\ 0 \in sched
    /\ loop' = 0
    /\ sched' = sched \ {0}
    /\ UNCHANGED <<ctl, maxSize, msg, count, ahead, cyc, waiting, busy, from>>

\* The loop looks at the first port, in the order of declaration, with a ready
\* message, after the port it was refused at.
Triggers(m) ==
    /\ loop # Idle /\ loop < TransitionsPerCycle
    /\ from < msg[m].port
    /\ isReady(m, msg[m].port)
    /\ \A p \in Port : from < p /\ p < msg[m].port => \A k \in Msg : ~isReady(k, p)

\* After a transition (TransitionResult_Valid) it starts from the first port.
Takes(m) ==
    /\ Triggers(m)
    /\ loop' = loop + 1
    /\ from' = 0
    /\ UNCHANGED <<ctl, maxSize, count>>

\* Mutant: a refused message gets no event of its own.
ResourceStall_NoEvent(m) ==
    /\ Triggers(m)
    /\ maxSize # 0
    /\ from' = msg[m].port
    /\ UNCHANGED <<ctl, maxSize, msg, count, ahead, cyc, waiting, busy, loop, sched>>

\* TransitionResult_ResourceStall: a buffer the transition would send to is
\* full.  The message stays, to be tried in the next cycle; the loop goes on
\* with the next port.  (No transition of these controllers has the action
\* z_stall, which alone gives TransitionResult_ProtocolStall.)
ResourceStall(m) ==
    /\ Triggers(m)
    /\ maxSize # 0
    /\ from' = msg[m].port
    /\ sched' = sched \cup {1}
    /\ UNCHANGED <<ctl, maxSize, msg, count, ahead, cyc, waiting, busy, loop>>

\* Mutant: a request is stalled on an address that is not in transition.
Stall_Stable(m, a) ==
    /\ Takes(m)
    /\ msg[m].kind = "req"
    /\ a = msg[m].line \/ ctl.evicts
    /\ stallBuffer(msg[m].port, a)
    /\ stallMessage(m, a)
    /\ UNCHANGED <<busy, sched>>

\* The line, or with a cache to make room in, a victim, is in a transient state.
Stall(m, a) ==
    /\ Takes(m)
    /\ msg[m].kind = "req"
    /\ a = msg[m].line \/ ctl.evicts
    /\ busy[a] # "no"
    /\ stallBuffer(msg[m].port, a)
    /\ stallMessage(m, a)
    /\ UNCHANGED <<busy, sched>>

\* A bank is busy (L2), or a DMA request meets an open transaction (directory).
Recycle(m) ==
    /\ Takes(m)
    /\ msg[m].port \in ctl.recycles
    /\ msg[m].tries < MaxRecycles
    /\ recycle(m)
    /\ UNCHANGED <<waiting, busy>>

\* A request is served; on a free line it may open a transaction.
Serve(m) ==
    /\ Takes(m)
    /\ msg[m].kind = "req"
    /\ msg' = [msg EXCEPT ![m] = Outside("done", "req")]
    /\ dequeue(m)
    /\ \/ UNCHANGED busy
       \/ /\ busy[msg[m].line] = "no"
          /\ busy' = [busy EXCEPT ![msg[m].line] = "open"]
    /\ UNCHANGED <<waiting, sched>>

\* The response ends the transaction and wakes its dependents.
Finish(m) ==
    /\ Takes(m)
    /\ msg[m].kind = "resp"
    /\ LET woken == Woken(msg[m].port, msg[m].line)
       IN  /\ msg' = [k \in Msg |->
                        IF k = m THEN Outside("done", "resp")
                        ELSE IF k \in woken THEN [msg[k] EXCEPT !.st = "heap"]
                        ELSE msg[k]]
           /\ sched' = IF woken = {} THEN sched ELSE sched \cup {0}
    /\ dequeue(m)
    /\ waiting' = Unregister(msg[m].line)
    /\ busy' = [busy EXCEPT ![msg[m].line] = "no"]

\* m_transitions_per_cycle transitions were made: go on in the next cycle.
Full ==
    /\ loop = TransitionsPerCycle
    /\ loop' = Idle
    /\ sched' = sched \cup {1}
    /\ UNCHANGED <<ctl, maxSize, msg, count, ahead, cyc, waiting, busy, from>>

\* No port is left with a ready message.
Drained ==
    /\ loop # Idle /\ loop < TransitionsPerCycle
    /\ \A p \in Port, m \in Msg : from < p => ~isReady(m, p)
    /\ loop' = Idle
    /\ from' = 0
    /\ UNCHANGED <<ctl, maxSize, msg, count, ahead, cyc, waiting, busy, sched>>

\* The next cycle, once the wakeups of this one have run.
Tick ==
    /\ loop = Idle /\ 0 \notin sched
    /\ sched' = {t - 1 : t \in sched}
    /\ msg' = [m \in Msg |-> IF msg[m].wait > 0
                             THEN [msg[m] EXCEPT !.wait = @ - 1] ELSE msg[m]]
    /\ cyc' = [p \in Port |-> NothingYet]
    /\ UNCHANGED <<ctl, maxSize, count, ahead, waiting, busy, loop, from>>

Attempt ==
    \E m \in Msg : \/ \E a \in Line : Stall(m, a)
                   \/ Recycle(m)
                   \/ Serve(m)
                   \/ Finish(m)
                   \/ ResourceStall(m)

Answer == \E p \in Port : \E a \in Line, d \in Latency(p) : Respond(p, a, d)

Run == Wakeup \/ Attempt \/ Full \/ Drained \/ Tick

Next ==
    \/ \E p \in Port : \E a \in Line, d \in Latency(p) : Request(p, a, d)
    \/ Answer
    \/ Run

\* The event queue runs what is scheduled and advances time, and the other
\* controllers answer every open transaction.
Fairness == WF_vars(Run) /\ WF_vars(Answer)

Spec == Init /\ [][Next]_vars /\ Fairness

-----------------------------------------------------------------------------
(* Properties *)

MsgRecord == [st : {"none", "heap", "stalled", "done"}, kind : {"req", "resp"},
              port : Port, line : Line, on : Line,
              wait : Nat, tries : Nat]

\* The types of the messages and of what buffers and controller record.
TypeOK ==
    /\ ctl \in Controllers
    /\ maxSize \in Nat
    /\ msg \in [Msg -> MsgRecord]
    /\ count \in Nat
    /\ cyc \in [Port -> [popped : BOOLEAN, size : Nat, enqueued : Nat]]
    /\ waiting \in [Line -> [Rank -> Port \cup {NULL}]]

\* wakeUpBuffers wakes lower ranks only and then erases every registration of
\* the address.  Still no message is forgotten in a stall table: whatever is
\* stalled on an address is registered there, under the rank of its port, for
\* the transition that ends the transaction to find.
StalledIsRegistered ==
    \A m \in Msg : msg[m].st = "stalled" =>
        waiting[msg[m].on][ctl.rank[msg[m].port]] = msg[m].port

\* reanalyzeMessages asserts m_stall_msg_map.count(addr) > 0: a buffer that is
\* registered for an address holds a message stalled on that address, also
\* after several stalls, wakeups and replacements of other lines.
RegisteredHoldsStalled ==
    \A a \in Line, r \in Rank :
        waiting[a][r] # NULL => StalledOn(waiting[a][r], a) # {}

\* enqueue asserts that heap and stall table together fit m_max_size: the
\* size that areNSlotsAvailable shows to the sender in a cycle with pops,
\* stalls, wakeups and enqueues is never too small.
BufferFits ==
    \A p \in Port :
        maxSize = 0 \/ Cardinality(Held(p)) <= maxSize

\* No lost wakeup: between two wakeups every message in a heap has an event of
\* the Consumer at the cycle in which it arrives, or, if it has arrived and
\* the loop was full, in the next one.
WakeupIsScheduled ==
    loop = Idle =>
        \A m \in Msg : msg[m].st = "heap" =>
            \E t \in sched : t <= (IF msg[m].wait = 0 THEN 1 ELSE msg[m].wait)

\* No send to an ordered buffer can panic with "FIFO ordering violated":
\* whatever is held there, awake or stalled, and however often it was woken
\* or left for a later cycle, arrives no later than the next message would.
OrderedNeverPanics ==
    \A p \in Port : \A d \in Latency(p) : InFifoOrder(p, d)

\* Every message is handled: a stall or a recycle only delays it, whatever the
\* ports' ranks and the order in which lines close.  (With bounded buffers a
\* stalled request may keep the answer it waits for out of a shared buffer.)
EveryMessageHandled ==
    maxSize = 0 => <>[](\A m \in Msg : msg[m].st \in {"none", "done"})

=============================================================================
