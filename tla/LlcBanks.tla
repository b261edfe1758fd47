------------------------------ MODULE LlcBanks ------------------------------
(***************************************************************************)
(* The data and tag banks of the MERSI L2 (the last-level cache) with      *)
(* periodic refresh: BankedArray, the "Specf" half of CacheMemory, and the *)
(* part of the L2 controller that asks for the banks and reserves them.    *)
(*                                                                         *)
(* A message at the head of one of the L2's in_ports is attempted at its   *)
(* ready cycle.  The L2 first asks whether the banks of the line's set are *)
(* free; if they are not, the message is recycled, that is retried         *)
(* RecycleLatency cycles later.  If they are, the transition runs and      *)
(* reserves the banks for a time that depends on the access and on the     *)
(* refresh phase.  Ticks are counted in cycles: every comparison of the    *)
(* code multiplies both sides by the same clock period.                    *)
(***************************************************************************)
EXTENDS Integers, FiniteSets

CONSTANTS
    Messages,            \* messages that reach the L2's in_ports
    NumSets,             \* cache sets (addressToCacheSet)
    NumDataBanks, NumTagBanks,
    DataReadLatency, TagReadLatency, DataWriteLatency, TagWriteLatency,
    SerialLatency,       \* serial_latency: data read starts after the tag read
    ParallelPenalty,     \* parallel_penalty
    ParallelMode,        \* l2_serial_parallel_mode == 1
    DataRefreshEnabled, DataRefreshPeriod, DataRefreshTotal,
    TagRefreshEnabled, TagRefreshPeriod, TagRefreshTotal,
    RecycleLatency,      \* recycle_latency of the controller
    AccessLatency,       \* dataAccessLatency/tagAccessLatency of the RubyCache
    ResourceStalls,      \* resourceStalls of the RubyCache
    CycleMod,            \* 2^64: Cycles is an unsigned 64-bit integer
    LastArrival          \* bound: no message arrives after this cycle

ASSUME SizeAssumption ==
    /\ NumSets \in Nat \ {0}
    /\ NumDataBanks \in Nat \ {0}
    /\ NumTagBanks \in Nat \ {0}

ASSUME LatencyAssumption ==
    /\ DataReadLatency \in Nat /\ TagReadLatency \in Nat
    /\ DataWriteLatency \in Nat /\ TagWriteLatency \in Nat
    /\ SerialLatency \in Nat /\ ParallelPenalty \in Nat
    /\ RecycleLatency \in Nat \ {0}
    /\ LastArrival \in Nat
    /\ ParallelMode \in BOOLEAN

\* The configuration script passes period - latency and period, in that order.
ASSUME RefreshAssumption ==
    /\ DataRefreshPeriod \in Nat /\ TagRefreshPeriod \in Nat
    /\ DataRefreshTotal \in Nat \ {0} /\ TagRefreshTotal \in Nat \ {0}
    /\ DataRefreshPeriod <= DataRefreshTotal
    /\ TagRefreshPeriod <= TagRefreshTotal
    /\ DataRefreshEnabled \in BOOLEAN /\ TagRefreshEnabled \in BOOLEAN
    /\ CycleMod \in Nat
    /\ DataRefreshTotal <= CycleMod /\ TagRefreshTotal <= CycleMod

\* The only configuration that builds this L2 sets resourceStalls=True and
\* leaves the access latencies at their default of one cycle.
ASSUME StallAssumption ==
    /\ ResourceStalls = TRUE
    /\ AccessLatency \in Nat \ {0}

VARIABLES
    now,        \* curCycle()
    data,       \* busyBanks of the data array
    tag,        \* busyBanks of the tag array
    msg,        \* what each message is, where it goes, and when it is ready
    panicked    \* panic("BankedArray reservation error") was reached

vars == <<now, data, tag, msg, panicked>>

-----------------------------------------------------------------------------
(* BankedArray *)

DataBanks == 0 .. NumDataBanks - 1
TagBanks == 0 .. NumTagBanks - 1
Sets == 0 .. NumSets - 1

AccessRecord == [idx : Sets, startAccess : Nat, endAccess : Nat]

mapIndexToBank(idx, banks) == IF banks = 1 THEN 0 ELSE idx % banks

tryAccessSpecf(array, banks, idx, cycle) ==
    \/ AccessLatency = 0
    \/ array[mapIndexToBank(idx, banks)].endAccess < cycle

\* The bank is taken at init_cycle, by something other than this very access.
ReservationError(array, banks, idx, access_time, init_cycle) ==
    LET bank == array[mapIndexToBank(idx, banks)]
    IN  /\ access_time # 0
        /\ bank.endAccess >= init_cycle
        /\ ~(bank.startAccess = init_cycle /\ bank.idx = idx)

\* Mutant: the start is the current cycle.
reserveSpecf_AtNow(array, banks, idx, access_time, init_cycle) ==
    LET b == mapIndexToBank(idx, banks)
    IN  IF access_time = 0 \/ array[b].endAccess >= init_cycle
        THEN array
        ELSE [array EXCEPT ![b] =
                [idx |-> idx, startAccess |-> now,
                 endAccess |-> now + (access_time - 1)]]

reserveSpecf(array, banks, idx, access_time, init_cycle) ==
    LET b == mapIndexToBank(idx, banks)
    IN  IF access_time = 0 \/ array[b].endAccess >= init_cycle
        THEN array
        ELSE [array EXCEPT ![b] =
                [idx |-> idx, startAccess |-> init_cycle,
                 endAccess |-> init_cycle + (access_time - 1)]]

\* CacheMemory::checkResourceAvailableSpecf
checkResourceAvailableSpecf(array, banks, idx, cycle) ==
    ~ResourceStalls \/ tryAccessSpecf(array, banks, idx, cycle)

-----------------------------------------------------------------------------
(* The L2's refresh arithmetic *)

\* Every bank starts its refresh rotation at the same cycle.
getRefreshStartPoint == 0

Minus(a, b) == (a - b) % CycleMod

Phase(cycle, total) == (cycle - getRefreshStartPoint) % total

\* Mutant: the window test is inverted into "any cycle after the start point".
dataBankCheckRefresh_Always(cycle) ==
    cycle >= getRefreshStartPoint

dataBankCheckRefresh(cycle) ==
    /\ cycle >= getRefreshStartPoint
    /\ Phase(cycle, DataRefreshTotal) > DataRefreshPeriod

tagBankCheckRefresh(cycle) ==
    /\ cycle >= getRefreshStartPoint
    /\ Phase(cycle, TagRefreshTotal) > TagRefreshPeriod

additionalDataRefreshLatency(cycle) ==
    IF cycle >= getRefreshStartPoint /\ DataRefreshEnabled
    THEN Minus(Phase(cycle, DataRefreshTotal), DataRefreshPeriod)
    ELSE 0

additionalTagRefreshLatency(cycle) ==
    IF cycle >= getRefreshStartPoint /\ TagRefreshEnabled
    THEN Minus(Phase(cycle, TagRefreshTotal), TagRefreshPeriod)
    ELSE 0

DataTime(base, cycle) ==
    IF dataBankCheckRefresh(cycle)
    THEN base + additionalDataRefreshLatency(cycle)
    ELSE base

TagTime(base, cycle) ==
    IF tagBankCheckRefresh(cycle)
    THEN base + additionalTagRefreshLatency(cycle)
    ELSE base

-----------------------------------------------------------------------------
(* Which event a message raises, and what its transition reserves *)

L2States == {"NP", "SS", "M", "MT", "ISS", "IS", "IM", "SS_MB", "MT_MB",
             "MT_IIB", "MT_IB", "MT_SB", "M_I", "MT_I", "MCT_I", "I_I", "S_I"}

MessageTypes == {"GETS", "GET_INSTR", "GETX", "UPGRADE", "PUTX",
                 "DATA", "MEMORY_DATA"}

\* Mutant: a writeback into MT reserves its banks without asking for them.
BankCheck_NoPutx(type, st, sharer) ==
    IF type \in {"PUTX", "DATA"} THEN "none"
    ELSE IF st \in {"SS", "M"} THEN "serial" ELSE "now"

\* The cycle at which the data bank must be free, relative to now: "serial" on
\* a hit, "now" on a miss or a write, "none" where the L2 does not ask.
BankCheck(type, st, sharer) ==
    CASE type \in {"GETS", "GET_INSTR"} ->
            IF st \in {"SS", "M"} THEN "serial"
            ELSE IF st \in {"NP", "MT", "IS", "ISS"} THEN "now" ELSE "none"
      [] type = "GETX" \/ (type = "UPGRADE" /\ ~sharer) ->
            IF st \in {"SS", "M"} THEN "serial"
            ELSE IF st \in {"NP", "MT"} THEN "now" ELSE "none"
      [] type = "UPGRADE" /\ sharer -> IF st = "SS" THEN "serial" ELSE "none"
      [] type = "PUTX" -> IF sharer /\ st = "MT" THEN "now" ELSE "none"
      [] type = "DATA" -> IF st \in {"MT_IB", "MT_IIB"} THEN "now" ELSE "none"
      [] type = "MEMORY_DATA" -> "now"

BanksFree(check, idx) ==
    \/ check = "none"
    \/ /\ checkResourceAvailableSpecf(data, NumDataBanks, idx,
             IF check = "serial" THEN now + SerialLatency ELSE now)
       /\ checkResourceAvailableSpecf(tag, NumTagBanks, idx, now)

\* The reserve action of the transition the message takes, if it has one.
ReserveAction(type, st, sharer) ==
    CASE type \in {"GETS", "GET_INSTR"} /\ st \in {"SS", "M"} -> "hit"
      [] type \in {"GETS", "GET_INSTR"} /\ st \in {"NP", "IS", "ISS", "MT"} -> "miss"
      [] type = "GETX" \/ (type = "UPGRADE" /\ ~sharer) ->
            IF st \in {"SS", "M"} THEN "hit"
            ELSE IF st \in {"NP", "MT"} THEN "miss" ELSE "none"
      [] type = "UPGRADE" /\ sharer /\ st = "SS" -> "hit"
      [] type = "PUTX" /\ sharer /\ st = "MT" -> "write"
      [] type = "DATA" /\ st \in {"MT_IB", "MT_IIB"} -> "write"
      [] type = "MEMORY_DATA" /\ st \in {"ISS", "IS", "IM"} -> "write"
      [] OTHER -> "none"

\* [data |-> access time, tag |-> access time, init |-> data start cycle]
r_reserveBanks(act) ==
    IF act = "write"
    THEN [data |-> DataTime(DataWriteLatency, now), init |-> now,
          tag |-> TagTime(TagWriteLatency, now)]
    ELSE IF act = "hit"
    THEN [data |-> DataTime(DataReadLatency, now + SerialLatency),
          init |-> now + SerialLatency,
          tag |-> TagTime(TagReadLatency, now)]
    ELSE IF act = "miss"
    THEN [data |-> IF ParallelMode
                   THEN DataTime(TagReadLatency, now) + ParallelPenalty ELSE 0,
          init |-> now,
          tag |-> TagTime(TagReadLatency, now)]
    ELSE [data |-> 0, init |-> now, tag |-> 0]

\* What the L2 checks and then reserves for a message of each type, over the
\* states its line may be in when the message is attempted.
Attempts ==
    [type \in MessageTypes |->
        {[check |-> BankCheck(type, st, sharer),
          reserve |-> ReserveAction(type, st, sharer)] :
            st \in L2States, sharer \in BOOLEAN}]

-----------------------------------------------------------------------------

NoMsg == [status |-> "none", type |-> "GETS", idx |-> 0, ready |-> 0]
Done == [status |-> "done", type |-> "GETS", idx |-> 0, ready |-> 0]

Init ==
    /\ now = 0
    /\ data = [b \in DataBanks |-> [idx |-> 0, startAccess |-> 0, endAccess |-> 0]]
    /\ tag = [b \in TagBanks |-> [idx |-> 0, startAccess |-> 0, endAccess |-> 0]]
    /\ msg = [m \in Messages |-> NoMsg]
    /\ panicked = FALSE

\* A message for some line of set idx becomes ready at an in_port.
Arrive(m) ==
    /\ ~panicked
    /\ msg[m].status = "none"
    /\ now <= LastArrival
    /\ \E type \in MessageTypes, idx \in Sets :
          msg' = [msg EXCEPT ![m] = [status |-> "queued", type |-> type,
                                     idx |-> idx, ready |-> now]]
    /\ UNCHANGED <<now, data, tag, panicked>>

\* Mutant: the recycled message is ready again in the same cycle.
Recycle_SameCycle(m) ==
    /\ ~panicked
    /\ msg[m].status = "queued" /\ msg[m].ready <= now
    /\ \E a \in Attempts[msg[m].type] : ~BanksFree(a.check, msg[m].idx)
    /\ UNCHANGED vars

\* L1_STALL_DATA, MEM_STALL_DATA: some bank is busy, the message is retried.
Recycle(m) ==
    /\ ~panicked
    /\ msg[m].status = "queued" /\ msg[m].ready <= now
    /\ \E a \in Attempts[msg[m].type] : ~BanksFree(a.check, msg[m].idx)
    /\ msg' = [msg EXCEPT ![m].ready = now + RecycleLatency]
    /\ UNCHANGED <<now, data, tag, panicked>>

\* The banks are free: the transition runs and makes its reservations.
Handle(m) ==
    /\ ~panicked
    /\ msg[m].status = "queued" /\ msg[m].ready <= now
    /\ \E a \in Attempts[msg[m].type] :
        LET i == msg[m].idx
            r == r_reserveBanks(a.reserve)
        IN  /\ BanksFree(a.check, i)
            /\ data' = reserveSpecf(data, NumDataBanks, i, r.data, r.init)
            /\ tag' = reserveSpecf(tag, NumTagBanks, i, r.tag, now)
            /\ panicked' = (\/ ReservationError(data, NumDataBanks, i, r.data, r.init)
                            \/ ReservationError(tag, NumTagBanks, i, r.tag, now))
    /\ msg' = [msg EXCEPT ![m] = Done]
    /\ UNCHANGED now

\* A cycle passes once every ready message has been attempted.
Tick ==
    /\ ~panicked
    /\ \A m \in Messages : msg[m].status = "queued" => msg[m].ready > now
    /\ now <= LastArrival \/ \E m \in Messages : msg[m].status = "queued"
    /\ now' = now + 1
    /\ UNCHANGED <<data, tag, msg, panicked>>

Next ==
    \/ \E m \in Messages : Arrive(m) \/ Recycle(m) \/ Handle(m)
    \/ Tick

\* The event queue advances time, and wakes the L2 for every ready message.
Fairness ==
    /\ WF_vars(Tick)
    /\ \A m \in Messages : WF_vars(Recycle(m) \/ Handle(m))

Spec == Init /\ [][Next]_vars /\ Fairness

-----------------------------------------------------------------------------
(* Properties *)

Message == [status : {"none", "queued", "done"}, type : MessageTypes,
            idx : Sets, ready : Nat]

\* The variables stay in their types: bank records, messages and the clock.
TypeOK ==
    /\ now \in Nat
    /\ data \in [DataBanks -> AccessRecord]
    /\ tag \in [TagBanks -> AccessRecord]
    /\ \A b \in DataBanks : data[b].startAccess <= data[b].endAccess
    /\ \A b \in TagBanks : tag[b].startAccess <= tag[b].endAccess
    /\ msg \in [Messages -> Message]
    /\ panicked \in BOOLEAN

\* BankedArray::reserveSpecf never reaches panic("BankedArray reservation
\* error"): whatever the L2 reserves in a transition, on whatever line state
\* and at whatever refresh phase, it asked for before raising the event.
NoReservationError == ~panicked

\* How long past the current cycle an access may keep a bank.
MaxHold ==
    SerialLatency + DataReadLatency + DataWriteLatency + TagReadLatency
      + TagWriteLatency + ParallelPenalty
      + (DataRefreshTotal - DataRefreshPeriod)
      + (TagRefreshTotal - TagRefreshPeriod)

\* The refresh penalty is at most one refresh window: no bank is ever held
\* longer than its access plus the window, so the unsigned subtraction in
\* additionalDataRefreshLatency and additionalTagRefreshLatency never wraps.
HoldBounded ==
    /\ \A b \in DataBanks : data[b].endAccess <= now + MaxHold
    /\ \A b \in TagBanks : tag[b].endAccess <= now + MaxHold

\* A bank serves one access at a time: a reservation that replaces another
\* begins only after the earlier access has ended, even when the data read
\* of a hit was booked serial_latency cycles ahead.
OneAccessAtATime ==
    [][/\ \A b \in DataBanks :
            data'[b] # data[b] => data'[b].startAccess > data[b].endAccess
       /\ \A b \in TagBanks :
            tag'[b] # tag[b] => tag'[b].startAccess > tag[b].endAccess]_vars

\* Recycling is not a livelock: once arrivals stop, every message that found
\* a bank busy is handled by some later retry.
EveryMessageHandled ==
    \A m \in Messages : msg[m].status = "queued" ~> msg[m].status = "done"

=============================================================================
