-------------------------------- MODULE EthRx --------------------------------
(***************************************************************************)
(* Reception: the main loop polls the receive ring of the Ethernet MAC     *)
(* (Firmware/LWIP/App/lwip.c, Firmware/LWIP/Target/ethernetif.c and the    *)
(* parts of stm32f4xx_hal_eth.c they call), while the MAC's DMA writes     *)
(* frames into the buffers that the descriptors of the ring point to.      *)
(*                                                                         *)
(* The path copies nothing: a buffer goes from the pool to a descriptor,   *)
(* to the DMA, back, to the LwIP stack and, freed, to the pool.  When the  *)
(* pool is exhausted, reception waits for RxAllocStatus.  Every 100 ms the *)
(* link is checked and the MAC stopped or started.                         *)
(*                                                                         *)
(* All of it runs in the main loop (NO_SYS); the DMA runs next to it.  A   *)
(* frame fits one buffer (1536 bytes), so a frame is one descriptor.       *)
(***************************************************************************)
EXTENDS Naturals, FiniteSets

CONSTANTS
    RxDescCnt,      \* ETH_RX_DESC_CNT
    Buffers,        \* RX_POOL, ETH_RX_BUFFER_CNT of them
    None,           \* no buffer
    BusErrors,      \* may the DMA fail with a fatal bus error?
    MaxFrames,      \* bound: frames received
    MaxStops        \* bound: times the link check takes the link down

ASSUME DescAssumption == RxDescCnt \in Nat \ {0}
ASSUME NoneAssumption == None \notin Buffers
ASSUME BufferAssumption ==      \* "between ETH_RX_DESC_CNT and ..." (ethernetif.c:69)
    IsFiniteSet(Buffers) /\ Cardinality(Buffers) >= RxDescCnt
ASSUME BusAssumption == BusErrors \in BOOLEAN
ASSUME EthBoundAssumption == MaxFrames \in Nat /\ MaxStops \in Nat

VARIABLES
    \* the descriptors, each a function of the index
    own,        \* OWN of DESC0: the DMA may write to the buffer
    buf,        \* BackupAddr0: the buffer attached, or None
    addr,       \* DESC2: where the DMA writes
    \* RxDescList
    rd,         \* RxDescIdx: the descriptor to be read next
    bld,        \* RxBuildDescIdx: the one to be given back next
    cnt,        \* RxBuildDescCnt: how many are to be given back
    \* hardware
    hw,         \* the descriptor the DMA is at; it survives a stop
    data,       \* per buffer: the frame last written into it
    arrived,    \* frames written so far; a frame is its number
    \* the main loop
    mac,        \* heth.gState
    alloc,      \* RxAllocStatus: "OK" or "ERROR"
    link,       \* netif_is_link_up()
    pool,       \* RX_POOL: the free buffers
    stack,      \* the buffers LwIP holds
    hand,       \* the buffer ReadData hands up
    pc,         \* where the main loop is
    \* history
    last,       \* the frame delivered last
    stops,      \* times the link was taken down
    inStep      \* every start found the DMA where the main loop reads

ring   == <<own, buf, addr, rd, bld, cnt>>
dma    == <<hw, data, arrived>>
owners == <<pool, stack, hand>>
vars   == <<ring, dma, mac, alloc, link, owners, pc, last, stops, inStep>>

Desc == 0 .. RxDescCnt - 1
StepPast(i) == IF i = RxDescCnt THEN 0 ELSE i + 1      \* mutant: one too far
Step(i) == IF i + 1 = RxDescCnt THEN 0 ELSE i + 1      \* INCR_RX_DESC_INDEX

TypeOK ==
    /\ own \in [Desc -> BOOLEAN]
    /\ buf \in [Desc -> Buffers \cup {None}]
    /\ addr \in [Desc -> Buffers \cup {None}]
    /\ rd \in Desc /\ bld \in Desc /\ hw \in Desc
    /\ cnt \in 0 .. RxDescCnt
    /\ data \in [Buffers -> Nat] /\ arrived \in Nat
    /\ mac \in {"ready", "busy", "started", "error"}
    /\ alloc \in {"OK", "ERROR"} /\ link \in BOOLEAN
    /\ pool \subseteq Buffers /\ stack \subseteq Buffers
    /\ hand \in Buffers \cup {None}
    /\ pc \in {"input", "build", "deliver", "timers", "link", "start"}
    /\ last \in Nat /\ stops \in Nat /\ inStep \in BOOLEAN

(* HAL_ETH_Init() has prepared the ring; low_level_init() goes on to the    *)
(* link check, unless the PHY does not answer.                              *)
Init ==
    /\ own = [i \in Desc |-> TRUE]
    /\ buf = [i \in Desc |-> None] /\ addr = [i \in Desc |-> None]
    /\ rd = 0 /\ bld = 0 /\ cnt = 0 /\ hw = 0
    /\ data = [b \in Buffers |-> 0] /\ arrived = 0
    /\ mac = "ready" /\ alloc = "OK" /\ link = FALSE
    /\ pool = Buffers /\ stack = {} /\ hand = None
    /\ pc \in {"link", "input"}
    /\ last = 0 /\ stops = 0 /\ inStep = TRUE

---------------------------------------------------------------------------
(* ethernetif_input(): low_level_input() reads while RxAllocStatus permits, *)
(* HAL_ETH_ReadData() while the MAC is started.                             *)
MayRead == alloc = "OK" /\ mac = "started"

(* A descriptor that the DMA has given back and that is not still to be     *)
(* built holds a frame.                                                     *)
FrameReady == ~own[rd] /\ cnt < RxDescCnt

(* HAL_ETH_ReadData() takes the frame of descriptor rd ...                  *)
ReadFrameKeeping ==         \* mutant: BackupAddr0 is not cleared
    /\ pc = "input" /\ MayRead /\ FrameReady
    /\ hand' = addr[rd]
    /\ rd' = Step(rd)
    /\ cnt' = cnt + 1
    /\ pc' = "build"
    /\ UNCHANGED <<own, buf, addr, bld, dma, mac, alloc, link, pool, stack, last, stops, inStep>>
ReadFrame ==
    /\ pc = "input" /\ MayRead /\ FrameReady
    /\ hand' = addr[rd]
    /\ buf' = [buf EXCEPT ![rd] = None]
    /\ rd' = Step(rd)
    /\ cnt' = cnt + 1
    /\ pc' = "build"
    /\ UNCHANGED <<own, addr, bld, dma, mac, alloc, link, pool, stack, last, stops, inStep>>

(* ... or has none, and only gives descriptors back.                        *)
ReadNothing ==
    /\ pc = "input"
    /\ ~(MayRead /\ FrameReady)
    /\ pc' = IF MayRead /\ cnt # 0 THEN "build" ELSE "timers"
    /\ UNCHANGED <<ring, dma, mac, alloc, link, owners, last, stops, inStep>>

(* ETH_UpdateDescriptor() gives descriptor bld back to the DMA, with its    *)
(* own buffer if it has one, else with one from HAL_ETH_RxAllocateCallback. *)
Building == pc \in {"build", "start"} /\ cnt > 0

GiveBackAny(b) ==       \* mutant: a buffer is allocated although one is attached
    /\ Building
    /\ b \in pool
    /\ buf' = [buf EXCEPT ![bld] = b]
    /\ addr' = [addr EXCEPT ![bld] = b]
    /\ pool' = pool \ {b}
    /\ own' = [own EXCEPT ![bld] = TRUE]
    /\ bld' = Step(bld) /\ cnt' = cnt - 1
    /\ UNCHANGED <<rd, dma, mac, alloc, link, stack, hand, pc, last, stops, inStep>>
GiveBack(b) ==
    /\ Building
    /\ IF buf[bld] # None THEN b = buf[bld] ELSE b \in pool
    /\ buf' = [buf EXCEPT ![bld] = b]
    /\ addr' = IF buf[bld] = None THEN [addr EXCEPT ![bld] = b] ELSE addr
    /\ pool' = pool \ {b}
    /\ own' = [own EXCEPT ![bld] = TRUE]
    /\ bld' = Step(bld) /\ cnt' = cnt - 1
    /\ UNCHANGED <<rd, dma, mac, alloc, link, stack, hand, pc, last, stops, inStep>>

(* It stops when all are given back or the pool is empty; then ReadData or  *)
(* HAL_ETH_Start_IT() goes on.                                              *)
Starved == cnt > 0 /\ buf[bld] = None /\ pool = {}

BuildEnds ==
    /\ pc \in {"build", "start"}
    /\ cnt = 0 \/ Starved
    /\ alloc' = IF Starved THEN "ERROR" ELSE alloc
    /\ IF pc = "build"
       THEN /\ pc' = IF hand = None THEN "timers" ELSE "deliver"
            /\ UNCHANGED <<mac, link>>
       ELSE mac' = "started" /\ link' = TRUE /\ pc' = "input"
    /\ UNCHANGED <<ring, dma, owners, last, stops, inStep>>

(* pbuf_free_custom(): buffers return to the pool, and reception may go on. *)
FreedSilently(s) ==         \* mutant: RxAllocStatus stays
    /\ pool' = pool \cup s
    /\ UNCHANGED alloc
Freed(s) ==
    /\ pool' = pool \cup s
    /\ alloc' = IF s # {} THEN "OK" ELSE alloc

(* netif->input(): LwIP keeps the frame or frees it, and may free others.   *)
Deliver ==
    /\ pc = "deliver"
    /\ \E s \in SUBSET (stack \cup {hand}) :
        Freed(s) /\ stack' = (stack \cup {hand}) \ s
    /\ last' = data[hand]
    /\ hand' = None
    /\ pc' = "input"
    /\ UNCHANGED <<ring, dma, mac, link, stops, inStep>>

(* sys_check_timeouts() lets LwIP free what it kept.                        *)
Release ==
    /\ pc = "timers"
    /\ \E s \in SUBSET stack :
        s # {} /\ Freed(s) /\ stack' = stack \ s
    /\ UNCHANGED <<ring, dma, mac, link, hand, pc, last, stops, inStep>>

(* Ethernet_Link_Periodic_Handle(): the link is checked once in 100 ms.     *)
TimersDone ==
    /\ pc = "timers"
    /\ pc' \in {"input", "link"}
    /\ UNCHANGED <<ring, dma, mac, alloc, link, owners, last, stops, inStep>>

---------------------------------------------------------------------------
(* ethernet_link_check_state(): a PHY that is down, or does not answer,     *)
(* takes the link down,                                                     *)
LinkDown ==
    /\ pc = "link" /\ link
    /\ stops < MaxStops
    /\ mac' = IF mac = "started" THEN "ready" ELSE mac
    /\ link' = FALSE
    /\ stops' = stops + 1
    /\ pc' = "input"
    /\ UNCHANGED <<ring, dma, alloc, owners, last, inStep>>

(* one that has negotiated brings it up: HAL_ETH_Start_IT() gives all       *)
(* descriptors back, those with unread frames too.                          *)
LinkUp ==
    /\ pc = "link" /\ ~link /\ mac = "ready"
    /\ mac' = "busy"
    /\ cnt' = RxDescCnt
    /\ pc' = "start"
    /\ inStep' = (inStep /\ hw = rd /\ bld = rd)
    /\ last' = arrived
    /\ UNCHANGED <<own, buf, addr, rd, bld, dma, alloc, link, owners, stops>>

(* A MAC that is not READY refuses to start; the netif goes up all the same.*)
LinkUpRefused ==
    /\ pc = "link" /\ ~link /\ mac # "ready"
    /\ link' = TRUE
    /\ pc' = "input"
    /\ UNCHANGED <<ring, dma, mac, alloc, owners, last, stops, inStep>>

(* The link has not changed, or the PHY is still negotiating.               *)
LinkSame ==
    /\ pc = "link"
    /\ pc' = "input"
    /\ UNCHANGED <<ring, dma, mac, alloc, link, owners, last, stops, inStep>>

---------------------------------------------------------------------------
(* The DMA writes a frame to the descriptor it is at, if it owns it; a      *)
(* frame that finds none is lost in the MAC.                                *)
DmaReceive ==
    /\ mac = "started" /\ own[hw]
    /\ arrived < MaxFrames
    /\ data' = [data EXCEPT ![addr[hw]] = arrived + 1]
    /\ own' = [own EXCEPT ![hw] = FALSE]
    /\ hw' = Step(hw)
    /\ arrived' = arrived + 1
    /\ UNCHANGED <<buf, addr, rd, bld, cnt, mac, alloc, link, owners, pc, last, stops, inStep>>

(* HAL_ETH_IRQHandler(): a fatal bus error.  No code leaves the state.      *)
BusError ==
    /\ BusErrors /\ mac = "started"
    /\ mac' = "error"
    /\ UNCHANGED <<ring, dma, alloc, link, owners, pc, last, stops, inStep>>

MainLoop ==
    \/ ReadFrame \/ ReadNothing
    \/ \E b \in Buffers : GiveBack(b)
    \/ BuildEnds \/ Deliver \/ TimersDone
    \/ LinkDown \/ LinkUp \/ LinkUpRefused \/ LinkSame

Next == MainLoop \/ Release \/ DmaReceive \/ BusError

Spec == Init /\ [][Next]_vars

(* The main loop goes round, and LwIP does not keep buffers for ever: its   *)
(* timers expire.                                                           *)
FairSpec == Spec /\ WF_vars(MainLoop) /\ SF_vars(Release)

---------------------------------------------------------------------------
Held == {buf[i] : i \in Desc} \ {None}

(* While every start has found the ring in step: a buffer is in exactly one *)
(* place, the pool, a descriptor, the hands of ReadData or LwIP; and what   *)
(* the DMA owns it writes to the buffer attached.  A frame LwIP still reads *)
(* is never overwritten, and no buffer leaks (the zero-copy path of         *)
(* ethernetif.c:55-59).                                                     *)
OneOwner ==
    inStep =>
        /\ \A i, j \in Desc : buf[i] # None /\ buf[i] = buf[j] => i = j
        /\ pool \cap stack = {} /\ pool \cap Held = {} /\ stack \cap Held = {}
        /\ hand \notin pool \cup stack \cup Held
        /\ pool \cup stack \cup Held \cup ({hand} \ {None}) = Buffers
        /\ mac = "started" => \A i \in Desc : own[i] => addr[i] = buf[i] /\ buf[i] # None

(* While every start has found the ring in step, frames are handed up in    *)
(* the order they were received, each once and none skipped, but for those  *)
(* a start gives up (HAL_ETH_ReadData()).                                   *)
InOrder == inStep /\ pc = "deliver" => data[hand] = last + 1

(* A frame received is handed up unless the MAC stops: no refill that was   *)
(* put off, no exhausted pool leaves it in the ring (ethernetif_input(),    *)
(* RxAllocStatus).                                                          *)
EveryFrameHeard ==
    \A f \in 1 .. MaxFrames :
        arrived >= f ~> last >= f \/ mac # "started" \/ ~inStep

(* A started MAC is never left without a descriptor: when the pool was      *)
(* exhausted, the buffers LwIP frees reach the DMA (pbuf_free_custom()).    *)
ReceptionRecovers ==
    mac = "started" ~> (mac # "started" \/ \E i \in Desc : own[i])

(* ETH_UpdateDescriptor() "gives back Rx Desc of the last received Packet   *)
(* to the DMA, so ETH DMA will be able to use these descriptors to receive  *)
(* next Packets" (stm32f4xx_hal_eth.c:1187-1189): when nothing is left to   *)
(* give back, each descriptor has its buffer.                               *)
ReadIsGivenBack ==
    mac = "started" /\ cnt = 0 => \A i \in Desc : buf[i] # None
=============================================================================
