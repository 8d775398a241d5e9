# PolarFire SoC examples: specifications, checks and proofs

TLA+ models of the concurrent parts of the bare-metal and FreeRTOS examples in
this repository, TLC configurations that check them on small instances, and
TLAPS proofs of their safety properties for every value of the constants.
Paths below are relative to `src/`; short names are

    M   pse-freertos-lwip/src/platform/drivers/mss_mac/mss_ethernet_mac.c
    E   pse-freertos-lwip/src/modules/lwip-2.0.0-wip-port-freertos-pfsoc/netif/m2sxxx_ethernetif.c
    P   pse-freertos-lwip/src/modules/free-rtos-8.2.3-pfsoc/portable/GCC/RISCV/
    K   pse-freertos-lwip/src/modules/free-rtos-8.2.3-pfsoc/
    L   pse-freertos-lwip/src/modules/lwip-2.0.0-wip/
    B   pse-blinky/src/

    tlc -workers 2 -config MCMacTx.cfg MCMacTx      # any .cfg, with the MC module it belongs to
    tlapm MacTxProofs.tla                           # any *Proofs.tla

## 1. Inventory

### Ethernet MAC driver (M) and lwIP network interface (E)
*State.* Per queue: `nb_available_tx_desc`, `tx_desc_tab`, `nb_available_rx_desc`,
`next_free_rx_desc_index`, `first_rx_desc_index`, `rx_desc_tab`,
`overflow_counter`, `in_isr`; in E the buffers `g_mac_tx_buffer[0]`,
`g_mac_rx_buffer[]` and the binary semaphore `xSemaphore`; in the hardware the
GEM's registers and its two DMA engines, the PLIC enable bit of the interrupt.

*Operations.* `low_level_init`, `low_level_output` (any task that sends, mostly
`tcpip_thread`), `low_level_input` (in the interrupt), `MSS_MAC_send_pkt`,
`MSS_MAC_receive_pkt`, `generic_mac_irq_handler` with `rxpkt_handler` and
`txpkt_handler`, which call back into E.

*Hard.* Three parties share memory without locks: preemptible tasks, a handler,
and a DMA that goes on while both run. Order matters in each of the callbacks:
the semaphore is given before the descriptors are released, a receive descriptor
is posted again before it is marked unused, an interrupt bit is cleared before
the ring is looked at. Errors stop the DMA or restart it elsewhere.

*Correct when* one frame has the transmit buffer at a time and keeps it until it
has left; sends neither spin nor block for good; no receive buffer is lost,
shared or overwritten while copied; frames go up once, in order; no interrupt is
missed; a receive error is recovered from.

### FreeRTOS port for the RISC-V (P) and the lwIP system layer (sys_arch.c)
*State.* `uxCriticalNesting`, `mstatus.MIE`, `mie`, the running task and the saved
contexts. *Operations.* `vPortEnterCritical`, `vPortExitCritical`,
`vPortSetupTimer`, `xPortStartScheduler`, `vPortYield`, `TIMER_CMP_INT`; in
sys_arch.c `sys_arch_protect`, mailboxes and semaphores over FreeRTOS queues.
*Hard.* A switch may happen at any instruction, also inside a critical section
(the kernel yields there); the MAC handler enters critical sections itself, and
makes the calls of a task when nothing is pending. *Correct when* the count is
balanced whatever switches happen, a trap handler is not re-entered and returns
to the task, nothing is enabled before the scheduler runs, and interrupts come
back.

### FreeRTOS queues and scheduler (K queue.c, tasks.c)
*State.* The list each task is in by its state item and its event item, the
delayed lists with the tick each sleeper wakes at, `xTickCount`,
`xNextTaskUnblockTime`, `uxPendedTicks`, `uxSchedulerSuspended`, `xYieldPending`;
of a queue `uxMessagesWaiting`, `cTxLock`, `cRxLock`. Every mailbox and semaphore
of lwIP and of the network interface is such a queue. *Operations.*
`xQueueGenericSend`, `xQueueGenericReceive`, their calls for interrupts, the tick,
`vTaskDelay`, `vTaskSuspend`, `vTaskResume`. *Hard.* A call that blocks is a
dozen separate steps, with interrupts between any two: it suspends the
scheduler, locks the queue, looks at the clock and the queue again, enters two
lists, unlocks, resumes. Interrupts only count what they did to a locked queue;
ticks and wake-ups are held back; the tick counter wraps. *Correct when* no
wake-up is lost, nobody sleeps longer or less than asked or reports a time-out
early, `portMAX_DELAY` never times out, and a task of a higher priority that is
ready gets the processor.

### Start-up of the harts (B `platform/mpfs_hal`: entry.S, system_startup.c, mss_clint.h)
*State.* One mark per hart in RAM (`in_wfi_indicator`), one software interrupt bit
per hart in the CLINT, the state machine of hart 0. *Hard.* Five processors, a
flag read before it is initialised, interrupts raised before they are waited for.
*Correct when* all harts get through, in turn, and hart 1's application starts
after the peripherals it uses have been set up.

### UART driver, mutex, blinky application (B `drivers/mss_uart`, `mss_mutex.S`, `application`)
*State.* The lock word, the transmit FIFO, each printing hart's position in its
string. *Hard.* Two harts and interrupt handlers print on one FIFO that is looked
at once per sixteen bytes. *Correct when* strings are not mixed, no byte is
dropped and the lock comes back.

### Start-up of the web server demo (`application/hart0/e51.c`)
`mss_config_task` configures the MSS, starts lwIP and polls `g_mac_available`
before it resumes the web server. *Correct when* the server starts, and not
before the interface can be used.

### TCP/IP input (E, L api/tcpip.c, core/pbuf.c, core/memp.c, core/ipv4/ip4_frag.c)
*State.* The pool of pbufs and those of messages, the mailbox of `tcpip_thread`,
the out-of-order queue of each connection, the datagrams being reassembled,
`pbuf_free_ooseq_pending`. *Operations.* `ethernetif_input` in the interrupt,
which allocates, copies and posts; `tcpip_thread`, which delivers or keeps what
it is given, runs the timers and answers the web thread; the callback that frees
out-of-order data when an allocation has failed. *Hard.* pbufs are taken and
freed by an interrupt and two threads, and every step may find a pool or the
mailbox empty or full. *Correct when* each pbuf has one owner, none and no message
is lost on any path, and the pool comes back.

### Web server (`application/web-server`, L api/api_lib.c, api/api_msg.c, core/tcp.c, core/tcp_in.c)
*State.* The connection being served, the `netconn` and the `tcp_pcb` of each,
their mailboxes, the request in `tcpip_thread`'s mailbox. *Operations.* One thread
accepts, receives, writes, closes, deletes; `tcpip_thread` runs its requests, the
callbacks of TCP and its timers. *Hard.* Connections die under every step of the
thread; a request may stay pending and be answered by an ACK, a poll or an
error; pools and buffers run out. *Correct when* each request is answered once, pcb and
netconn agree about each other, no data or window is lost, the thread never ends
and every client has its turn.

### Utilities (`application/utils`)
The netmask helper counts leading ones; templates are string formatting.

### Mustein GPU and fractals (`pse-mustein-julia`)
One hart in one loop: Julia sets into a frame buffer. Sequential.

### GPIO, PLIC, H2F, utility HAL; vendored kernels
Register accesses, and what the demo does not use of third-party code (FreeRTOS
8.2.3, lwIP 2.0.0, printf).

### How they interact
`tcpip_thread` → `low_level_output` → `MSS_MAC_send_pkt` → DMA → interrupt →
`txpkt_handler` → semaphore → next sender. DMA → interrupt → `rxpkt_handler` →
`mac_rx_callback` → `low_level_input` (pbufs, critical sections of the port) →
`MSS_MAC_receive_pkt` → DMA, and the mailbox (a queue of the kernel) to
`tcpip_thread` → callbacks of TCP → `recvmbox` → web thread → requests, through
the same mailbox. Transmit and
receive share one handler, one PLIC bit. In blinky hart 0 releases hart 1, sets
up the UART and wakes hart 1 again; both print through the mutex.

## 2. Modules

| module | models | state ↔ code |
|---|---|---|
| `TxSlot` | abstract: a transmit slot that is free, being filled, flying or dead | |
| `MacTx` | `low_level_output`, `MSS_MAC_send_pkt`, transmit interrupt, `txpkt_handler`, transmit DMA | `sem`=`xSemaphore`, `txbuf`=`g_mac_tx_buffer[0]` (who wrote each pbuf's part), `nbAvail`=`nb_available_tx_desc`, `desc`=`tx_desc_tab[0]`, `plic`=enable bit, `intStatus`/`txStatus`/`pending`=GEM registers and their working copy |
| `MacTxProps` | properties of the above and the refinement mapping to `TxSlot` | |
| `RxFifo` | abstract: a queue of received frames, one buffer each | |
| `MacRx` | stocking of the ring, `MSS_MAC_receive_pkt`, receive interrupt, `rxpkt_handler`, the callback's copy and re-post, receive restart, receive DMA | `buf`,`used`=`rx_desc_tab[]`, `nb`,`nextFree`,`first`=the driver's count and indices, `overflow`=`overflow_counter`, `hw`,`filling`,`rxen`=the DMA; `arrived` is a history variable: frames not yet handed up |
| `MacRxProps` | properties and the mapping to `RxFifo` | |
| `PortCritical` | critical sections, yield, tick, start of the scheduler, MAC trap | `uxCriticalNesting`, `mie`=`mstatus.MIE`, `mip`=what is pending, `mepc`=where the handler's `mret` goes; `depth`,`trapDepth`: sections really entered; `trap`,`host`: where the handler is and on whose stack |
| `Mailbox` | abstract: a bounded mailbox whose clients send or receive now, later, or give up if they set a limit | |
| `Kernel` | queues with time limits, delays, suspend and resume, the scheduler and its ticks; calls from interrupts | `list`,`wake`=the list and value of `xStateListItem`, `event`=that of `xEventListItem` (`"pending"`: `xPendingReadyList`), `tick`,`nextUnblock`,`pendedTicks`,`schedSuspended`,`yieldPending`, `count`,`txLock`,`rxLock` by their names in the code; `ticks`,`timeOut`=locals of a call; `asked`,`elapsed` are history |
| `KernelProps` | properties and the mapping to `Mailbox` | |
| `RxInput` | a frame's way through pools and mailbox to the queues of TCP, IP and the application, and back to the pool | `pool`,`inpkt`,`msgapi`=memp pools, `mbox`, `pending`=`pbuf_free_ooseq_pending`, `hand`=pbufs in `tcpip_thread`'s hands, `ooseq`,`refused`,`reass`,`kept`=the queues they wait on, `asked`=the web thread's request (in the mailbox, left open, none), `leaked`=pbufs `tcp_input` forgets |
| `RxInputProps` | properties | |
| `WebServer` | the web thread over the sequential API, `tcpip_thread`'s side of it, connections | `pcb`,`netconn` with fields named after the code's, `acceptmbox`; `at`,`serving`,`buf`,`part`=the thread; `sent`,`fin`=what a client has sent; `leaked`=pbufs dropped and not freed |
| `WebServerProps` | properties | |
| `HartBoot` | `main_first_hart`, entry.S parking, `u54_1_init_hal`, software interrupts | `indicator`=`in_wfi_indicator`, `msip`=CLINT MSIP, `boot`=`sm_check_thread` and after |
| `UartTx` | `safe_MSS_UART0_polled_tx_string`, `mss_mutex.S`, `MSS_UART_polled_tx_string`, GPIO handlers | `uart_lock`, `fill_size`, `left`=string up to its NUL; `lost`,`gpio` are history |
| `MC*` | constants for TLC | |
| `*Proofs` | TLAPS proofs | |

One action is one atomic piece of the code: a task's step between two accesses to
what an interrupt, another hart or the DMA can change. In `MacTx` and `MacRx` the
handler runs to its end before a task moves, but hardware moves between any two
of its steps, and each access to a descriptor or status register is a step. In
`Kernel` an action is a critical section or what lies between two; in `RxInput`
the freeing of one pbuf or one message handled; in `WebServer` one message or
timer handled by `tcpip_thread`, which nothing but interrupts preempts, or a step
of the web thread between two blocking calls. `Kernel` justifies that the others
take a mailbox or a semaphore as one step: `ImplementsMailbox`.

Definitions whose comment begins with `MUTANT` are the same action with a
plausible slip; they are not part of any specification. Replacing the action by
its mutant makes the property it is paired with (`PROJECT.json`) fail.

## 3. Runs

| run | module, cfg | distinct states | shows |
|---|---|---|---|
| `mac_tx` | `MCMacTx` | 37,722 | `DmaReadsItsFrame`: the buffer under the DMA is the posted frame. `PostFindsRingFree`: the retry loop never turns, although the semaphore is given before the descriptors are released. `IrqRearmed`: uncounted PLIC masking is safe. `FrameLands`, `ImplementsTxSlot` |
| `macrx_safe` | `MCMacRx`, `MCMacRxSafe.cfg` | about 1.1 M | with overruns, bus errors and restarts: `RingRestocked`, `CopyStable`, `DmaHasBuffer`, `InterruptNotLost` |
| `macrx_fifo` | `MCMacRx`, `MCMacRxFifo.cfg` | 3,030 | below a full ring and without overruns: `ImplementsRxFifo`, `FrameHandedUp`, `ReceiverRecovers` |
| `macrx_erased` | `MCMacRxErased.cfg` | violation | `NoFrameErased` fails: finding 1 |
| `port_critical` | `MCPortCritical` | 2,352 | `NestingIsTotal`: the one count is everybody's sections. `TrapNotReentered`: only the handler's own yield opens it. `HearsAgain`: the hart never stays deaf |
| `hart_boot` | `MCHartBoot` | 2,625 | `NoHartLeftBehind`, `ReleasedInTurn`, `RetryNeverNeeded`, `E51Starts`, from any marks in RAM |
| `hart_boot_setup` | `MCHartBootSetup.cfg` | violation | `ApplicationAfterSetup` fails: finding 2 |
| `uart_tx` | `MCUartTx` | 78,648 | `OneStringAtATime`, `LossNeedsGpio`, `LockComesBack` |
| `kernel` | `MCKernel` | 514,869 | `NoLostWakeup`: a waiter never sleeps beside a queue that could serve it. `SleepExact`, `TimeOutHonest`: limits are kept to the tick over wraps, retries and ticks held back. `NoneStranded`, `WokenRuns`, `ImplementsMailbox` |
| `rx_input` | `MCRxInput` | 69,376 | `Conserved`: every pbuf and every message is in one place. `PendingIsQueued`: the flag is true at every step of the callback. `OnlyTheMailboxRefuses`: no pool of messages runs dry. `Reclaimed`: an empty pool fills again |
| `web_server` | `MCWebServer` | 139,188 | `AnsweredOnce`, `PointersAgree`, `PbufsAccounted`, `WindowKept`, `NeverDeaf`, `ServerRuns`, `Turn`, and the type invariant |
| `server_close` | `MCWebServer`, `MCWebClose.cfg` | violation | `CloseCalledBack` fails: finding 3 |

What the proofs (section 5) show for every value of the constants and adds
little to the above is not run again: the type invariants of all modules but
`WebServer`, `OneToken`, `MaskedUntilStart`, `InterruptsComeBack`,
`NextUnblockInTime`, `YieldRemembered`.

### Bounds
* `mac_tx`: three senders, so that one holds, one waits and one comes; chains of
  one or two pbufs, so a copy can be overtaken half way. Nothing depends on the
  ring size beyond "free" and "not free".
* `macrx_*`: rings of 3 or 4 (9 in the code): head, tail and DMA positions can
  all differ and wrap. `MaxBacklog = RING` lets the ring fill, `RING - 1` does
  not. `OverflowLimit` is the code's 4.
* `port_critical`: three tasks, two levels; two tasks can be suspended inside
  sections while a third runs. After a handler's return has gone astray nothing
  more is claimed: no step but a new interrupt is left. `BootNesting` stands for 0xaaaaaaaa: 1000 is
  beyond any nesting the run reaches; that the count is 64 bits wide never matters.
* `hart_boot`: three harts to wake (four in the default build), all 27
  combinations of marks left in RAM; the proof covers any
  number. `LAST_HART = 1` in the violation run is the value of `pse-blinky`'s
  build (`.cproject`, `MPFS_HAL_LAST_HART=1`).
* `uart_tx`: a FIFO of two bytes and strings up to five: shorter than the FIFO,
  its size exactly, and several times round. One GPIO interrupt (`MaxGpio`).
* `kernel`: a queue of one and two tasks besides the idle one suffice for a
  receiver and a sender to block, for two waiters of different priority, and for
  a task to be woken, find the message gone and wait again. `TickRange = 4`: the
  counter wraps within a sleep, and 3 is `portMAX_DELAY`. One tick and one
  interrupt's message are held back at a time (`MaxPended`, `MaxLock`). Histories
  stop at `Starved`, one turn of the counter: 49 days in the code. Three tasks, a
  queue of two and a range of six were simulated besides.
* `rx_input`: pool of three and frames of one or two pbufs: it runs out in the
  middle of a frame. Two connections and two datagrams: one to evict for the
  other, as `NumReass = 1` gives them one structure (30 in the code, more than 8
  pbufs can use; with 1 the branch is taken). `MaxReass = 4` is above the pool as
  30 is above 8, so datagrams that never become whole can hold all of it; the
  proof covers the limits below the pool. `MboxSize = 2`, `NumInpkt = 3` and
  `NumMsgApi = 2` keep the order of the code's 6, 20 and 20.
* `web_server`: three clients, one silent, over two pcbs and two netconns: one
  connection is served, one waits, the third makes `tcp_alloc` kill. Mailboxes of
  one message (6 in the code) and two segments per client: `recvmbox` fills.
  `SndBuf = BodyLen = 1`: an answer needs two writes and may wait for its ACK.
  `AcceptSize < NumNetconn` as in the code (6 and 20), which `ServerRuns` needs.

### Fairness
* `MacTx`: a ready task runs (`tcpip_thread` has the highest priority of those
  that send), an enabled interrupt is taken and its handler goes on, the DMA
  finishes or faults on a frame it has begun. Nobody is obliged to send, and
  liveness is claimed for a frame already with the DMA, so preemption by other
  tasks does not come in.
* `MacRx`: the initialising task finishes, the interrupt is taken. No frame has
  to come.
* `HartBoot`: each hart is a processor and executes.
* `UartTx`: harts execute, the UART sends. The lock is not fair: only *some*
  hart that tries gets it (`WF` on the disjunction), and only its release is
  claimed, not that each hart gets a turn. GPIO interrupts are finitely many; if
  they came without end hart 0 would not move.
* `Kernel`: the timer's interrupt comes (`WF` on a tick, counted or held back)
  and the running task goes on with the call it is in (`WF` of each task's
  `Step`). No task has to make a call and no other interrupt to come.
* `RxInput`: `tcpip_thread` runs (`WF`), since it has the highest priority. It
  looks at its timers before it fetches and fetches between them
  (`sys_timeouts_mbox_fetch`), so neither keeps the other out: `SF` of the
  reassembly timer and of the fetch. Frames keep coming (`WF`), or nothing would
  ask for a pbuf.
* `WebServer`: both threads run; each connection's timers run out; a client says
  its first words in the end, a silent one resets. Nothing is asked of it
  afterwards: not that it reads, ends, or answers. `Turn` is claimed of those that
  are not silent: how long they wait for a silent one is up to it.
* `PortCritical`: whoever is in a section leaves it, the handler gets through its
  steps and its sections (`SF` where it may enter another in between), and a task
  blocks in the end. The idle task does not, but it never runs with interrupts
  off for good: who was suspended inside a section is ready and of a higher
  priority. No interrupt has to come.

## 4. Findings

1. **A received frame is erased** (M:3439). The callback has already posted the
   descriptor again when `rxpkt_handler` marks it unused. If the ring was full
   the GEM is waiting at exactly that descriptor, fills it in between, and the
   mark of the new frame is wiped. `ImplementsRxFifo` holds as long as the ring
   never fills.
2. **Hart 1's application can start before `e51_setup`** (system_startup.c:119).
   The retry in CHECK_WAKE acts on a mark read earlier. If it lands after hart 1
   has cleared its interrupts it serves as the later wake-up. (The opposite
   race, the wake-up wiped out by that clear, is conceded in e51.c:137; the
   model has it too.)
3. **A pending close is forgotten and the web server hangs** (L
   api/api_msg.c:999). `tcp_close` finds no memory for the FIN; `tcp_fasttmr`
   sends it later without telling the netconn. The client's answer takes the pcb
   to TIME_WAIT, or frees it without an error callback (core/tcp_in.c:418–430):
   no ACK of data and no poll is left to call the close back. The only thread
   waits for its semaphore for ever.

### Seen while modelling
* *The receive restart resets one side* (M:1870–1872): three statements name the
  driver's indices and assign nothing; the GEM goes back to descriptor 0, the
  driver does not, though M:1857 says "Restart receive operation from scratch".
  Frames then wait until the GEM comes round; `RingRestocked` and
  `InterruptNotLost` hold all the same.
* *A section resumed after a yield is not masked* (P portasm.S:219): every return
  to a task enables interrupts, though queue.c:814 says "the kernel takes care of
  that". And a task may run *masked outside its own sections*: another, suspended
  inside one, keeps the count above 0, so leaving a section does not enable
  interrupts (`MaskedOnlyInside` of `PortCritical`, refuted in 5 steps). Both are
  one thing: the comment at port.c:84, that the count is "stored as part of the
  task context", is not what portasm.S does; the count is global. `NestingIsTotal`
  says what it counts and `HearsAgain` that the deafness ends with the next switch.
* *The handler may go astray* (sys_arch.c:50). `exec_within_isr` looks at pending
  bits, and the claim at the PLIC has lowered MEIP. If no pbuf is left,
  `pbuf_pool_is_empty` then posts with the call for tasks, which ignores a locked
  queue's count and, having woken `tcpip_thread`, yields in the handler: by
  `vPortYield`, which saves `mepc` nowhere. The handler is resumed by the `mret` of
  portRESTORE_CONTEXT, with interrupts on and `mepc` in the handler, and its own
  `mret` goes there instead of to the task: `ReturnsToTask` of `PortCritical`,
  refuted in 9 steps, though the comment of `vPortYieldISR` in portasm.S says the
  return "gets us back to the task". `PortCritical` ends there; `RxInput` and
  `Kernel` take the post as one step of an interrupt.
* *GPIO handlers print around the mutex* (B e51.c:22) and bytes may be dropped;
  `LossNeedsGpio` shows it is the only way to lose one.
* *pbufs leak* (L core/tcp_in.c:411): a pending close retried from `sent_tcp`,
  with a segment of data and FIN still to be delivered, may reset the connection;
  `tcp_input` then goes to `aborted` past the `pbuf_free`. Both models count it in
  `leaked`; `RxInput` also for the last ACK (429).
* *The pool can be held up* (`Starved`): with 8 pbufs (lwipopts.h:380) all in
  connections that wait for their turn, a silent client being served keeps its
  turn: nothing it sends gets a pbuf. IP_REASS_MAX_PBUFS is 30, though the comment
  above it (lwipopts.h:588–591) asks for PBUF_POOL_SIZE to be greater.
* *A silent client keeps the server thread* (httpserver-netconn.c:247):
  `recv_timeout` is 0, for ever. So does one that closes its window. Results of
  `netconn_write` are not looked at. `tcp_kill_prio` may kill a connection that is
  queued or served.
* `poll_tcp` returns `ERR_OK` also when its close has aborted the pcb, which the
  comment above `tcp_abort` (core/tcp.c:527–529) forbids; `sent_tcp` cannot, since
  `polls_left` is 0 only after such a poll.
* *The heap has no end* (platform/mpfs_hal/newlib_stubs.c:215): the checks of
  `_sbrk` are compiled out, so `malloc` never returns NULL; if it did,
  `vApplicationMallocFailedHook` (configUSE_MALLOC_FAILED_HOOK is 1) would stop the
  system. So the ERR_MEM branches for queues and semaphores (L
  api/api_msg.c:678–685) are dead, and `WebServer` has no step for them. They would
  end the server thread, as an error of `netconn_accept` always does.

## 5. Proofs

All by induction on the steps, one step per action; TLC checks of the same
invariants came first. Assumptions are those stated beside the constants
(senders and harts of any number, ring, FIFO and chain of any positive size).

* `MacTxProofs`. `OneToken` is the heart; it is not inductive alone, since what
  the handler does depends on register bits. `IInv` adds `HwInv` (completion
  shows in INT_STATUS and TRANSMIT_STATUS together and never while a frame is on
  the wire), `RingInv` (`nbAvail` is zero exactly from the post to the release),
  `MaskInv` (who has masked the interrupt), `BufInv` (what the holder has copied
  is in the buffer). From it: `TypeCorrect`, `TokenIsUnique`, `FrameIntegrity`,
  `RetryNeverNeeded`, `InterruptRearmed`, and `RefinesTxSlot`: every step is a
  step of `TxSlot` or a stutter.
* `MacRxProofs`. `StockInv`: once stocked, each descriptor keeps the buffer it
  was given first, and the count and the two indices are functions of where the
  handler is. `WakeInv` covers the window between clearing an interrupt bit and
  looking at the ring. `TallyInv` bounds `overflow_counter`: one pass of the
  handler adds at most two. From it: `TypeCorrect`,
  `BuffersConserved`, `CopyIsStable`,
  `DmaIsStocked`, `WakeupNotLost`. `ReceivesInOrder` is the refinement of `RxFifo`,
  under `Paced`, the hypothesis of the run `macrx_fifo`: the backlog stays below
  the ring and the GEM reports no overrun (finding 1 is why it must; bus errors
  may come). Two more invariants carry it. `QuietInv`: then no branch of the
  restart is ever taken. `OrderInv`: the frames that wait lie in the descriptors
  from the driver's place on, in order, those and no others are marked used, and
  the GEM is at the one behind the last. That the GEM finds room is a matter of
  counting (`UsedCount`): the frames that wait map one to one into the used
  descriptors. A frame leaves `arrived` by `Without`, which removes it wherever it
  is; the proof shows it is always the first.
* `HartBootProofs`. What hart 0 may conclude from a mark: `MarkInv` (a mark seen
  while the hart is still in reset is a stale IN_WFI, so a PASSED_WFI is the
  hart's own) and `PendingInv` (a parked hart has an interrupt only from hart 0
  being at it). From it: `TypeCorrect`, `NoneLeftBehind`, `Released`,
  `OneInterruptEnough`.
* `PortCriticalProofs`. `NestingIsTotal` is stated with the set of sections
  entered (`Sections`), so the count is a cardinality and each entry or exit adds
  or removes one element; the handler's own is its `trapDepth` and one for its
  wrapper, whether it runs or is suspended with its host. `HandlerInv` adds that
  interrupts are off in the handler until it has yielded. From it: `TypeCorrect`,
  `CountIsSum`, `HandlerAlone`, `BootMasked`, `NeverDeaf` (interrupts are on while
  nobody is in a section; while somebody is, only `HearsAgain` speaks).
* `KernelProofs`. Where a task is decides everything about it: `CallAt` and `WhyAt`
  (which call, and why it unlocks the queue), `OneSuspends` (the scheduler is
  suspended exactly while the running task is in that part of its call),
  `Blocked` (a task off the ready list is in one of the places where calls
  sleep), and of its clock `LimitOf`, `ClockOf`, `ExpiryOf`, `SleepOf`, which say
  what `ticks`, `timeOut` and `wake` are in terms of `asked` and `elapsed`, modulo
  the width of the counter. `Heeded`: a better task is ready only with a yield
  pending. Lemmas `Eased` and `Kept` carry a task through steps of others. From
  it: `TypeCorrect`, `NeverStranded`, `UnblockInTime`, `SleepIsExact`,
  `TimeOutIsHonest`, `YieldIsRemembered` and `RefinesMailbox`, for any tasks,
  priorities, queue and width of the counter. `WakeupsKept` (`NoLostWakeup`) says
  too little to be inductive: one caller on its way is enough for it, and that one
  takes one message. `Counted` counts instead: while anybody waits, what the queue
  has is at most the callers that will look at it (`Coming`) plus what the lock
  has counted and `prvUnlockQueue` still owes (`Saved`); `LockAt` says by whom the
  queue is locked, and `Placed` that who is about to wait saw nothing since. Each
  message served, each waiter woken and each step of the unlocking moves one from
  one side of the sum to the other. That a time limit runs out with the message
  comes out of `Coming`: such a caller looks once more, so it counts.
* `RxInputProofs`. `Apart` is `OneOwner` by pairs of places (`TcpApart`: the lists
  of the connections and what TCP has forgotten; `TcpLoses` and `TcpMoves` carry it
  through whatever a segment, a timer or a request does to a connection), `HandInv` says when
  `tcpip_thread` holds something, `PendingCounts` that the flag is the number of
  callbacks queued or begun, which is what is inductive about it. From it:
  `TypeCorrect`, `PbufsApart`, `PbufsConserved`, `MessagesKept`, which make
  `Conservation`, `FlagIsTrue` and `MailboxRefuses`.
* `WebServerProofs`, for any clients, pools, mailboxes and lengths. The invariant
  speaks of one connection at a time, by what the web thread is about with it
  (`Role`: nothing, queued, or which request), whether the request is still in the
  mailbox, whether the thread holds a pbuf of it, and what is in the segment that
  `tcp_input` has in hand and has not told yet. `NetconnInv` ties the request to
  the netconn's state, `PcbInv` the pcb's state to what netconn and client have
  done, `CountInv` is the balance of pbufs and of the window, and `EarlyInv` says
  why the thread finds something in the mailbox in the end. The last two
  parameters are needed because the callbacks run in the middle of a segment:
  each lemma `...Keeps` carries the four parts through one function of the code
  (`err_tcp`, `recv_tcp`, `sent_tcp`, `poll_tcp`, the close and write that go on
  later, `netconn_drain`), and the steps compose them in `tcp_input`'s order.
  `NeverEnds` needs a count: the netconns in use are those queued and the one
  served (`NetconnsLeft`), so with `AcceptSize < NumNetconn` (6 and 20 in
  sys_arch.h:48 and lwipopts.h:336, one of them the listener's) the accept
  mailbox is full before the netconns are used up. From it: `Answers`,
  `Pointers`, `Pbufs`, `Window`, `Hears`, `NeverEnds`, `Types`. The proof made
  two alternatives of the model explicit that TLC resolves by their order: arms
  of a `CASE` that overlapped (`NextState`, `Received`) are disjoint now.
* `UartTxProofs`. The lock word says whether somebody prints; until the first
  GPIO interrupt the FIFO holds no more than its printer has counted. From it:
  `TypeCorrect`, `StringsApart`, `NoByteLost`.

So every invariant and every refinement that a passing run checks is a theorem.
Only model-checked is liveness: `FrameLands`, `FrameHandedUp`, `ReceiverRecovers`,
`E51Starts`, `LockComesBack`, `WokenRuns`, `Reclaimed`, `HearsAgain`,
`Turn`. It rests
on fairness, which is stated with ENABLED, and the prover has no rules for that.
TLC checked the inductive invariants themselves before they were proved, on the
instances of section 3 and on smaller and larger queues and rings (`Counted`:
queues of one and two; `OrderInv`: rings of two to four; `WebServerProofs`'s
`IInv`: the instance of `web_server`).

## 6. Not modelled, and plan

Abstracted in what is modelled: contents of frames and strings; statistics
counters; queues 1–3, eMAC and time stamps of the MAC, which no example uses;
`rx_discard`; frames of length 0, which the GEM does not deliver; the second
`vPortSetupTimer()` of `mss_config_task` (it stores 0 in a count that is 0 then);
transmit events in `MacRx` and receive events in `MacTx`, which touch no variable
of the other but the handler's time.

In `PortCritical`: what the hart does once the handler's return has gone astray.
In `Kernel`: priority inheritance, peeking, queue sets, deletion. In `RxInput`:
ARP, ICMP, UDP and DHCP, whose pbufs are freed where `tcpip_thread` gets them, and
sequence numbers: any segments may overlap. That a request gets its place in a
mailbox that interrupts keep full is not claimed: nothing in the code sees to it.
In `WebServer`: a heap that runs out (section 4), sequence numbers, retransmission and congestion control (an ACK
comes or the connection is given up), IPv6, and the pages.

What would come next: `MacPort`, the composition of `MacTx` and `MacRx` under one
handler and one PLIC bit, with the theorems of both parts carried over;
abstract specifications of the web server (a client waits, is served, is gone) and
of the input path (a pool with owners) for their models to implement; `Startup`
(`g_mac_available` and priorities); `NetMask` (`ethernetMaskToBits` against a
reference definition).

Most of the repository's lines are not its own program: ports of FreeRTOS to other
processors, register headers in one copy per example, lwIP's other protocols,
web pages as arrays. The models cover what runs concurrently.

Out of reach or not worth a model: fractals (floating point, sequential), page
templates and printf (formatting), register-only drivers, third-party code
the examples do not use.
