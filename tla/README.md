# A TLA+ model of the network-synchronised speaking clock

The firmware under `src/` waits for the key `t`, asks an NTP server for the time
and emits it as `TOKEN` lines on a UART; a Python bridge on the host feeds the keys
in and speaks the lines. This directory models the parts of it that act
concurrently, lose messages, run out of something or do arithmetic, checks them
with TLC on small instances and proves the safety results with TLAPS for every value
of the constants. Paths below start at the directory that holds `src/` and `tla/`.

## 1. The system

    terminal --keys--> TTS bridge --stdin--> QEMU UART --> key_task
                                                             | time_request_sem
                                                             v
    NTP server <--UDP, lwIP, LAN9118--> ntp_get_time <-- ntp_task
                                                             | time_queue
                                                             v
    espeak <-- TTS bridge <--stdout-- QEMU UART <-------- speech_task

| Component | State | Operations | What makes it correct |
|---|---|---|---|
| Key task, `src/src/key_task.c` | the UART's receive register | poll every 50 ms, give the semaphore | no request is lost |
| NTP task, `src/src/ntp_task.c` | `retries`, `msg`, `dhcp_done` | wait for DHCP, take the semaphore (100 ms), up to 3 queries, send to the queue (1000 ms), poll lwIP | each request gets a query made after it; a stale `msg` is never sent |
| Speech task, `src/src/speech_task.c` | `msg` | receive, `speak_time` | every message is spoken once, in order, and correctly |
| NTP client, `src/network/ntp_client.c` | the flag and timestamp set by a callback, the PCB | `ntp_get_time`, `ntp_recv_callback` | a time returned is the server's answer to this call; no PCB leaks; it returns; the arithmetic survives the wrap in 2036 |
| UDP of lwIP, `src/lwip/src/core/udp.c` | `udp_port`, `udp_pcbs` | `udp_new`, `udp_bind`, `udp_input`, `udp_remove` | a port is not reused while answers to it are under way |
| Console, `src/src/main.c` | the static buffer of `uart_printf` | `uart_printf`, `uart_puts` | bounded reads and intact text under preemption |
| TTS bridge, `src/scripts/tts_bridge.py` | `tokens`, `running`, the keyboard's two buffers | reader thread, main thread, signal handler, clean-up | whole sentences, in order, once; keys forwarded in order; it ends |
| Network start, `src/network/lwip_init.c` | `dhcp_done` | `network_init`, `lwip_periodic_handle`, `netif_status_callback` | it knows whether there is an address |
| LAN9118 driver, `src/network/netif_qemu.c` | the chip's FIFOs | initialise, transmit, poll | status and data FIFOs stay in step; frames leave as they are |
| Start, `src/src/main.c` | the objects made so far | create the semaphore, the queue, the tasks; start the scheduler | nothing is used that could not be made |
| DHCP client, `src/lwip/src/core/ipv4/dhcp.c` | `struct dhcp`, `xid` | two timers, `dhcp_recv` | no address outlives its lease; answers to old negotiations do not count; no dead end |
| ARP, `src/lwip/src/core/ipv4/etharp.c` | `arp_table` with waiting packets, a hint, a pool | output, input, timer | each packet to its own next hop, in order; no leak |
| Fragments, `src/lwip/src/core/ipv4/ip4_frag.c` | `reassdatagrams`, a count of pbufs | `ip4_reass`, `ip_reass_tmr`, `ip4_frag` | only whole datagrams; exact counts; every byte sent once |
| Timers, `src/lwip/src/core/timeouts.c` | a sorted list of due times | `sys_check_timeouts` | none missed, none in a burst, across the clock's wrap |
| lwIP's heap, `src/lwip/src/core/mem.c` | headers linked both ways, `lfree` | `mem_malloc`, `mem_trim`, `mem_free` | owners apart, holes joined, the search complete |
| Kernel's queues and clock, `src/freertos/queue.c`, `tasks.c`, `list.c` | queues, event and delayed lists, tick count | send, receive, take, delay, tick | a bounded FIFO; no lost wake-up; on time across the wrap |
| Kernel's heap, `src/freertos/portable/MemMang/heap_4.c` | the list of free blocks, a count | `pvPortMalloc`, `vPortFree` | blocks tile the heap; exact count |

The tasks share a binary semaphore and a queue of length 1. lwIP is built with
`NO_SYS = 1` and runs inside the NTP task only, so its callbacks are not concurrent
with `ntp_get_time`; they run while it polls. The NTP task has priority 2, the others
have priority 1, so they run only while it is blocked. The bridge's two threads share
a list and a flag without a lock.

Hard to test are: late and duplicate datagrams against port reuse; an answer in the
last poll before the timeout; requests merged by the semaphore while a query fails and
is retried; the full queue; preemption inside `uart_printf`; an exit of the bridge at
any point of an announcement; two layers of buffering on the keyboard; 32-bit wrap of
timestamps, ticks and timers; lines of three tasks mixed on one UART; a lease that is
refused or runs out in the middle of a negotiation; the moment between seeing a full
queue and going to sleep; allocations that fail one after another.
`PROJECT.json` lists them under `hazards`, each with its line and its properties.

## 2. Modules

`NtpService` states what `ntp_get_time` promises: a call fails, or gives a time the
server had while the call was pending, and it returns. `NtpClient` implements it, and
`SpeakingClock` uses it: its actions `CallNtp`, `GetSucceeds` and `GetFails` are the
actions of `NtpService` conjoined with the NTP task's own.

**NtpClient.** `pc` is the place in `ntp_get_time`. `Call` resets the static state.
`RequestSent` and `RequestFails` are lines 119-172 with and without an error;
an error after `udp_new` removes the PCB again, but the port is used up. `BeginPoll`
and `EndPoll` enclose `lwip_periodic_handle`, and `udp_input` may happen between them
any number of times, or in `ntp_task`'s own polls when `pc` is `"idle"`. The network
keeps requests and answers in sets: it may duplicate, delay, reorder or never deliver
them, and an answer may be too short. Ports, the pool and the search for a free port
are those of `udp.c`. A datagram carries the number of the attempt it belongs to,
which the client never reads.

`Lifetime` bounds for how many later attempts a datagram can stay under way; it is the
one assumption on the network, and it must not exceed the number of ports. In the
code there are 16384 ports, an attempt needs a key that is polled every 50 ms or a
retry after 1 s, and so at most some 7200 attempts fit into the two minutes that a
datagram may live.

**SpeakingClock.** One action for each step at which a task can be preempted or blocks.
`NtpBlocked` is the scheduler: it is a guard of every step of the key and speech tasks.
A blocking call with a time limit is a pair of actions (`SemTake`/`SemTimeout`,
`QueueSend`/`SendTimeout`); time limits are not counted, so they may expire at any
moment at which the call is blocked. `given`, `started`, `pressed` and `announced` are
ghosts, and so is the field `req` of a message.

**ClockTime.** One behaviour follows one instant from the server's timestamp through
`unix_time`, `ist_time` and `time_msg` to the tokens. Arithmetic is modulo `Modulus`.
An entry of `number_words` is represented by its index.

**UartPrintf.** The shared buffer, written and read one character at a time by tasks
with priorities. A character is represented by the task that formatted it.

**TtsBridge.** `rpc` and `mpc` are the places of the two threads in `interactive_mode`.
`ReadLine` reads up to a newline and runs `process_line`; while it speaks (`rpc =
"speak"`) the list is still full. `emitted` and `consumed` count the lines that QEMU wrote
and that were read. At the end the main thread looks at the list, speaks (`mpc = "say"`,
during which the reader goes on) and ends. `ReadByte` is Python's buffered `read(1)`, which takes
all that the terminal has, while `Select` looks at the terminal only.

**LanDriver.** The receive side of the driver, one action per word read. The chip puts
a frame into both FIFOs at once, at any moment while its receiver is on, and drops one
that does not fit. The data FIFO is a stream of words; `rd` and `wr` count what was read
and written, a word is its position, and a status carries the position at which its
frame starts as a ghost. `SoftReset` completes or times out; only a completed one empties
the FIFOs. `pbuf_alloc` fails at will. The chip may be receiving before the firmware
starts, which is the case that the drain in `lan9118_hw_init` is for.

**LanTransmit.** The way out. `ip4_frag`, `Mirror` and `SendFragment` are the loops of
`ip4_frag`: a fragment is a chain of pbufs that mirror the datagram's, one action for
each pbuf made; memory may lack at any of them (`MemErr`). `lan9118_linkoutput` writes a
chain to the transmit FIFO: every pbuf is rounded up to words, the command holds the
exact length, and what the chip does not take stays in the FIFO (`Leftover`).

**TokenStream.** `uart_puts` of the three tasks on one UART, the pipe, and the bridge's two
modes at the other end. The key and speech tasks are time-sliced and may change at any
piece of a line; a line of the NTP task comes whole, anywhere. `pipe` holds what was put
and is unread, as the name of the writer of each piece: which piece it is follows from
`pos`, which counts the texts that were read, the lines of the next text and the pieces of
the next line, so there is no bound on the length of what a task prints. `Feed` is the
bridge: how it ends lines, and `process_line`. `StopReading` (line 192 of the bridge) and
`Interrupt` leave unread what is in the pipe, and so it is lost; `Eof` comes when all is
read. What is claimed is about what was read; that an announcement in the pipe is lost is
`EndSpeaks`. An end in the middle of `speak` is the subject of `TtsBridge`. This composes the
speech task, the console and the bridge at the level of characters, where `SpeakingClock`
and `TtsBridge` take announcements and lines whole.

**Dhcp.** `dhcp` is `struct dhcp`; the two timers, `dhcp_recv` with its three handlers,
and every message made and sent are actions, with memory lacking at will.
`netif_set_addr` includes the status callback of `lwip_init.c`. Answers are a set that
may grow stale, be repeated and overtake. Transaction identifiers are drawn at random, as
`LWIP_RAND` does in this build, and may come again. Seconds keep their width and their
rounding to minutes; how long a request waits is not counted. Ghosts are `grant`, the
seconds that the server granted, `age`, the calls of the coarse timer since, `past`, the
answers to all earlier negotiations, and `clash`: an identifier was drawn that bears one of
them.

**Etharp.** `etharp_output` with the hint, the search and `etharp_query`;
`etharp_input` for requests and answers, for us or not; `etharp_tmr`. A packet is its
number. `out` and `last` are ghosts that remember what went on the wire.

**IpReass.** `ip4_reass` for a fragment, with what it pushes out to make room, and
`ip_reass_tmr`. A fragment is the interval of the payload that it carries.

**Timeouts.** The list, `sys_check_timeouts` as four steps, and a clock that goes on in
between and wraps. `left`, `ago`, `credit` and `calls` are ghosts: the true time, which
the code does not have. It is assumed that `sys_check_timeouts` is never late by half a
turn of the clock, 25 days, which is where the comparison of times ends.

**LwipMem.** A header is at its offset. `mem_malloc` searches from `lfree` and splits,
`mem_trim` moves the hole behind a block or cuts off a tail, `mem_free` checks the links
and joins holes both ways. `owned` is a ghost. Cutting the tail off the last block of
the heap fails an assertion of `mem_trim`; `Asserts` leaves that case out, because the
one caller, `dhcp_option_trailer`'s `pbuf_realloc`, never shortens a block.

**Heap4, Boot.** `pvPortMalloc` and `vPortFree` with the rounding, the first fit, the
split and the merge; `Boot` extends it by the start: the objects in the order in which
`main`, `vTaskStartScheduler` and `xTimerCreateTimerTask` make them, stack before TCB, and
what each failure leads to.

**MessageQueue, KernelQueue.** `MessageQueue` is what queues and semaphores promise: an
operation takes place in one step between call and return, in FIFO order, and a call
gives up only once its time is over. `KernelQueue` is how the kernel does it: the
critical section that looks at the queue (`Try`), the suspension of the scheduler, the
time-out check and the event list (`Check`), the resumption with the ticks that were only
counted meanwhile (`xTaskResumeAll`), delays, the two delayed lists that change places at
the wrap of the tick count, and the tick itself, which may come between any two of them.
`SpeakingClock` relies on what `MessageQueue` promises.

`XProofs` holds the proofs about `X` or `MCX`; `MCX` and `MCX*.cfg` instantiate `X` for TLC.
Five of the MC modules bring together parts that share no state: `MCLanDriver`
(`LanDriver`, `LanTransmit`), `MCKernel` (`KernelQueue`, `Boot`, `Heap4`), `MCLwip` (`Etharp`,
`IpReass`, `Timeouts`, `LwipMem`), `MCSpeech` (`ClockTime`, `UartPrintf`) and `MCTtsBridge`
(`TtsBridge`, `TokenStream`). In the first three a variable `side`, chosen at the start,
says which part a behaviour follows, so the states of the run are the sum of the parts'
and not their product; `MCSpeech` converts every instant and prints beside one of them;
in `MCTtsBridge` each part has a specification of its own (`BridgeSpec` and `StreamSpec`),
in which the other part rests.
A property of such a module is the conjunction of the parts' own, which the parts define
and comment.

## 3. Runs

| Run | Instance | Shows |
|---|---|---|
| `ntp_client` | 3 ports, pool of 3, 2 polls, `Lifetime` 3, 4 attempts, 2 answers, clock to 2 | `AnswerIsFresh`, `PcbAvailable`, and `ImplementsService`, the refinement with its liveness |
| `speaking_clock` | queue of 1 as in the code, 2 retries, 3 presses, clock to 2 | `AnnouncedInOrder`, `AnnouncedAfterRequest`, `RequestIsSignalled`, `EveryPressServed`, `EveryMessageSpoken`, no deadlock |
| `speech` | a clock of 196096 s; the NTP and speech tasks, a buffer of 5, texts up to 6 | `MsgIsIst`, `TokensTellTime` for every instant; `ReadsStayInBuffer`, `TopTextIntact`, `PrintfReturns` |
| `token_stream` | 2 announcements of 2 words, a line of each other task, one piece in the pipe | `UndisturbedIsSpoken`, `DamageBounded`, `HeardInOrder` |
| `tts_bridge` | 2 announcements of 2 tokens, 4 kinds of key, 3 keys | `SentencesWhole`, `ForwardedInOrder`, `AnnouncementSpoken`, `BridgeEnds` |
| `lan_driver` | received: frames of 0, 1, 3 and 4 words, pbufs of 2 words, FIFOs of 2 and 6, 4 frames; sent: datagrams of 2 and 3 pbufs, an MTU of 36, lone pbufs, 4 frames | `FifosInStep`, `FramesWhole`, `EveryFrameTaken`; `FragmentsTrue`, `LonePbufsIntact` |
| `kernel` | the calls of the three tasks on both queues, a tick count of 5 values that wraps, 9 ticks, 2 of them pended; 264 sizes of heap for the start; two unaligned heaps of some 140 bytes for any use | `NoLostWakeup`, `WokenOnTime`, `ImplementsQueue`; `StartSound`; `HeapSound` |
| `dhcp` | one address, leases of several minutes, of none, with and without options and without end, 3 identifiers, 2 answers under way | `LeaseRespected`, `StuckOnlyEndless`, `FreshAnswers`, no deadlock |
| `lwip` | 3 hosts for 2 entries, 3 packets for a pool of 2; 10 fragments of 3 datagrams for 2 entries and 4 pbufs; 3 timers on a clock of 12 values; a heap of 104 bytes | `ArpSound`, `LeaveInOrder`; `ReassSound`; `NothingWaitsForever`; `TimersPaced`, `NothingMissed`; `MemSound` |
| `bridge_remaining` | as `tts_bridge` | violated: an announcement is spoken twice at exit |
| `bridge_end` | 1 announcement, no keys | violated: what is in the pipe when QEMU ends is not spoken |
| `dhcp_is_up` | as `dhcp` | violated: `network_is_up` stays 1 when the lease is lost |

Why the bounds are enough. `ntp_client`: `Lifetime` equals the number of ports, the
tightest case allowed; four attempts wrap the three ports around; two polls have a
last one and one before it; the pool leaves two PCBs to the client, so that a leak shows
at the third call. `speaking_clock`: with three presses one message is being spoken,
one is queued and one is in a query, where the queue is full; two attempts have a retry
and a last failure. `speech`: 2^32 and 2208988800 leave 23296 and 0 modulo 86400,
and so do the constants of the run, which fit TLC's integers; the timestamp wraps around
inside the run; texts are shorter than the buffer, fill it, and are
truncated. `tts_bridge`: a second announcement shows what the first leaves behind, and
three keys allow Ctrl+A, its second byte and one more. `lan_driver`: the lengths give a
status without data, a frame no longer than a CRC, one with padding and one that fills
whole words, in one pbuf or two, and either FIFO can be the one that is full; an error
of one frame shows in the next, and there are four; of the datagrams sent, some end
exactly at a fragment's or a pbuf's end and some a byte before or after. `token_stream`:
a line of either task can fall at every place of either announcement, and the second
shows what the first leaves in the bridge; what waits in the pipe has no effect until it
is read, so one piece of it gives every way to stop, and the proofs hold for any backlog.
`kernel`: the tick count goes round almost
twice; sleepers are on both lists; a heap for every number of objects that fit, and one
where the stack fits and the TCB does not; the small heaps hold up to eight blocks, so
that one can be freed between two free ones, two used ones, or one of each. `dhcp`: a
lease long enough for renewal, rebinding and expiry, one that is over at once and one
that never is, so that a NAK leaves the timers of any of them; with three identifiers a new
one can be fresh, the one just used or one of the negotiation before. `lwip`: a third host recycles
an entry that packets wait on; two cuts of one datagram overlap and a third datagram
pushes one out; every timer is met before, at and after the wrap, on time and late; the
heap holds up to five blocks, and one of the sizes wraps when it is rounded.

`CHECK_DEADLOCK FALSE` is set where the system stops: `ClockTime` follows one instant,
the bridge and its input end, the start ends, and `NtpClient`, `LanDriver` with
`LanTransmit`, and `KernelQueue` have used up `MaxAttempts`, `MaxFrames` and `MaxTime`.
`MaxTime` below two turns of the tick count also keeps a wait shorter than a whole turn,
which is all that `xTaskCheckForTimeOut` can tell.

Fairness. `NtpClient`: weak fairness of `ntp_get_time`'s own steps, since the task has
the highest priority and does not block there; none for the network. `SpeakingClock`:
weak for the NTP task, whose waits are all limited; strong for the other two, which can
run only while it is blocked, as it is in every round of its loop, and which FreeRTOS
time-slices. None for the user, the server or DHCP: `EveryPressServed` assumes that DHCP
succeeds. `UartPrintf`: strong for each task, for the same reason. `TtsBridge`: weak for
each thread; none for QEMU and the user. `LanDriver`: weak for the driver, which the NTP
task calls in every round of its loops; none for the chip. `Dhcp`: weak for the two
timers, which `sys_check_timeouts` calls for ever (`NothingMissed`); none for the server
and the network. `Etharp` and `IpReass`: weak for their timers, for the same reason; none
for hosts and senders. The other modules state safety only.

The modules' `TypeOK` is not in the runs of its own: it is a part of `ArpSound`,
`ReassSound`, `TimersPaced`, `MemSound`, `HeapSound` and `FragmentsTrue`, and of the
invariants that are proved in the eight modules with proofs.

What the violated properties mean, and which statement of the repository each one takes
up, is in `PROJECT.json`, `findings`. Further statements that the code does not keep have
a configuration to be run by hand, in which TLC finds the violation; the hazards in
`PROJECT.json` that they belong to say so:

| Configuration, module | Statement | What happens |
|---|---|---|
| `MCUartPrintfWriters.cfg`, `MCSpeech` | `src/src/main.c:91`, "single-writer usage" | the NTP task enters `uart_printf` while the speech task is in it; the line torn is a diagnostic, tokens are sent with `uart_puts` |
| `MCTokenStreamFormat.cfg`, `MCTtsBridge` | `src/src/speech_task.c:6-9`, the format of the tokens | a line printed inside a `TOKEN` line costs the word, or changes it |
| `MCTtsBridgeKeys.cfg`, `MCTtsBridge` | `src/scripts/tts_bridge.py:7-8`, keys are forwarded | `KeysForwarded`: of two keys that arrive together the second stays in Python's buffer until a third |
| `MCTtsBridgeCtrlC.cfg`, `MCTtsBridge` | `src/scripts/tts_bridge.py:162`, "Press Ctrl+C to exit" | `CtrlCExits`: after Ctrl+A the bridge does not end until another byte is typed |
| `MCLanDriverDrain.cfg`, `MCLanDriver` | `src/network/netif_qemu.c:170`, "Drain any stale RX packets" | `StalePacketsDrained`: after a soft reset that timed out the packets' data stays in the FIFO |
| `MCLanDriverAsIs.cfg`, `MCLanDriver` | `src/lwip/src/include/lwip/netif.h:306-307`, "outputs the pbuf as-is" | `EveryFrameAsIs`: a fragment's header pbuf of 34 bytes is padded, and a word is left in the transmit FIFO |
| `MCDhcpStuck.cfg`, `MCDhcp` | `src/lwip/src/core/ipv4/dhcp.c:318`, "restart DHCP negotiation afresh" | `NeverStuck`: the timers of a refused lease without end go on and move the new negotiation to REBINDING, without an address and for ever |
| `MCDhcpLong.cfg`, `MCDhcp` | `src/lwip/src/core/ipv4/dhcp.c:703`, "87.5%" | `RenewBeforeRebind`: the product with 7 wraps for leases of 19 years, and rebinding comes before renewal |
| `MCKernelHook.cfg`, `MCKernel` | `src/src/main.c:152`, "called if pvPortMalloc() fails" | `MallocFailureHalts`: the hook is not configured; the system runs without a task |

## 4. Proofs

| Module | Theorems | Argument |
|---|---|---|
| `NtpClientProofs` | `TypeCorrect`, `AnswersAreFresh`, `PortsNameAttempts`, `PcbsAvailable`, `ImplementsServiceSafety` | see below |
| `SpeakingClockProofs` | `TypeCorrect`, `SpeaksInOrder`, `SpeaksFreshTimes`, `RequestsAreSignalled` | see below |
| `SpeechProofs` | `TypeCorrect`, `ConvertsToIst`, `SpeaksTheTime`; `PrintfTypeCorrect`, `ReadsAreBounded`, `TopTextPrinted` | see below |
| `LanDriverProofs` | `TypeCorrect`, `StaysInStep`, `DeliversWholeFrames`; `FragmentsAreTrue`, `LonePbufsPass` | see below |
| `KernelProofs` | `TypeCorrect`, `NoWakeupIsLost`, `EveryoneWokenOnTime`, `QueueImplemented`; `HeapIsSound`, `StartIsSound` | see below |
| `LwipProofs` | `ArpIsSound`, `PacketsLeaveInOrder`; `TimersArePaced`, `NoTimerMissed`; `MemIsSound`; `ReassIsSound` | see below |
| `DhcpProofs` | `TypeCorrect`, `LeaseIsRespected`, `AnswersAreFresh` | see below |
| `TtsBridgeProofs` | `SentencesAreWhole`, `KeysInOrder`; `UndisturbedSpoken`, `DamageIsBounded`, `WordsInOrder` | see below |

Each rests on an inductive invariant, with a lemma for each action: `IInv`, and where a
module has several parts `PrintfInv`, `TxInv`, `HeapInv`, `StartInv`, `ArpInv`, `TimerInv`, `MemInv`,
`ReassInv` and `StreamInv`.

*NtpClient.* That ports name attempts is not inductive: a datagram of an older attempt
must be known to have another port. `InWindow` says which: the port allocated as many
allocations ago as the datagram is attempts old (`Back`). Since that is fewer than
`Lifetime <= NumPorts`, the ports in the window differ. `AnswersCurrent` carries the
timestamp's lower bound from the server to the callback. `PcbOpenWhileWaiting` fixes the
list of PCBs. The refinement maps `pending` to `pc # "idle"`; its safety part is proved.

*SpeakingClock.* Announced, spoken and queued messages form one stream, in order by
request and by time (`StreamInOrder`), each no older than its request (`Sound`); the
answer that the NTP task is fetching or sending is newer than all of them
(`NewestLast`), because a query begins after its request (`QueryServesRequest`).

*ClockTime.* Subtracting the epochs' difference modulo the width undoes adding it
(`EpochRoundTrip`), so the era does not matter; the split into hours, minutes and
seconds loses nothing (`SplitDay`). It is proved for all widths and differences, so for
the code's, which TLC cannot represent.

*UartPrintf.* The last byte of the buffer is always NUL (`LastIsNul`), so a reader stops in
it whatever the writers do; a task of the highest priority is never interrupted, so its
text is still its own when it is put out (`TopFormatIntact`).

*LanDriver.* That the FIFOs are in step between frames is not inductive, because a frame
is read word by word while others arrive. `StatusFollowsData` says at every moment where
the next frame starts, `ReadsCurrentFrame` where in the current frame the driver is,
`PayloadSoFar` what is in the pbuf. `ChainIsContiguous` shows that a chain of buffers of
whole words takes as many words as one long buffer; it needs the alignment of the pool
(`PoolBufSize % 4 = 0`), which `pbuf.c` provides.

*LanTransmit.* `ip4_frag` keeps two places, one in the datagram's chain and one in its
payload. `Walking` says that they agree at every pbuf made: the lengths of the pbufs left
behind add up to the header, the fragments sent and what is copied of the next one. So a
fragment covers the bytes that its header says, they follow on one another, and only the
last has no MF flag (`FragsTrue`, `MoreTrue`). `WholeWords` shows that a chain whose pbufs
but the last are whole words leaves nothing in the chip's FIFO. Hence the chip loses
its place only after a chain that is not aligned (`InOrder`), and a frame in one pbuf, as
all of this firmware's own are, goes out intact unless one came before it.

*KernelQueue.* Neither safety property is inductive, and the refinement needs both the
ring and the time-outs. `IInv` has, besides the types:

- `Placed`, `EventLists`: where a task is in its call says whether it may be asleep, and
  an event list holds each waiting task once, asleep, in a call of that queue. Without
  it a wake-up could go to a task that no longer waits.
- `Served`: while a task waits for an item, at least as many ready tasks are about to
  look at the queue as there are items. That *one* such task exists, which is
  `NoLostWakeup`, is not enough: it may take one of two items and leave. One send wakes
  one receiver, so the bound is kept step by step by counting (`ExchangeKeeps`); a task
  goes to sleep only when it finds the queue empty, and the bound is 0.
- `Ring`: `pcWriteTo` is where the items behind `pcReadFrom` end. `RingItems` turns the ring
  into a sequence; writing appends to it, reading takes its tail, across the wrap.
- `Timed`: the time in `xTimeOut` plus `xTicksToWait` is the true end of the wait, and lies
  less than a turn of the count back. `TimeOutRight` concludes that
  `xTaskCheckForTimeOut` is right, wrap or not.
- `Clocked`: of the two delayed lists the current one has the tasks due before the wrap,
  the other those due after it, both sorted, and `xNextTaskUnblockTime` is not after
  the head. `TickOnTime` shows this for one tick, the exchange of the lists included,
  `TicksOnTime` for as many as were counted while the scheduler was suspended.

`QueueImplemented` then goes through the actions: `CallMaps`, `SendMaps`, `ReceiveMaps` and
`ExpireMaps` are the steps of `MessageQueue`, ticks and resumptions are at most the passing
of time, and everything else is not seen.

*Heap4.* `HeapInv`: free and used blocks are apart and together cover every byte of the
heap, the free list is sorted with no two neighbours in it, and the count is the number
of bytes covered by free blocks. A sum over blocks is the cardinality of the bytes that they
cover, which makes splitting and merging a fact about intervals (`Apart`, `Covered`).

*Boot.* What is used is owned by one object made, or is the stack in the hands of
`prvCreateTask` (`OwnInv`): a task without a TCB gives its stack back. `MadeInv`: without the
semaphore, the queue and the kernel's own tasks nothing runs. `RoomInv`: in a heap of
`Needed` bytes there is one free block until the end, with room for all that is still
to be made; from there everything is made.

The operators that recurse over a list or a number of ticks (`Without`, `Advance`) are
written as recursive functions, and `NatSetInduction` and `RecursionExists` give what is
needed of induction in first-order form: about sets of numbers, not about predicates.

*Dhcp.* That an address is given back in time rests on the client's count `lease_used`
being the lease's true age (`LeaseTimed`: it expires at `Minutes(grant)` calls of the timer),
which in turn needs that a late ACK cannot set the count back without a new lease and
that the states without an address start no count (`UsedInLease`). `MinutesInLease` then
compares the client's rounded minutes with the server's seconds: so many periods are at
most half a period longer than the lease, unless they are the one that every lease gets.
`XidsApart` says that no answer to an earlier negotiation bears the identifier in use unless
one was drawn again (`clash`).

*Etharp.* `TableOK`: a host has one entry; only a pending one has packets that wait, all
newer than the last one sent to that host, and in order. `PoolCounts` counts the pairs of an entry
and a place in its queue, so that a queue that is sent or dropped gives back what it took.
That no packet is overtaken is an action property; it follows from what waits being
newer than what left.

*Timeouts.* The code compares times modulo 2^32; `Paced` ties an entry's `time` to the ghost
`left`, the true distance, and bounds it so that the comparison is right (`LessIs`). The list
is in the order of the true times (`InTurn`), also while a handler runs and is off the list
(`Handles`). `credit`, which no call may overdraw, is at least what the entry lacks to its
next call.

*LwipMem.* `Linked`: nothing lies between a header and the one it points to, which points
back. `HeapOK` adds that no hole follows a hole and that none lies below `lfree`; without
this the search from `lfree` would not be complete. `OwnersOK`: the used blocks are the owned
ones and hold what was asked for. `InsertLinked` and `JoinLinked` are the two ways in which
the list changes.

*IpReass.* `Chained`: the fragments of an entry are in order, apart, and of one datagram,
and its length is that of the last fragment if that is there. `Waiting`: an entry in the
queue is not complete, so that what is returned is (`DeliveredWhole`), with the fragment that
came last. `QueueOK`: one entry for a datagram, and `pbufcount` is what the entries hold,
also after one was pushed out to make room.

*TtsBridge.* `TokensInStep` ties the reader's token list to its place in the stream: `r`
lines into an announcement it holds exactly the first `r` words. `NothingReordered` says
where every typed byte is: forwarded, in the main thread's hand after Ctrl+A, in
Python's buffer or in the terminal, in this order.

*TokenStream.* What is put waits in the pipe and changes nothing else (`PutsKeep`). Every step
of the reading is one of two kinds (`SpeechStep`, `KeyStep`, `NtpStep`): it reads the next piece
of a line of SPEECH, its "\r" or its "\n" (`Puts`), or of another task text, the end of a line
or both (`Disturbs`). Below, what is out is what was read. `Flowing` is what holds until the
reading stops:

- `Bad` are the words out and not heard, and the word being printed if its line is no
  longer intact; a step makes one more only if the writer changes (`LostBound`).
- `Threat` says that the line in progress would become a token that nobody sent. Noise
  and threat together grow only with a change of the writer (`NoiseBound`): a threat
  becomes noise, or goes away.
- `HeadsOut`: what is heard was put, and a word whose first half is in the line in progress
  was put after all that is heard; hence the order.
- `Stage` and `Calm`: in an announcement that nobody disturbed the bridge has taken exactly
  the lines that are out (`Taken`), its last tokens are the announcement's first words
  (`Stood`), and it has no others if none before was disturbed either (`Still`). At END they
  are spoken, and what is said stays said (`Said`).

The end of the input may turn the line in progress into one more token, and so adds at
most one to the noise (`Damage`). What is in the pipe when the reading stops is not in
these claims.

The assumptions are those on the constants (`ConstantsAssumption`, `ClockAssumption`,
`WidthAssumption`, `PrintfConstants`, `DriverAssumption`, `TxAssumption`, `BridgeAssumption`,
`StreamConstants`, `DhcpAssumption`, `LwipAssumption`, `KernelAssumption`, `StartAssumption`), which
TLC evaluates in every run. Some deserve a word. `TxAssumption` asks that a frame is shorter
than 2048 bytes, since the chip's length has 11 bits, and that the payload of a fragment is
a multiple of 8; with an MTU of 1500 it is 1480. `LwipAssumption` asks that no fragment
of a datagram reaches beyond its last one, and that the timers' delays stay below
half a turn of the clock. `StartAssumption` asks for heaps of at least 32 bytes and objects
larger than a block's header.
`DhcpAssumption` asks nothing of the transaction identifiers but that 0, the first value
of `xid`, is one.
`KernelAssumption` asks for finitely many tasks, queues of at least one place and a tick
count of at least two values. Besides, `MayPass` lets time pass only as long as no task in
a timed call is kept from its next look at the clock for more than a turn of the tick
count, almost 50 days; beyond it the arithmetic of `xTaskCheckForTimeOut` is wrong.

Every invariant and every safety action property of the passing runs is proved. Only
model-checked is liveness, since fairness and ENABLED are beyond the prover:
`EveryPressServed`, `EveryMessageSpoken`, `PrintfReturns`, `AnnouncementSpoken`, `BridgeEnds`,
`EveryFrameTaken`, `StuckOnlyEndless`, `NothingWaitsForever`, and the liveness half of
`ImplementsService`. The inductive invariants were checked with TLC before they were proved, in
the form that TLC can evaluate.

Sums and counts are the obstacle in these proofs, because the laws of folds need induction
over an operator. They are stated as the cardinality of a set (of bytes, of
pairs, of words), or shown for the recursive function itself with `NatSetInduction`.

## 5. Not modelled

Most of the lines under `src/freertos` and `src/lwip` are not part of this firmware.
`src/Makefile` compiles of FreeRTOS `tasks`, `queue`, `list`, `timers`, `event_groups`, the
port and `heap_4`, and of lwIP the core, IPv4 and Ethernet; TCP, IPv6, sockets and
the applications are not built. Of what is built:

- software timers, event groups, mutexes, queue sets, notifications and the `FromISR`
  functions have no caller here; the context switch is assembler;
- the DNS client has no caller, since the server's address is fixed, and is idle;
- DHCP's states INIT and REBOOTING, its INFORM and DECLINE and the link callbacks are
  not reached: the link is up from the start;
- checksums, header parsing, `ip4_input`, ICMP echo and `ethernet_input` keep no state;
- the reference counts of `pbuf.c`: every pbuf on the modelled paths has one owner, except
  those that `ip4_frag` shares, which `LanTransmit` follows;
- the register set-up in `main.c` and the start-up code, and the fault handlers, which loop;
- `run_qemu.sh`, `setup_network.sh` and the build, which start programs once.

That `ist_time` wraps in the last five and a half hours before 2106 is excluded by
`MsgIsIst`'s premise. The callback of the NTP client accepts any sender; the model's
network has one server, so nothing is claimed about datagrams from elsewhere.

## 6. Plan

1. An abstract announcer that `SpeakingClock` refines, and `SpeakingClock` stated over
   `MessageQueue` itself.
2. The reference counts of `pbuf.c`, across `LanDriver`, `IpReass`, `Etharp` and
   `LanTransmit`.
