# LedBandRadio: a TLA+ model of the firmware

LedBandRadio is the firmware (`src/LedBandRadio_fw`) of a device that shows a
percentage on a strip of 359 SK6812 LEDs.  The percentage comes by radio
(CC1101) or is typed on a serial line, is shown by a fade along the strip, and
is kept in EEPROM.  The firmware runs on ChibiOS/RT on one core of an STM32L151:
four threads, three DMA channels, a handful of interrupts.

This directory holds TLA+ modules translated from that source, TLC
configurations that model-check them on small instances, and proofs that TLAPS
checks for every value of the constants.  Nothing here is taken from the wording
of a comment: where a comment and the code differ, the modules follow the code
and the difference is listed under *Findings*.

To use it, in this directory:

    tlc -workers 2 -config MCUartTx.cfg MCUartTx.tla    # one run
    tlapm UartTx_proofs.tla                             # the proofs of one module
    for m in *_proofs.tla; do tlapm $m; done            # all of them

`PROJECT.json` lists the components, the runs, for every property a mutation of
the code that breaks it, the source lines of every definition, the hazards, the
findings and the theorems.


## 1. Inventory

Paths are below `src/LedBandRadio_fw/`.

### Who runs

| context | priority | what it does |
|---|---|---|
| main thread (`App_t::ITask`, main.cpp) | NORMALPRIO | fetches messages from `EvtQMain`, executes shell commands, shows and saves the percentage; the only thread that prints |
| `UartRx` (kl_lib/uart.cpp) | NORMALPRIO | every 99 ms feeds the received bytes to the shell |
| `Effects` (sk6812.cpp) | HIGHPRIO | moves the LED colours to the wanted picture |
| `rLvl1` (Radio/radio_lvl1.cpp) | HIGHPRIO | receives, reports to main, answers |
| UART TX DMA interrupt | – | frees the block just sent, starts the next |
| CC1101 GDO0 interrupt | – | resumes rLvl1 |
| system tick | – | virtual timers: ends of sleeps and timeouts |

There is one core and no time slice between threads of one priority
(`CH_CFG_TIME_QUANTUM` is 0).  A thread of higher priority runs as soon as it is
ready; interrupts come in anywhere except between `chSysLock` and `chSysUnlock`.
`chThdResumeS` of a thread of higher priority goes through `chSchWakeupS`, which
puts the running thread back in the ready list with `chSchReadyI`, that is
*behind* the other threads of its priority: after main has resumed `Effects`,
`UartRx` may run before main goes on.

### Components

| component | state | operations | interacts by | what makes it correct |
|---|---|---|---|---|
| UART transmitter (uart.cpp, uart.h, shell.cpp) | ring `TXBuf`, `PRead`, `PWrite`, `IFullSlotsCount`, `ITransSize`, `IDmaIsIdle`, DMA channel | `IPutByte`, `IStartTransmissionIfNotYet`, `ISendViaDMA`, `IRQDmaTxHandler`, `Printf`, `CmdUart_t::Printf` | shared words between the printing thread and the interrupt | no byte lost, repeated, reordered; nothing left behind |
| UART receiver and shell (uart.cpp, shell.h, main.cpp) | `IRxBuf`, `RIndx`, the DMA's index; one `Cmd_t`, strtok's position; `CmdProcessInProgress` | `GetRcvdBytesCnt`, `GetByte`, `IRxTask`, `PutChar`, `GetNext`, `SignalCmdProcessed`, `OnCmd` | DMA → UartRx → message → main → flag → UartRx | lines executed as typed, in order, once, one at a time |
| Event queue `EvtMsgQ_t` (MsgQ.h) | ring of messages, two counting semaphores | `Init`, `Fetch`, `SendNowOrExit(I)`, `SendWaitingAbility` | threads sleep on the semaphores; timers and senders wake them | bounded FIFO; no lost wake-up; slots and messages counted |
| Kernel semaphores (chsem.c) | count, queue of threads | wait with timeout, signal, timeout callback | as above | count and queue agree |
| LED effects (sk6812.cpp) | `PCurrentEff`, `DesiredClr`, `ICurrentClr`, `PThd` | the `Effects` loop, three `SetupAndStart` | main writes, Effects reads, mostly unlocked | no request lost; only the requested picture comes up |
| Colours, percentages (color.h, kl_lib.h, main.cpp) | – | `Adjust`, `DelayToNextAdj`, `BeMixOf`, gradient, `Proportion`, `PercentToFade` | called by the above | loops inside the strip; monotone picture |
| LED strip driver (sk6812.cpp) | bit buffer, DMA frame | `Init`, `ISetCurrentColors` | DMA reads the buffer while the thread writes the next | whole frames |
| Radio level 1 (radio_lvl1.cpp) | packet, thread reference | receive, report, answer | IRQ, `EvtQMain` | each packet once, reported in order; comes back to receiving |
| CC1101 driver (cc1101.cpp, cc1101.h) | `IState`, `PThd` | `Receive`, `Transmit`, `ReadFIFO`, `Recalibrate` | SPI, GDO0 interrupt | state known when it is used; nobody asleep for ever |
| Percentage in EEPROM (main.cpp, kl_lib.cpp) | one word, Flash status and lock | `Read32`, `Write32`, `WaitForLastOperation` | Flash hardware, power loss | what was reported as saved is shown after a restart |
| Main thread, start-up (main.cpp) | – | order of `Init`s, dispatch loop | all of the above | nothing used before it is initialised |
| Kernel scheduler, threads (chschd.c, chthreads.c) | ready list, thread states, thread references | ready, go to sleep, suspend, resume, wake up, reschedule, create, exit | all threads, all interrupts | the highest runs; nobody overtakes a peer; timers and references agree with waits |
| Virtual timers (chvt.c) | delta list, 16-bit time | set, reset, tick | all sleeps and timeouts | on time in spite of the wrap |
| other kernel services, HAL, port, start-up code, unused kl_lib classes | – | – | not called, or registers only | – |

### What is hard

* **Three words kept in step by two contexts** – the transmit ring is updated by
  the printing thread and by the DMA interrupt; whether the thread holds
  `chSysLock` depends on which of two `Printf`s was called.
* **A flag instead of a lock** – UartRx writes the one `Cmd_t`, main reads it,
  and `CmdProcessInProgress` with equal priorities is all that keeps them apart.
* **A test and a suspend in two steps** – `Effects` tests `PCurrentEff` and then
  suspends itself; main sets the effect and resumes.  Priorities alone prevent
  the lost request.
* **Counting semaphores with timeouts** – a timer fires together with a signal.
* **Limits** – a full transmit ring, a full receive ring, a full event queue, a
  line longer than the command buffer.
* **Roundings** – five integer divisions between a percentage and a picture.
* **Numbers nobody checks** – the thresholds of the `Fade` command go from the
  serial line to the loops over `DesiredClr` as they are.
* **An interrupt that says little** – one edge of GDO0 means received, sent, or
  cut off; `IState` is the state of the chip before its last strobe; the results
  of nearly all SPI transfers are dropped.
* **Power that goes** – between showing, programming and reporting a percentage;
  and a Flash that is slower than the driver waits.
* **A clock that wraps while time passes** – deadlines as 16-bit differences, one
  of them compared as an `int`, an alarm that may be in the past when it is set.
* **A timer unlinked, its callback still to come** – another interrupt resumes
  the thread in between.

Each hazard stands in `PROJECT.json` at its line with the properties that would
catch it, or with a note saying why there is none.


## 2. Modules, and how they correspond to the code

    TxFifo          what a transmitter promises     <- implemented by UartTx
    UartTx          transmit half of BaseUart_t
    UartTx_proofs   theorems about UartTx
    MsgFifo         what an event queue promises    <- implemented by EvtMsgQ and, with
                                                       room for one, by Shell
    EvtMsgQ         EvtMsgQ_t over kernel semaphores
    EvtMsgQ_proofs  theorems about EvtMsgQ
    Shell           receiver, command line, busy flag, dispatch in main
    Shell_proofs    theorems about Shell
    Colors          arithmetic of colours, the fade picture
    LedEffects      Effects thread and main's requests  (EXTENDS Colors)
    PercentFade     from percentages to pictures        (EXTENDS Colors)
    LedEffects_proofs      theorems about Colors, LedEffects and PercentFade
    Radio           rLvl1, the CC1101 driver and the chip
    Radio_proofs    theorems about Radio
    Settings        the percentage and its copy in the EEPROM
    Settings_proofs        theorems about Settings
    TimerService    what virtual timers promise     <- implemented by VirtualTimers
    VirtualTimers   the delta list over a wrapping counter
    VirtualTimers_proofs   theorems about VirtualTimers
    ThreadQueues    what the scheduler promises     <- implemented by ChKernel
    ChKernel        ready list, threads, references, timeouts, interrupts
    ChKernel_proofs        theorems about ChKernel
    MC*             bounds and model values for TLC

Definitions keep the names of the source (`IPutByte`, `PutChar`,
`PCurrentEff`...).  Operators whose comment begins with *Faulty variant* are not
part of a model: each is the operator after it with one plausible mistake, used
to see that a property notices the mistake.  Variables marked *history* record
what happened for the properties to refer to; no guard of the code's depends on
them except through the bounds, which are constants named `Max...`.

### UartTx

One printing thread (`pc`), the DMA channel (`dmaOn`, `cmar`, `cndtr`) and the
interrupt handler.  `IFullSlotsCount++` (uart.cpp:99) is a load and a store on
this CPU and is two steps, `IPutByte` and `StoreCount`; `masked` is true while
the thread holds `chSysLock`, and the handler runs only when it is false.
`Callers` says which printing functions are in use: `Printf` (shell.cpp:13-20,
locked) or also `ShellPrintf` (`CmdUart_t::Printf`, uart.h:92-97, behind
`Shell_t::Ack` and `Reply`, unlocked).  **The firmware uses both**: what is
checked and proved for `Callers = {"Printf"}` holds of the firmware as long as
no interrupt falls between the load and the store of an unlocked `IPutByte`;
the run `uart_tx_unlocked` shows what happens otherwise, and three theorems of
section 5 what holds all the same: the count never wraps (`TypeOK`), no block
leaves the buffer and the idle channel finds the whole ring free.

The registers of the DMA channel are modelled from how uart.cpp uses them; a
byte moved by the channel counts as sent.

### EvtMsgQ

Every operation of the queue and of its semaphores runs inside `chSysLock` and is
one step, cut in two where the thread sleeps.  `cnt` and `queue` are the fields
of the two `semaphore_t`; `state`, `rdymsg` and `timed` are, per thread,
`p_state`, `p_u.rdymsg` and the timer of `chSchGoSleepTimeoutS`.  `Timeout` is
the callback `wakeup` (chschd.c).  Which ready thread runs next is left open, so
the results do not depend on priorities.  Several fetchers and senders are more
than this firmware has (main fetches; the other threads use `SendNowOrExit`):
they are what the class offers.

### Shell

`HostLine` and `DmaReceive` stand for the host and the circular receive DMA (the
host is the environment).  `UartRx` is in three states (asleep, ready, in the
loop of `IRxTask`), one step per byte; main is waiting in `Fetch`, ready,
running, or put behind UartRx in the middle of a message (`inCmd`, `inRadio`).
Those last two are the only places where UartRx runs before main has finished;
without them the flag would never be tested while set.  That neither runs in the
middle of the other's work otherwise (`MainRuns`) is `TurnKept` of ChKernel:
the one call UartRx makes in its loop is a `Post`, with which it keeps its turn,
and main gives its turn away only where it resumes `Effects`.  Whether the `Effects`
thread was suspended, which decides it, is a free choice here, as LedEffects
allows both.  `EvtQMain` is a bounded sequence, which EvtMsgQ justifies.

The command buffer is an array and `strtok` works in it, as in the code: it
overwrites a delimiter by a NUL, keeps where to go on (`saved`), and is called by
UartRx for the name (`PutLast`) and by main for the parameters (`GetNext`).
`Meaning` says independently, from the line as typed, what the command is:
`Typing` is the line as the backspaces and the limit of the buffer leave it,
character by character, and `Words` its longest runs without a delimiter.
`OneCommandAtATime` compares.  A line that comes to nothing (`Blank`: an end
alone, or everything erased) is no command.  `Params` gives the commands that take numbers
(`RGBW` 4, `Fade` 2, `Prc` 1 in the firmware) and start an effect; the others are
answered only.  A missing parameter makes `GetNextString` (shell.h:47) read
through a null pointer.  On this chip address 0 is Flash, where the initial stack
pointer stands; by `rules_stacks.ld` and both `STM32L151x*.ld` its low byte is 0,
so that the word is empty: that is the one outcome the build has, and the model
takes it.

### LedEffects, Colors, PercentFade

One channel of the four of an LED (they are treated alike and do not interact);
time is left out, a sleep ends at some point.  The loop of `Effects` is cut
where it tests `PCurrentEff`, suspends, processes, ends; main's unlocked loops
are one step per assignment.  `MainRuns` is the priority rule: main runs only
while `Effects` sleeps or is suspended.  It is a conjunct of each of main's
actions, and the mutant that drops it breaks `RequestShown`: the code is correct
because of the priorities, and for no other reason.

The thresholds of a fade are any two integers of the constant `FadeArgs`: the
command `Fade` hands the two numbers of the line to `SetupAndStart` without a
test (main.cpp:159-163).  Of the three loops only the third tests its index
(sk6812.cpp:196); the others follow the thresholds out of the array, and
`FadeAssignments` lists those assignments too.  The first one that `FadeAssign`
carries out beyond the array sets `outside`, with which the model ends, as it is
undefined what is overwritten: `RequestShown`, `NoFlicker` and `Settles` speak
of behaviours up to there, and `StaysInStrip` says which thresholds (`thr`) lead
there.  The difference of the thresholds is exact: that `ThrHi - ThrLo` overflows
for thresholds 2^31 apart is not modelled.

`Colors` holds the arithmetic; `PercentFade` is `PercentToFade`, its state the
percentage and the two thresholds (`PercentInit`, `PercentNext`, `PercentSpec`:
named apart from LedEffects, so that one module can state theorems about both).

### Radio

One thread (`pc`; before it, main in `Init`), the driver's `IState`, the thread
reference and the packet; the interrupt (`pend`, `IIrqHandler`); and the chip as
a state machine, from the state diagram the driver relies on: `rxing` is a
reception under way, with GDO0 high, and leaving it in any way gives the edge.
`WriteStrobe` keeps the state of *before* the strobe, as the chip shifts the
status out while the strobe comes in.  `SpiFails` is `BusyWait` running out, at
the places the constant `FailAt` names; what the caller does with the result is
in each action (mostly nothing).  `Runs` is the rule that a pending interrupt
comes before the thread's next step.  Registers and bytes are left out, and with
them the failures of the register writes in `Configure` (`RfConfig`,
`SetPktSize`): what a half-configured chip does is not modelled.

### Settings

main's start (`Boot`), a percentage (`Request`, shown first) and the steps of
`EE::Write32`: unlock, wait, store, wait, lock.  The Flash programs in its own
time (`FlashDone`), which may be longer than the driver waits; `PowerLoss` comes
anywhere and a word half written reads as anything.  `status` is what main
prints, the only thing anybody learns.

### VirtualTimers

The list with its deltas, `lasttime`, the counter, and one compare register with
its flag and its interrupt enable.  Time passes by `Tick`, and inside an
operation between reading the counter and setting the alarm (`e`, at most one
tick).  `left` is the history that says how long each timer really has.
`Uses` are applications: which delays they ask for, a bound of them (`longest`)
and which timer they reset before it fires.

`chVTDoSetI` adds the new delay to the time since `lasttime` in 16 bits, and
recognises a sum that wrapped by its being less than that time.  The time,
`now - lasttime`, stands in that comparison without a cast (chvt.c:141).
`systime_t` has 16 bits (chconf.h:44), so both sides are promoted to `int`, and
the difference is negative when the counter itself has come round since
`lasttime`.  No sum is less than that, and the wrap goes unnoticed: the new timer
is put first, with an alarm that is past, and the timers behind it are late by a
turn of the counter.  `Wrapped` is the comparison as compiled, `Misses` says that
it went wrong, and the history `missed` that it ever did.  `Short` applications
are those in which no sum can wrap: the longest delay and the age of the base fit
into the counter together.  The firmware is one: its delays are 1 s at most
(999 ms in `Receive`), 1000 ticks of 65536.

`DeadlinesKept` and `ServiceSpec` say two things: with short delays nothing is
ever missed, and as long as nothing has been, the list and the service are right,
wraps that the code does notice included.

Every difference must fit into the counter besides.  The assumption asks without
resets for delays within the range less twice the lateness of an interrupt; with
one timer that is reset, for about half the range, because the first delta of a
list may be measured from a base that is older by another delay (the timer it
belonged to was reset, chvt.c:240).  Two timers that are reset again and again
let the base grow old without end and break `DeadlinesKept`; the assumption
allows one.  The firmware has one, the timeout of `Receive`.  `TIMEDELTA` is at
least 2, as chvt.h:82 asks for.

`TimerService` says what a user of the kernel gets: a timer fires once, in the
order of the deadlines, never early, and at most `MaxLateness` ticks late
(`TIMEDELTA` - 1 because an alarm is never set nearer, and the latency of the
interrupt).

### ChKernel

Each kernel function runs under the system lock and is one step.  A call that
switches to another thread also does what that thread had left to do
(`GoesOn`: `chSchGoSleepTimeoutS` resets its timer after the switch).  `u` is
the union of `rdymsg` and `wttrp`.  `TimerFires` and `Wakeup` are two steps,
because `chVTDoTickI` releases the lock between unlinking a timer and its
callback.  `BehindPeers` and `AheadOfPeers` are `chSchReadyI` and
`chSchReadyAheadI`; which of them a path takes is what Shell and LedEffects rest
on: `WakeupS` puts the current thread behind its peers, an interrupt leaves it
ahead.  `Post` is `SendNowOrExit`, which does not reschedule: its callers are
never below main.  Threads make any call at any time.

`HasTurn(t)` says that t is the first of its priority, running or preempted.
`TurnKept` says who can take that from it: only t itself, by waiting, ending,
yielding or making a thread above it run (`GivesUp`), or a thread that comes to
its priority by `chThdSetPriority`.  LedEffects' `MainRuns` follows from
`PriorityOrder` alone (main is below Effects), Shell's from `TurnKept`.

`Waiting(p)` reads one queue of `ThreadQueues` off the state: the running thread,
if p is its priority, and `Peers(p)`, the ready threads of that priority in the
order of the list.


## 3. Runs

| run | configuration | checks | result |
|---|---|---|---|
| `uart_tx` | 3 slots, 7 bytes of 2 values, locked printing | `TypeOK RingConsistent NothingLeftToSend EveryByteLeaves FifoSpec` | holds, 20 302 states |
| `uart_tx_unlocked` | 3 slots, 4 bytes, both printers | `NothingLeftToSend` | violated (finding 1) |
| `evt_msg_q` | 2 slots, 2 fetchers, 2 senders, 1 poster, 3 messages | `TypeOK SemConsistent TokensConserved FifoSpec EveryMessageFetched` | holds, 249 377 states |
| `shell` | receive ring 5, command buffer 4, queue 2, 2 commands and any blank lines, of 5 kinds, 2 radio messages, paced host | `TypeOK UnprocessedCounted BusyWhileProcessing CommandKept OneCommandAtATime EveryLineTaken` | holds, 189 598 states |
| `shell_streams` | the same, host not paced | `CommandKept` | violated (finding 2) |
| `led_effects` | 3 LEDs, 4 levels, 3 requests, thresholds from -1 to 4 | `TypeOK StaysInStrip RequestShown NoFlicker Settles` | holds, 116 078 states |
| `percent_fade` | 359 LEDs, 255 levels, scale 1024, every percentage from -1 to 101 | `ThresholdsInStrip LitFromTheBeginning BrighterWithPercent` | holds, 101 states |
| `radio` | 4 packets of 3 kinds, queue 2, 2 failing transfers, none in `Transmit` | `TypeOK EveryPacketOnce ReportsInOrder CalibratesInIdle KeepsListening` | holds, 26 135 states |
| `radio_stuck` | the same, 1 failing transfer, anywhere | `KeepsListening` | violated (finding 3) |
| `settings` | 5 percentages in and out of range, 3 requests, 2 power losses | `TypeOK SavedIsKept RestartShowsSaved` | holds, 5 015 states |
| `virtual_timers` | 3 timers, counter of 4 bits, 2 applications | `TypeOK DeadlinesKept ServiceSpec` | holds, 1 283 684 states |
| `kernel` | the firmware's 5 threads, 3 priorities, 2 references, symmetry | `TypeOK PriorityOrder WaitsConsistent QueuesSpec TurnKept` | holds, 363 132 states |

Each property of a passing run has a *mutant* in `PROJECT.json`: a mapped
definition replaced by its faulty variant (a dropped guard, an off-by-one, a
missing wake-up, a swapped order), under which TLC finds the property violated.

### Why the bounds are enough

* `uart_tx` – with 7 bytes through 3 slots both cursors wrap twice, the ring
  fills (`IPutByteOverflow`), a block is split by the end of the buffer, and the
  handler meets the thread before, in and after a text.  The theorems remove the
  bounds for the safety properties.
* `evt_msg_q` – two threads per semaphore are the least for which the order of
  the sleepers and two grants at once matter; 3 messages fill a ring of two with
  a sender waiting, and wrap it.  The theorems remove the bounds for the safety
  properties.
* `shell` – a command buffer of 3 characters and a NUL against lines with a
  number, with a backspace and CR LF, with the number past the end of the buffer
  (so that it is missing), with a word in its place, and of delimiters only (no
  name); and with everything erased (no command, and no bound on how often); most
  lines are as long as the receive ring or longer, so it wraps; 2 radio messages
  fill the queue of 2, so that a line is refused.  The theorems remove the bounds
  for the safety properties.
* `led_effects` – 3 LEDs let a half-written picture differ from both its
  neighbours; 3 requests let one come while the second is still being shown.
  The thresholds are all pairs from one below the strip to one beyond it, so the
  gradient begins and ends inside, at the ends and outside, the thresholds cross,
  and each of the first two loops leaves the array.  The theorems allow any
  integers.
* `percent_fade` – no bound at all: the real constants, every pair of
  percentages in sequence.
* `radio` – 4 packets pass a queue of 2, so that one is refused and another
  follows; two failures let one fall into the recovery from the other.
* `settings` – three requests: a save that ran out of time, the next one, and one
  more after a restart; the second loss of power hits a state that the first
  left behind.
* `virtual_timers` – 16 ticks wrap several times while timers run, with delays up
  to 11, the longest that fits without resets; three timers have a first, a middle
  and a last in the list, and the reset one can be any of them.  The application
  with short delays never misses a wrapped sum; the other one has sums that wrap
  and are noticed, and sums that are missed.  States after a miss are checked but
  not expanded (`CONSTRAINT UntilMissed`): nothing is claimed of them but
  `TypeOK`, which is proved, and how late a timer can come grows with every
  further miss.  Times are scaled: 2^16 and `CH_CFG_ST_TIMEDELTA` 2 in the
  firmware.
* `kernel` – no bound: the threads of the firmware without idle calls, any
  sequence of calls, interrupts and timeouts.  Effects and rLvl1 are alike in
  this model, and so are the two references (`Symmetry`); the properties are
  about safety and name none of them.

### Environment assumptions

* *Paced* (run `shell`): the host starts a line only when UartRx has read the
  bytes before it and has left the loop, and leaves at most `UART_RXBUF_SZ` - 1
  bytes unread (at 99 the difference of the indices, uart.cpp:134, is 0 and all
  of them count as none).  A person at a terminal or a script that waits for the
  answer does; finding 2 is what happens to a host that does not.
* *Radio*: sending a packet takes milliseconds, and rLvl1 needs microseconds from
  the end of `WriteTX` to its suspend, so the packet ends after it
  (`ChipTxEnds`); `FailAt` leaves out `Transmit` in the passing run (finding 3).
* *VirtualTimers*: an interrupt is served within `MaxLatency` ticks; at most one
  timer is reset before it fires, and delays fit into the counter (section 2).
* *LedEffects*: the thresholds are not 2^31 apart.  They are not assumed to lie in
  the strip.
* *ChKernel*: `Post` only by threads not below the one it wakes, as in the
  firmware.

### Fairness, and why the code justifies it

* **UartTx** – weak for `DmaMove` (hardware moves bytes by itself) and for the
  steps that finish a text that was begun (the thread does not block in it and a
  text is finite); strong for the handler, because its request is latched in the
  NVIC while masked, and taken at the first unmasking: a thread that locks and
  unlocks for ever does not starve it.
* **EvtMsgQ** – weak for `Fetch`, `FetchResumes` and `SendResumes`: a ready
  thread runs in the end (the threads above it all sleep between two pieces of
  work), and the loop of main always comes back to `Fetch`.  Nobody has to send
  and no timeout has to occur.
* **Shell** – weak for the bytes of a line that was begun and for UartRx (its
  sleep ends); strong for main, which UartRx holds back for a moment again and
  again but cannot hold for ever, since it sleeps 99 ms after each turn.
* **LedEffects** – weak for `Effects` (highest priority, its sleeps end) and for
  what main has begun.  Nobody has to make a request.
* **Radio** – weak for the thread, the interrupt handler, the timeout of
  `Receive`, and the end of a packet that the chip receives or sends: the thread
  is of the highest priority, and the others are hardware.  Nobody has to send
  us a packet, and main need not fetch: `SendNowOrExit` does not wait.

`CHECK_DEADLOCK FALSE` stands where the bounded inputs run out (messages in
EvtMsgQ; lines in Shell; requests in LedEffects and Settings; packets in Radio)
and the system rightly waits for ever; LedEffects ends besides where a loop has
written outside the strip.  The other runs check deadlock.


## 4. Findings

1. **`uart_tx_unlocked` / `NothingLeftToSend`** (uart.cpp:99).  `Ack` and `Reply`
   print without `chSysLock`.  The handler's `IFullSlotsCount -= ITransSize` can
   fall between the load and the store of `IFullSlotsCount++` and be undone, and
   the count is wrong from then on: the channel reports "Nothing left to send"
   (uart.cpp:79) with the ring not empty.  The two cursors stay apart after
   that, and later texts come out late, behind stale bytes.  The damage has
   bounds: the DMA never leaves the buffer, the count never wraps, and no room in
   the ring is lost for good (section 5).
2. **`shell_streams` / `CommandKept`** (uart.cpp:291).  The busy flag is tested
   before the loop of `IRxTask` and set inside it.  Bytes that follow a complete
   line in the same turn are written into the `Cmd_t` the queued message points
   to, and main executes something else than the line that was accepted.
3. **`radio_stuck` / `KeepsListening`** (cc1101.cpp:140).  `Transmit` drops the
   results of `EnterTX` and `WriteTX` and then suspends rLvl1 without a timeout,
   "Will be here when IRQ fires".  If `BusyWait` ran out in either, the chip sends
   nothing (or a preamble without end), no edge comes, and the device does not
   listen again until it is reset; the same failure in `Receive` costs 999 ms.

Two more came up in modelling.  Their states are reached in passing runs, which
say exactly when, and theorems say when not:

4. **A wrapped sum missed** (`virtual_timers`, history `missed`; chvt.c:141).
   "Scenario where a very large delay excedeed the numeric range, it requires a
   special handling" (chvt.c:142-143): with a 16-bit `systime_t` the handling is
   left out when the counter has wrapped since `lasttime`, as the right side of
   the comparison is a negative `int`.  In the run's 4 bits: one timer set to 11
   at time 10, another to 11 at time 0; the sum is 1, `1 < -10` is false, the
   second timer goes first with delta 1, and the first fires a turn late.
   `ShortDelaysServed` is why this firmware is safe; with delays beyond about 32 s
   (a third of 65 s where a timer is reset) it does not apply.  A cast of the right side to `systime_t` makes the
   comparison the one the comment describes.
5. **Fade outside the strip** (`led_effects`, history `outside`; main.cpp:159-163,
   sk6812.cpp:187, 189).  The third loop of `SetupAndStart` tests its index
   (sk6812.cpp:196), the first two do not, and the command hands them whatever it
   was given: `Fade 1000 0` writes 641 colours behind `DesiredClr`, `Fade 0 -5`
   five before it.  `StaysInside` and `NeverOutside` say that these two cases are
   all there are, and `ThresholdsAlwaysInStrip` that no percentage gives one.


## 5. Proofs

TLC checks small instances; the following is proved with TLAPS for every value
of the constants.  All the proofs have one shape: a strengthened invariant
`IInv`, with `Init => IInv` and `IInv /\ [Next]_vars => IInv'` by one lemma per
action, and the properties as consequences.  TLC found each `IInv` to hold on
the instance of the component's run before it was proved.  The hypotheses of a
theorem are the `ASSUME` of its module, which TLC evaluates in every run, and
what the theorem itself names; no constant is bounded.  The bounds `Max...` are
any natural numbers there.

### ChKernel_proofs: the scheduler

From `ChKernelAssumption` (main and idle are two threads, priorities are
numbers, idle is below all others), for any set of threads, references and
priorities and any number of interrupts:

| theorem | states |
|---|---|
| `InductiveInvariant` | `Spec => []IInv` |
| `TypeCorrect` | `TypeOK`: each thread is in one place, running, once in the list, or waiting |
| `PriorityAlwaysOrdered` | `PriorityOrder`: the debug assertion chschd.c:416 never fails |
| `WaitsAlwaysConsistent` | `WaitsConsistent`: no reference and no timer outlives the wait it belongs to |
| `ImplementsQueues` | `ChKernel` implements `ThreadQueues` |
| `TurnAlwaysKept` | `TurnKept`: nobody but a thread itself gives its turn away to a peer |

`IInv` is `ListInv /\ WaitInv`.  `ListInv` adds to the order of the list that
the idle thread never waits, so that there always is a thread to switch to, and
that only inside an interrupt a ready thread may be above the running one.
`WaitInv` adds that a callback of a timer is under way only inside an interrupt:
so no thread makes a call between the unlinking of a timer and its callback.
The list lemmas say where an insertion puts a thread (`BehindPlace`,
`AheadPlace`) and that it keeps the list in order (`InsertKeeps`).

For the refinement, a list in order consists of one segment per priority
(`SegmentExists`), which is the queue the recursion of `Peers` collects
(`PeersOfIs`, by a least counterexample).  `InsertPeers` says what an insertion
does to each queue: behind the peers it appends, ahead of them it puts in front,
and the others stay.  From these each kernel function is a step of the queues:
`ReadyI` is `Wake`, `GoSleep` is `Block`, `WakeupS` of a thread above is
`HandOver`, and `RescheduleS` moves nothing but the running thread's level.

`TurnAlwaysKept` goes through the same queues.  Who has the turn of a priority is
the head of its queue (`TurnIs`), so a step that leaves the queue alone or
appends to it takes the turn from nobody (`TurnStays`): that is a thread made
ready behind its peers, whatever wakes it (`WakeKeepsTurn`).  An interrupt that
preempts puts the running thread back *ahead* of its peers, which leaves its
queue as it was.  `chThdSetPriority` is the exception the property names.

### VirtualTimers_proofs: the delta list

From `VirtualTimersAssumption` (section 2), for every width of the counter below
that of `int`, `TIMEDELTA`, latency, number of timers and application:

| theorem | states |
|---|---|
| `InductiveInvariant` | `Spec => []Inv`: `IInv` until a wrapped sum is missed, and none is with short delays |
| `TypeCorrect` | `TypeOK`, also after a miss: no delta wraps; a timer is in the list once, exactly while it is armed |
| `DeadlinesAlwaysKept` | `DeadlinesKept`: until a miss the deltas say when each timer is to fire |
| `ImplementsService` | `ServiceSpec`: until a miss each step is one of `TimerService` or a stutter |
| `ShortDelaysServed` | with short delays `VirtualTimers` implements `TimerService`, without reservation |

`TypeInv`, which holds after a miss too, has its own induction: the sums of the
deltas stay in the range of the counter wherever a timer is put.
`IInv` says that the registers are in range (`RegsInv`); that the list is in the
order of the times left, the first delta being the time left plus the ticks
since the base, each other one the difference from the one before (`Times`);
that the base is not too old (`Room`): some timer that is not reset still has
its deadline within reach of it, or all have; and that the alarm is pending or
comes at most `TIMEDELTA` - 1 ticks after the first deadline (`AlarmInv`).
`Times` without `Room` is not inductive: two resets in a row move the first
delta past the range of the counter.  `AlarmInv` is what bounds lateness, and
with it the ticks that a difference modulo 2^16 must tell apart.

### UartTx_proofs: the transmitter

From `UartTxAssumption` (the ring has at least one slot), and for some of the
theorems `OnlyLocked == Callers \subseteq {"Printf"}`, for every ring size,
alphabet and number of bytes:

| theorem | for | states |
|---|---|---|
| `InductiveInvariant` | `OnlyLocked` | `Spec => []IInv` |
| `RingAlwaysConsistent` | `OnlyLocked` | count and cursors agree |
| `LineAlwaysPrefix` | `OnlyLocked` | `LineIsPrefix`: the wire carries the accepted bytes, in order, once |
| `IdleMeansSent` | `OnlyLocked` | idle between two texts means everything was sent |
| `ImplementsFifo` | `OnlyLocked` | `UartTx` implements `TxFifo` |
| `AnyPrinterInvariant` | any printers | `Spec => []BothInv` |
| `TypeCorrect` | any printers | `TypeOK`: the count never leaves 0..`BufSz`, the cursors never leave the buffer |
| `BlockAlwaysInBuffer` | any printers | `BlockInBuffer`: no block leaves the buffer, no subtraction wraps below zero |
| `RoomNeverLost` | any printers | `NoRoomLost`: the idle channel counts no slot as taken between two texts |

`RingConsistent` and `LineIsPrefix` are not inductive.  `IInv` adds: the
interrupt is masked exactly while the thread prints, so that the loaded count is
still the count when it is stored (`LockInv`, the part that unlocked printing
breaks); a running block is the oldest part of the ring, ends before the end of
the buffer, and has sent `ITransSize - cndtr` bytes (`DmaInv`); and slot by slot
the ring holds the newest accepted bytes (`DataInv`).  The refinement maps a
character to `Put`, a byte moved to `Deliver`, a completed block to `Release`.

With `OnlyLocked` dropped the theorems that name it are false, as finding 1
shows.  The others rest on `BothInv`: `DmaInv`, and instead of `LockInv` only
that the count loaded by the thread is never *less* than the count (`LoadedInv`).
The handler can only subtract between the load and the store, so what the store
writes back is too large and never too small: the running block stays within the
count, which is why its own subtraction, when it comes, cannot wrap.

### EvtMsgQ_proofs: the event queue

From `EvtMsgQAssumption` (at least one slot, finitely many threads, each in one
role), for every size, every set of messages and every number of threads:

| theorem | states |
|---|---|
| `InductiveInvariant` | `Spec => []IInv` |
| `TypeCorrect` | `TypeOK` |
| `SemaphoresConsistent` | the kernel's "inconsistent semaphore" assertion never fails |
| `TokensAlwaysConserved` | each semaphore counts what nobody has been promised |
| `WakeupNeverLost` | nobody sleeps beside what it waits for: a consequence of the two before |
| `ImplementsFifo` | `EvtMsgQ` implements `MsgFifo` |

`IInv` says of each semaphore that its queue holds exactly its sleeping threads,
each once (`QueueInv`), that count + granted + sleeping = available (`Balance`:
the number of threads that were woken and have not run yet is a cardinality),
and the kernel's assertion (`Consistent`); and of the ring that it holds the
messages posted and not fetched, in order (`RingInv`).  The lemmas are about one
semaphore at a time: a signal (`SignalSem`), a claim by count or by grant
(`ClaimSem`), a sleep (`SleepSem`), a timeout (`TimeoutSem`), and they are put
together for each operation of the queue.  Which ready thread runs is open, so
the theorems hold whatever the scheduler does.

### Shell_proofs: the receiver, the busy flag and the one command

From `ShellAssumption` and `Paced` (the host starts a line only when the one
before was read, section 3), for every size of ring, command buffer and queue,
every set of lines, and any radio messages:

| theorem | states |
|---|---|
| `InductiveInvariant` | `Paced /\ Spec => []IInv` |
| `TypeCorrect` | `TypeOK`: `PutChar` and `strtok` stay inside the command buffer |
| `UnprocessedAlwaysCounted` | `UnprocessedCounted`, with `MaxUnread < RxSz` besides |
| `BusyExactlyWhileProcessing` | `BusyWhileProcessing`: the flag is up exactly while one command is queued or executed |
| `CommandUntouched` | while a command is queued, only main's `OnCmd` changes the `Cmd_t` |
| `CommandAlwaysKept` | `CommandKept`: what main reads in the `Cmd_t` is the command accepted |
| `ImplementsFifo` | `OneCommandAtATime`: `Shell` implements `MsgFifo` with room for one |

`Paced` cannot be dropped (finding 2), and with `MaxUnread = RxSz` a full ring
counts as an empty one.  `IInv` adds that the buffer always has a NUL in its
last place, without which `strtok` runs out of it (`CmdStr`); that the ring from
`RIndx` on holds what is unread (`RingInv`); and that what is on its way belongs
to one line (`LineInv`), of which r characters are read and the others lie in
the ring or are still to be sent (`Rest`).  Before the end of the line the
buffer holds `Typing(chars)[r]` (`Open`), after it only the rest of the end is
left (`Over`).  Hence in the turn in which a command was completed the loop of
`IRxTask` stores nothing more (`BusyInv`), and the `Cmd_t` is still the command
accepted (`CmdInv`).

That the code in place computes what the line means is in four groups of lemmas:
`PutCharEdits`, that `PutChar` does to the buffer what `Edit` does to the line;
`FindIs`, `StringAtIs` and `StrtokIs`, where `strtok` stops; `StrtokGives`, that
the n-th call on a buffer finds the n-th of the `Words` and leaves the rest of
the buffer as it was; and `GetNextGives` to `CommandGiven`, that `OnCmd` gets the
numbers of `Meaning`, or returns where one of them fails.  `Words` is defined
without recursion, by where words start, so that nothing has to be said about a
recursive tokenizer; what is left to induction (over the characters of a line
and the parameters of a command) is done by a least counterexample (`NatMin`).

### LedEffects_proofs: the strip

From `ColorsAssumption`, `LedEffectsAssumption` and `PercentFadeAssumption`, for
every length of strip, every brightness, every scale of the gradient, any
integers as thresholds and any number of requests:

| theorem | states |
|---|---|
| `InductiveInvariant` | `Spec => []IInv` |
| `TypeCorrect` | `TypeOK`: no division of the gradient leaves the levels, whatever the thresholds |
| `StaysInside` | `StaysInStrip`: the loops leave the strip only for a lower threshold beyond it or an upper one before it |
| `NeverOutside` | without such thresholds in `FadeArgs`, nothing is ever written outside |
| `RequestAlwaysShown` | `RequestShown`: asleep means that the last request is on the strip |
| `NeverFlickers` | `NoFlicker`: between two requests no LED moves away from its colour |
| `ThresholdsAlwaysInStrip` | `ThresholdsInStrip`, for `LED_CNT >= 359` |
| `AlwaysLitFromTheBeginning` | `LitFromTheBeginning`, for `ClrLo >= ClrHi` besides |
| `BrighterUpTo70` | the same hypotheses: a larger percentage, up to 70 %, dims no LED |
| `NeverMuchDarker` | the same, and `LED_CNT <= Scale`: any larger percentage dims no LED by more than one level |

`EffectInv` says what `Effects` knows at each of its unlocked places.  `GoalInv`
says where the requested picture is: shown; in `DesiredClr` with an effect
running; or in the assignments main's loops have still to do, which *lead* to it
(`Leads`: the last assignment to an LED is its colour, or there is none and it
has it).  That no step of `Effects` comes between the loops and the end of the
request is the priority rule again.  `FadeInv` says which thresholds main is
working on, and that only some of them put an index outside the strip into what
is still to do (`FadeLeads`); an assignment outside leaves the picture as it was
and ends what the model says.  The first hypothesis on the strip is the
number 359 in `PercentToFade` (main.cpp:119, 124), the second the order of the two
colours of the only fade (sk6812.cpp:111).

The last two are what holds of `BrighterWithPercent` for any numbers.  Up to 70 %
the gradient begins at the first LED and only its end moves: a longer gradient
has no larger step per LED, rounded as it is (`LongerIsLighter`), so each LED is
mixed from no more of the darker colour.  Above 70 % the end stays and the
beginning moves: the gradient gets shorter and its step larger, and an LED can
lose by rounding what it gains by lying nearer to the beginning
(`LaterIsLighter`): the loss is less than one step of rounding per LED, hence
less than the scale if the strip is not longer than the scale, hence at most one
level (`ClrMixNear`).

### Radio_proofs: reception and report

From `RadioAssumption`, for every length of `EvtQMain`, number of packets,
number of failing transfers and every set of places where they fail, `Transmit`
included:

| theorem | states |
|---|---|
| `InductiveInvariant` | `Spec => []IInv` |
| `TypeCorrect` | `TypeOK` |
| `PacketsCountOnce` | `EveryPacketOnce`: only intact packets of ours, none twice, in order |
| `ReportsAlwaysInOrder` | `ReportsInOrder`: each report is the packet just believed, sent before the next reception |
| `AlwaysCalibratesInIdle` | `CalibratesInIdle` |

`ChipInv` relates the thread's place to a chip it does not ask: where a good
checksum was read the reception is over; from `ReadFIFO` to `Transmit` the chip
is idle and no edge is pending, so the edge that ends `Transmit` is the one of
the packet sent.  `OrderInv` says that what is in the FIFO is younger than what
was believed; `ReportInv` that exactly the last believed packet is missing in
the air, and only while it is owed.

### Settings_proofs: the saved percentage

From `SettingsAssumption`, for every set of percentages and of words an EEPROM
can hold, any number of requests and of losses of power:

| theorem | states |
|---|---|
| `InductiveInvariant` | `Spec => []IInv` |
| `TypeCorrect` | `TypeOK` |
| `SavedAlwaysKept` | `SavedIsKept`: what was reported as saved is in the EEPROM, with no older write on its way, and the strip shows another percentage only after a reported error or a word that is no percentage |
| `RestartAlwaysShowsSaved` | `RestartShowsSaved`: a start shows what was saved and shown before |

The properties speak of main between two saves; the invariant says for each
place of `EE::Write32` what is in the Flash: nothing being programmed when main
starts (`BootInv`), the percentage shown is the one being saved (`SavingInv`),
after the store it is being programmed or was (`StoredInv`), after a start main
shows the word (`IdleInv`), and a write is never refused (`NoProtection`).

### What stays with TLC

Every safety invariant and every action property that a passing run checks is a
theorem, and so is every refinement, but for one property (the second below).

* Liveness under fairness (`EveryByteLeaves`, `EveryMessageFetched`,
  `EveryLineTaken`, `Settles`, `KeepsListening`) and whatever needs `ENABLED`:
  beyond the prover's backends.
* `BrighterWithPercent`: not a theorem, it is true of the firmware's numbers and
  false for coarser scales (64) or longer strips (1000).  TLC checks it with the
  firmware's, for all pairs of percentages; `BrighterUpTo70` and
  `NeverMuchDarker` say what is true of all numbers.
* The findings, which are single behaviours.


## 6. Not modelled, and why

* *LED strip driver*: only that `ISetCurrentColors` shows the current colours.  A
  frame takes about 11.5 ms, and an effect may sleep for 1 ms between steps.  If
  a step came while a frame is on its way, `dmaStreamSetMode` would stop the
  channel in the middle of it.  Whether that happens depends on how long the
  compiled loops of `Process` and `ISetCurrentColors` take at 8 MHz, which the
  source does not give; with either answer assumed, a model would show what was
  put into it.
* *A lost acknowledged percentage* (radio_lvl1.cpp:50): a packet is reported to
  its sender also when the queue is full.  `Radio` has the step; a property would
  restate the branch, and the comments do not promise otherwise.
* *`chSemSignal`, `chSemSignalWait`, `chSemReset`, `chSemAddCounterI`*, thread
  queues, `chThdWait`, messages: no caller, or compiled out (chconf.h).
* *Start-up order*: `EvtQMain.Init` comes before all threads but `rLvl1` and
  `UartRx` are created before the strip is set up; they only post, and main
  fetches after it has set everything up.  No interleaving is left to check.
* *Kernel services without a caller* (mutexes, events, condition variables,
  dynamic threads, tracing), *HAL, port, start-up code*
  (third-party, registers), *unused kl_lib classes* (blinkers, sequencers,
  circular buffers): out of scope.  What the models rely on — that `chSysLock`
  masks interrupts, how a DMA channel counts down — is modelled from its use.
* *What an assignment outside `DesiredClr` hits* (finding 5), and the overflow of
  `ThrHi - ThrLo` for thresholds 2^31 apart: undefined behaviour, after which
  LedEffects says nothing.
* *Failed register writes* in the configuration of the CC1101 (cc1101.cpp:94-117):
  no register is modelled that could keep its old value.
* *Formatting of printed text*, *SPI bytes and register values*, *clock set-up*,
  *colour spaces*: pure data, no property depends on them.


## 7. Plan

The modules the first plan named are written, but for two: the strip's DMA (see
above), and a composition of the whole firmware.  The components meet in three
places, and each is covered where it is narrow: `EvtQMain` (EvtMsgQ implements
the bounded queue that Shell and Radio use), the ready list (ChKernel implements
the queues that Shell's `MainRuns`, LedEffects' `MainRuns` and Radio's `Runs`
assume), and the timers (VirtualTimers implements the service whose timeouts
EvtMsgQ, Radio and ChKernel take as events).

What is left, in this order:

1. **Radio** – which failed transfers can still be followed by a report, and
   `KeepsListening` as a bound on how long the thread can be deaf.
2. **The whole firmware** – a module that runs Shell's main and UartRx on
   ChKernel's ready list, in place of the arguments above.
