# TLA+ models and proofs for ser2ble_tlsr8266

The repository holds the firmware of a small board with a Telink TLSR8266: what
arrives on its UART is sent as BLE notifications, what a BLE central writes is
sent out on the UART ("蓝牙串口透传工具", a transparent serial link). The same
tree holds a sibling firmware (`826x_ser2hid`, frames from the UART become HID
reports), the vendor's drivers, and a binary BLE stack. This directory models the
logic written in C here, checks it with TLC on small instances, and proves the
main results with TLAPS for every value of the parameters.

## 1. Inventory

One main loop and one interrupt handler. `main()` (`main.c`) boots, enables
interrupts and then repeats: `blt_sdk_main_loop` (the stack, which calls back
into the application), `ser2ble_process`, `device_led_process`,
`ys_switch_scan`. `irq_handler` calls the stack's handler and
`ys_uart_irq_handler`. Two DMA channels and the clock run beside both.

| Part | State | Operations | Talks to |
|---|---|---|---|
| UART receive (`ys_uart.c`, `utility.c`) | ring `uart_rx_fifo`, the open slot (`wptr`, `wlen`), pause timer `uart_rx_tick` | receive interrupt; closing a slot after a pause; get, hand over, pop | shares the ring between interrupt and main loop; calls `ys_uart_recv_handler` |
| UART send (`ys_uart.c`, `uart.c`) | ring `uart_tx_fifo`, busy flag and its timeout, DMA channel | `ys_uart_send`, send step of `ys_uart_process`, `ys_uart_set_baud`, completion interrupt | DMA reads the slot while the main loop goes on |
| Configuration key (`ys_switch.c`) | sample filter, value | register, scan, callback | both applications |
| Configuration (`ys_rom.c`, `flash.c`) | one flash sector, `device_config` | load with repair, save = erase + write | boot, key, command |
| ser2ble application (`ser2ble.c`, `ble_app.c`, `main.c`) | `key_tick`, LEDs, pointers into the stack | command, data, GPIO and key handlers, AT parser, advertising name | all of the above |
| ser2hid application | `key_tick`, HID reports, pairings | frames to reports, key, 3 s test | stack, UART |
| BLE glue (`ble_drv.c`) | advertising parameters, address in flash | connect, terminate and timeout callbacks, `ble_disconnect` | stack, status LED |
| Status LED (`blt_led.c`) | on/off times, start tick, repeat count | setup, process | clock, BLE glue |
| Soft timers (`blt_soft_timer.c`) | sorted table of at most four, wake-up | add, delete, process; callbacks edit the table | clock; compiled out by default |
| Keyboard matrix (`keyboard.c`) | last two scans, linger counter, ring of scan results | look for keys, scan, remove ghosts, debounce, read | not called by the two firmwares |
| USB HID devices (`usbkb.c`, `usbmouse.c`, `usb.c`) | two rings of frames, `usb_fifo`, endpoints with toggles, keys not released | add frame, report frame, drain the fifo, bus reset, SET_PROTOCOL | USB host |
| USB control (`usb.c`) | `g_response`, `g_response_len`, `g_stall` | SETUP, DATA, STATUS | USB host |
| USB serial port (`usb_uart.c`, `usbcdc.c`) | buffer being sent, queue of pending writes, scheduled tasks | write, packet interrupt, finish task | USB host, application |
| Descriptors, I2C, SPI, ADC, audio, EMI, printf, AES, simulation | registers, tables | vendor code | — |
| BLE stack | binary | — | environment |

What is hard, and what makes each part correct:

* **Receive.** The interrupt falls between any two steps of the main loop; the
  consumer may refuse a slot; a short tail has to be flushed by a timer; `u8`
  counters wrap; the ring can fill. Correct: every byte once, in order, and in
  the end, as long as the ring had room.
* **Send.** Flag, interrupt and timeout are three opinions about one channel, set
  and cleared in different orders; a change of speed can kill a transfer without
  an interrupt; a slot is released while it is read. Correct: messages leave whole
  and in order, no transfer is started over another, the queue never sticks.
* **The link end to end.** The handler looks at the connection, then the stack
  looks again; a connection can end between the two, a slot can be refused for
  as long as the stack is full, and another central can come. Correct: no gap and no
  double inside a connection, every slot served, writes of the central whole and in order
  as long as they do not come faster than the queue can keep them apart.
* **Speed and key.** Four copies of the speed, two handlers that change it, two
  meanings of one key, power that can go at any byte of a save. Correct: the copies
  agree at rest, the speed survives, a press is answered once, debounced by eight
  equal samples, no fewer and no more.
* **Address, advertising, LED.** An address written without an erase; directed
  advertising that ends by itself; an LED that callbacks set up and a process on a
  wrapping clock runs. Correct: one address for ever, nobody locked out, the LED tells
  the truth and does not drift.
* **ser2hid.** Frames and a key share one keyboard report whose delivery may fail.
  Correct: nothing stays down at the host for which nobody presses a key.
* **Soft timers.** The table is edited while it is walked, on a clock that wraps.
  Correct: the head is due first, nothing due is passed over for long or lost.
* **Key matrix.** Ghosts, bounce, a scan that stops some time after the last
  release, a ring that overflows. Correct: exactly the ghosts go, the last event is
  what is pressed.
* **USB.** A host that gives up a transfer anywhere, resets the bus at any moment and
  polls when it likes; writes that race an interrupt and a task. Correct: a reply is the
  descriptor asked for and whole, host and device agree on the toggles, the packets of a
  buffer go out once, in order and unmixed, the host misses only those it did not poll for, and
  the buffer is given back once.

`PROJECT.json` lists the hazards with their lines and the property that covers
each, or why none does.

## 2. Modules

| Module | Models | State and actions against the code |
|---|---|---|
| `MyFifo` | `my_fifo_t` | pure operators: wrap-around counters, `Count` for `(wptr-rptr)&255`, `SlotOf` for `p&(num-1)` |
| `YsUartRx` | receive half of `ys_uart.c` | `RxIrq` is the whole interrupt handler; `ProcIdle` the section with interrupts off; `ProcGet`, `ProcLen`, `ProcAccept`/`ProcRefuse`, `ProcPop` the steps of lines 122–126, an interrupt possible between any two |
| `BytePipe` | what a receiver promises | abstract: bytes enter, leave in order in runs, and the pipe may break |
| `YsUartTx` | send half of `ys_uart.c`, busy flag of `uart.c` | `SendAccept`/`SendReject`, `SetBaud`, `TxGet` … `TxPop`; `DmaFirst`, `TxDoneIrq`, `TimeoutElapse` are hardware |
| `YsSwitch` | `ys_switch.c` for one switch | `SwitchInit`, `SwitchRegister`, `SwitchScan`, and a contact that moves |
| `YsRom` | `device_config` in flash | operators: `Recovered` is the repair at load, `Torn` the sectors an interrupted page write can leave |
| `Ser2Ble` | `main`, `ser2ble.c`, configuration | composes `YsRom` and `YsSwitch` with the boot, the main loop, the key and command handlers, the connection and losses of power |
| `SerialLink` | `ys_uart_recv_handler`, `ser2ble_at_process`, `ble_nus_send_data`, `ble_nus_recv_handler` | the two rings as the queues that `YsUartRx` and `YsUartTx` show them to be; `Offer` and `Notify` are two steps, between which the connection can end; refines `BytePipe`; `UartSend` may take the slot in flight, which the channel reads in two halves (`DmaFirst`, `TxDone`) |
| `BltLed`, `BleDrv` | `blt_led.c`; `ble_drv.c` with the address in flash | `LedSetup`, `LedProcess`; `InitMac`, `WriteMac`, `StartAdvertis` boot; callbacks; `PowerLoss` |
| `Ser2Hid` | `ser2hid.c`, `ble_app.c` of that firmware | on `YsSwitch`: frames, key, 3 s test; a report can be lost for want of a buffer |
| `BltSoftTimer` | `blt_soft_timer.c` | a pass is `Begin`, `FireAgain`/`FireLast` per entry, `Finish`; `Add`, `Delete`; `wake` is the stack's wake-up |
| `Keyboard` | `keyboard.c` | one action `ScanKey` per call, from operators for the scan (current on every way through closed contacts, `Island`), ghosts, debounce, linger, ring; `KeyMove` between calls |
| `UsbControl` | SETUP, DATA, STATUS of `usb.c` | `HandleIrq` against a host that may give up between packets |
| `UsbHid` | `usbkb.c`, `usbmouse.c`, report part of `usb_handle_irq` | the pass in stages (`IrqStart` … `FifoProc`), because the host fetches reports between them |
| `UsbUart` | send side of `usb_uart.c` over `usbcdc.c` | `Write`, `EndpointIrq`, `FinishCb`; in `Arm` the host takes the packet or it is withdrawn |
| `Usb`, `Drivers` | the last three; soft timers and key matrix | each a sum of parts without a common variable (below) |
| `MyFifo_proof`, `YsUart_proof`, `Ser2Ble_proof`, `SerialLink_proof`, `BleDrv_proof`, `Ser2Hid_proof`, `Usb_proof`, `Drivers_proof` | | the proofs (section 5) |

Composition. `Ser2Ble` and `Ser2Hid` are built on `YsSwitch`, `BleDrv` on `BltLed`.
`SerialLink` takes the two UART halves by their promises: its queues are what
`PrefixDelivered`/`ImplementsPipe` and `WholeInOrder` establish, with the full send queue that
`uart_tx_overwrite` shows, and its own refinement of
the same `BytePipe` continues theirs, slot by slot. `Usb` and `Drivers` are sums:
the parts are served by the same loop or by none, but have no variable in common, so
that interleaving two of them shows nothing that each alone does not. A variable
`part`, chosen initially, says which one a behaviour is about. A property of a part
holds trivially in the initial state the other parts leave it in. `Usb` extends its parts,
as `YsUart_proof` extends both halves of `ys_uart.c`, so that one module can prove about
all of them; that is why the definitions of `YsUartTx` and `UsbHid` carry a prefix
(`TxNext`, `HidNext`).

Representation. A received byte is its number on the line, so what is delivered
can be compared with what arrived. In `YsUartRx` a write pointer that has left its
slot stores into the slot it points at (`Store`), as the C code does. A sent
message is its number, read by the DMA channel in two halves, enough to see a
message change under it. A byte of an address is one bit, erased or not, since programming only clears bits.
A packet of a USB reply is the sequence of `<<descriptor, position>>` it carries. Short
timeouts are three-valued (off, running, expired) with the elapse as an action of its
own; soft timers and LED count ticks of a clock that wraps. In `YsRom` a name is erased,
cut short, or whole: only the first byte and the terminator matter to the code.

Atomicity. A main-loop step is one access of state shared with an interrupt. In
`Ser2Ble` nothing but the radio runs beside the main loop, so a step is a handler up
to its next flash operation; flash operations run with interrupts off, and there
only the key, the clock and the supply act. `device_config` is initialised to the
erased pattern at reset; it is not read before `Load`. A scan of the key matrix takes
microseconds and is one step; contacts move between calls. The USB host acts
between the stages of a pass, and gives up a control transfer only while no
interrupt is pending. Actions headed "Wrong on purpose" are the deliberately wrong
variants the runs are tested against; no specification uses them.

Environment. The BLE stack may refuse a notification, lose a HID report, connect
and disconnect; it delivers at most one command or write per pass of the main loop.
Commands with another length or opcode, or a speed out of range, change nothing and
are left out. `generateRandomNum` is a choice (its first word not the erased one).

## 3. Runs

| Run | Checks | Shows |
|---|---|---|
| `uart_rx` | `TypeOK`, `PrefixDelivered`, `AllDelivered`, `ImplementsPipe` | no byte is lost, doubled or reordered, and none is left behind, while the ring has never been full; `YsUartRx` refines `BytePipe` with its liveness |
| `uart_rx_overflow` | `InOrderOnce` (violated) | once full, the ring re-opens its unread head |
| `uart_tx` | `WholeInOrder`, `NoRestartAtBootSpeed`, `QueueDrains` | undisturbed transfers are whole and ordered; at boot speed or above none is restarted; the queue drains even after a lost interrupt |
| `uart_tx_restart` | `NoRestart` (violated) | at a lower speed the boot-time timeout cuts a transfer short |
| `uart_tx_overwrite` | `NoOverwriteInFlight` (violated) | a full queue wraps onto the message being sent |
| `ser2ble` | `Settled`, `SpeedKept`, `PressActsOnce`, `LongPressDisconnects` | copies of the speed agree, power loss keeps a chosen speed, a press is answered once, a long press disconnects |
| `ser2ble_name` | `NameFits` (violated) | a name cut short by power loss survives the repair and is too long to advertise |
| `link` | `UpWithoutGaps`, `WritesInOrder`, `SlotsServed`, `EndToEnd` | no gap or double inside a connection; the central's writes whole and in order unless one comes with `TxNum` messages unsent, and what is lost then; every slot served; a byte pipe until a slot comes to its turn without a connection |
| `ble_drv` | `AddressKept`, `LedShowsLink`, `InPhase`, `Blinks`, `OpensUp` | one address wherever power goes; the LED tells the link, in phase, and does not stop; directed advertising opens up |
| `ser2hid` | `NothingStuck`, `LongPressUnpairs`, `Debounced` | no key stuck unless a report was lost; 3 s erase the pairings; the switch changes exactly on eight equal samples |
| `usb` | `ReplyIsPrefix`, `ReplyIsWhole`, `Refused`, `TransfersEnd`; `StreamWhole`, `FreedOnceAfterSent`, `AllSent`; `FifoKeepsNewest`, `TogglesAgree`, `HostFollows` | control transfers: whole descriptors, and what an unsupported request can bring; serial port: packets once and unmixed, with some withdrawn; HID devices: newest reports, toggles, keys |
| `drivers` | `TriggeredSequentially`, `SkipsBounded`, `NeverForgotten`; `GhostsExact`, `BufferKeepsNewest`, `NoPhantom`, `KeysFollow` | soft timers; key matrix |

Every property of a passing run is also run against a wrong variant of a definition
(`PROJECT.json`, "mutants") that must violate it.

### Bounds

* `uart_rx`: `Num = 2`, `Size = 4` (two data bytes), `PtrMod = 4`, `LenMod = 6`,
  `MaxBytes = 7`. Seven bytes fill both slots, the slot beyond and wrap the counters;
  the length wraps soon after it leaves the slot. The code has 64 slots of 22 and
  counters modulo 256; the proofs cover those.
* `uart_tx`: `Num = 2`, `PtrMod = 4`, two speeds, `MaxMsgs = 5`: the ring fills, wraps and
  drains, and the speed goes both ways any number of times.
* `ser2ble`: three speeds (one below and one above the default), a filter of three
  samples, `MaxLosses = 2` so that a repair can be interrupted as well. Presses,
  commands and connections are unbounded.
* `link`: rings of two, one buffer in the stack, three slots, three writes, two
  connections: a slot refused in the first connection can be the head in the second, a
  second write behind a message in flight takes its slot, and a third one meets a full queue.
* `ble_drv`: an address of three bytes whose first two tell whether it is there, a clock
  modulo 16 with phases of 6 and passes up to 2 ticks late, two losses of power. The period
  does not divide the clock's range, as in the code (a second is 16 000 000 ticks of a clock
  modulo 2^32), so a phase may begin anywhere once the clock has wrapped.
* `ser2hid`: the real eight samples, one key besides the configuration key, one lost
  report; everything else unbounded.
* `usb`: packets of two bytes, a descriptor that fills its packets and one that does not,
  `wLength` below, at and above them; four writes of up to three packets, two of them
  withdrawn: enough for one overtaken in the queue, and for a loss in the middle of a buffer; rings and
  fifo of two with counters modulo 4, three packets, resets and SET_PROTOCOLs in any mix.
* `drivers`: three timers and callbacks, intervals below a quarter of the clock's range
  (above it the sort does not hold, section 4), clock modulo 32; a matrix of four
  drive and three scan lines with a ring of two. For the ghosts all twelve contacts move, so that every
  set of them comes up, with ways of up to four lines. With a caller that scans five contacts around
  `Fn` move, five times, in a stairs that joins three lines.

### Fairness

* `YsUartRx`: weak fairness of the main loop, which `main` never leaves, and of the
  pause, which is time; strong fairness of `ProcAccept`: a stack that is asked again
  and again finds a buffer in the end, or the connection is gone and the handler
  takes everything. The line owes no byte.
* `YsUartTx`: weak fairness of the main loop, DMA, its interrupt, and time. Nobody has
  to send.
* `Ser2Ble`, `Ser2Hid`: weak fairness of the main loop and of time; strong fairness of the
  end of a connection that was told to terminate, because the stack acts only at its own
  place in the main loop (and not while flash is written). Keys, frames, commands and power
  losses are never forced.
* `SerialLink`: weak fairness of the main loop, of the radio that empties the stack's
  buffers while a connection lasts, and of the end of a transfer (`QueueDrains`). Nobody
  has to connect or write.
* `BleDrv`: weak fairness of the boot, of the end of timed advertising and its callback, of the end
  of a connection told to terminate, of the LED's pass and the clock. Power loss is bounded.
* `Usb`: weak fairness of the device's passes, of the interrupt of an endpoint and the task
  queue, and of a host that goes on with a transfer or gives it up and polls its endpoints.
* `Drivers`: only `KeysFollow` needs it: the caller goes on scanning and reading.

## 4. Findings

Four runs end in a violation by what the code does (`PROJECT.json`, "findings"):
the receive guard that is one slot too generous, the completion timeout not
recomputed with the speed, the slot released before its transfer ends, and the
repair that looks at one byte of the name. The first three need load or a change of
speed, the last a loss of power within the microseconds of a page write.

Met while modelling and kept in the models as the code has it, without a run of their
own because the repository says little of what should happen instead:

* A slot refused while connected and offered again after the connection has ended is read as an AT
  command (`ser2ble.c:91`); it is then served, but as something it was not.
* Writes that meet a full queue are lost and the central is told nothing (`ser2ble.c:99`).
  A write that takes the last place during a transfer goes into the slot in flight
  (`ys_uart.c:131`), whose message then leaves as halves of the two. `WritesInOrder` says that this
  takes a message handed in with `TxNum` others unsent, and that nothing else is lost by it.
* `usbcdc.c:275` withdraws a packet the host does not poll for in time and goes on as if it had
  been sent: the host misses it in the middle of a buffer, and only `T_CNT` knows. The loop
  leaves the endpoint idle, so that the early return for a busy one (`usbcdc.c:250`) is never taken, and
  `UsbUart` leaves it out.
* `ser2hid.c:79` hands on a keyboard frame from its magic byte, which becomes the modifiers
  (`FirstEight` in `Ser2Hid`).
* `usbkb.c:106` compares `usbkb_wptr` with itself, and only the first frame of a packet is
  stored; `HostFollows` speaks of packets with one.
* `usbkb.c:251` remembers a press only if its report went out at once, so that the repetition
  of a press that had to wait is reported again.
* `usb_uart.c:175`: a write between the end of a transfer and the finish task overtakes all that is
  pending, and the buffer the task takes out goes back to the end of the queue (`hasty` in
  `UsbUart`; without such a write `StreamWhole` has the buffers in order).
* `blt_soft_timer.c:54`: deadlines a quarter of the clock's range (BIT(30) ticks) or more
  apart are not put in order.
* `keyboard.c:333` tests for Fn with the line driven now although the data is of the line before.
* `usb.c:281`: the HID descriptor of an interface that has none leaves the reply of an earlier
  transfer in place ("nowhere" in `UsbControl`). `Refused` says how far that goes: the host gets what was
  left of one descriptor it gave up on, in order, not past its end and no more than it asks for.

## 5. Proofs

All for every value of the constants. Assumptions: `NumAssumption` (a ring size that
divides the counter's range at least twice, as a power of two below 256 does),
`HidAssumption` of `UsbHid` and `KeyboardAssumption` (the same of their rings, and more than one
slot: with a single one `(wptr - rptr) & ...` cannot tell an overflow; the code
has four in both). `KeyboardAssumption` also says that there is a drive line and between 1 and 32 scan
lines, one bit each of the `u32` that an entry of the matrix is.
`UsbControlAssumption` has descriptors of at least one byte, and none named like another request.
Further `LossAssumption`, and the types of the constants (`SizeAssumption`,
`BaudsAssumption`, `BaudAssumption`, `BitsAssumption`, `LinkAssumption`, `LedAssumption`,
`MacAssumption`, `UsbControlAssumption`, `UsbUartAssumption`, `HidAssumption` of `Ser2Hid`,
`DriversAssumption`). `TimerAssumption` says of the soft timers what the code's numbers do: what
the sort takes for a quarter of the clock's range is one (`BIT(30)` of 2^32 ticks), the margin after a
deadline (8 s) is no longer than a quarter, an interval is longer than the margin before it
(128 us) and shorter than a quarter; and, of the main loop, that passes come at most a fifth of
the 8 s apart, and that an interval with five such gaps is still below a quarter. Beyond that the
comparisons say nothing (section 4). TLC evaluates them in the runs. Every inductive invariant was
checked by TLC on its run before it was proved.

* **`MyFifo_proof`**: lemmas about wrap-around counters. `Bump` moves `Count` by exactly
  one; an entry's slot does not move when the producer moves; fewer than `Num` entries
  occupy distinct slots; a remainder of a remainder (`ModOfMod`). The rings of
  `UsbHid` and `Keyboard` are instances of it.
* **`YsUart_proof`**, receiving: `TypeCorrect`, `DeliveredInOrder`, `PipeImplemented`. The property
  `out` = first bytes is not inductive: one has to know what lies in the ring. `IInv`
  says that, while the ring has never been full, its entries are runs of consecutive
  bytes joined end to end (`Layout`), the last run being the open slot, that a length in
  the main loop's hands is still the head's, and that consumption ended where the
  first entry begins (`Consumed`). Then every step is a step of `BytePipe` or stutters.
* **`YsUart_proof`**, sending: `TxTypeCorrect`, `NeverRestarted`, `OrderKept`. `Handshake` is the
  strengthening for the second: on a line as fast as at boot a transfer under way has the
  flag set and the timeout armed and not expired, and the main loop is past the test only
  with an idle channel. `OrderKept` (`WholeInOrder`) needs `Places`: where each message
  is, in the ring, in the main loop's hands, in the channel with its halves, or on the line,
  with numbers that add up. `OrderInv` claims it while no transfer was disturbed.
* **`Ser2Ble_proof`**: `TypeCorrect`, `CopiesAgree`, `SpeedSurvives`, `PressAnswered`. `IInv`
  adds what holds in the middle of a boot and of a save: which copies are already
  new, that what is to be loaded recovers to an allowed speed, and that `key_tick` is
  clear during a boot. The interesting step is `PowerLoss` (`TornSound`): whatever an
  interrupted write leaves is repaired to the new speed or the default.
* **`SerialLink_proof`**: `NoGaps`, `PipeImplemented`, `WritesKept`. Up: `RingIsTail` says that the
  ring holds the newest slots without a gap, `UpToRing` that the last notification of the
  present connection is just before them and that, until a slot was taken otherwise, all
  earlier ones were notified. Then a step is one of `BytePipe` or a stutter. Down:
  `Down`, the transfers started and the queue as one sequence, takes in writes only at the end, and the
  start of a transfer leaves it as it is (`GivenInPlace`); what is missing in it met a full queue
  (`QueueOK`). `SlotOK` follows the slot in flight: it holds the message of the last transfer
  or, only while the queue is full behind it, the last message of the queue, which is the one `TxNum`
  places later. So both halves come from one of these two, and from the second only after `behind`.
* **`BleDrv_proof`**: `AddressNeverChanges`, `LinkShown`, `NoDrift`. `AddressSound`: a blank first
  word means that nothing was programmed, and what was on air is what is in flash; `Programming`
  is the lemma about a write cut short. `LedSound`: the callbacks that change the link set up the
  LED. `NoDrift` (`InPhase`): the start of a phase is the moment of the setup plus a
  whole number of phases, modulo the clock's range, with the LED on in the even ones; as the range
  need not be a multiple of the period, the number is one of twice as many as there are ticks,
  and the last is followed by the first (`NextPhase`).
* **`Ser2Hid_proof`**: `KeyDebounced` (`Debounced`, an action property) and `NoneStuck`
  (`NothingStuck`). `SwitchInv`: the filter ends in exactly as many equal samples as have been
  equal so far, the one before them is of the other level. `ReportsInv`: unless a report was
  lost, the central goes by no media key that no frame holds, and by no key at all when neither
  a frame nor the configuration key holds one; without a connection it goes by nothing.
* **`Usb_proof`**, control transfers: `PrefixSent`, `WholeSent`, `UnsupportedRefused`. `Stages` relates
  the host's phase to the device's interrupt and endpoint, `Underway` says that the reply pointer
  stands where the bytes sent end, `Complete` that STATUS comes only after all of it, `Stalled`
  that a refused request has sent nothing. For the request that is neither answered nor refused,
  `Remainder` says that outside its own transfer something is left of a reply only if it was given
  up, and `Leaking` that what is sent is what the pointer has moved over since.
* **`Usb_proof`**, serial port: `Whole`, `FreedOnce`. `PendingUnsent`: the queue holds each buffer
  once and none that is on the line; `LineAtBuffer`: the port's buffer is the last on the line;
  `HandedOnOnce`: finished buffers are scheduled or given back, once. `PacketsOnce`: each packet is
  on the line once and behind all earlier ones of its buffer, from which `EveryPacket`
  concludes that the host has all that were not withdrawn. `Orderly`: without a hasty write
  something is pending only while a buffer is in the port or its task waits, and it is newer than all on
  the line.
* **`Usb_proof`**, HID devices: `NewestKept` (`FifoKeepsNewest`), `TogglesKept` (`TogglesAgree`).
  `FifoOK`: the entries between the counters are the newest reports in order, also after a
  report has pushed out the oldest; `TogglesOK`: the next toggle is the one the host waits for, or the
  other one while a report is in the endpoint; `RingsOK` types the rings of frames.
* **`Drivers_proof`**, key matrix: `KeysInvariant`, `GhostsRemoved` (`GhostsExact`), `NewestKept` (`BufferKeepsNewest`) and `NoPhantomSeen` (`NoPhantom`, an
  action property). `ConflictMeans` and `GhostKeys` say what the pairwise loop of
  `kb_rmv_ghost_key` computes: a position is removed exactly when its line shares it with another
  line that has more than that. `ScanReads`: two lines that share a scan line in a scan are joined by
  closed contacts, and then read all the same (`OtherSide`); so `LeftOfScan` concludes that what
  the removal leaves is closed, however long the ways through the matrix are. `KeysInv` says of the ring what `FifoOK` says of the USB fifo (`Holds`).

* **`Drivers_proof`**, soft timers: `TimersInvariant`, `HeadFirst` (`TriggeredSequentially`),
  `ServedSoon` (`SkipsBounded`), `NoneForgotten` (`NeverForgotten`). Three steps.
  - *The sort.* `Sweep` and `Sort` are recursive functions, one for each loop of
    `blt_soft_timer_sort`. Wherever the comparison of ticks agrees with a ranking of the entries by
    naturals (`Ranked`), the result is a permutation in the order of that ranking (`Sorts`). That is an
    induction over the number of comparisons (`Carried`) inside one over the rounds
    (`Settled`); as the library's induction theorem is out of reach, it is done on sets of numbers,
    whose complement would have a least element (`AllNaturals`).
  - *The clock.* `Left` is how long it is until a deadline no longer counts as due, a number below
    the clock's range; `DueLeft`, `BigIs`, `UntilIs` say what the tests of the code mean in it. A table
    whose deadlines are less than a quarter of the range apart is `Ranked` by it.
  - *The invariant* `TimerInv`. `InWindow`: a deadline is past by no more than one gap between passes
    for each pass that left it, and ahead by no more than an interval. `InOrder`: the table is
    sorted, during a pass in the part that has not been armed again. `MovesUp` bounds the
    skips, and with them what `InWindow` allows a deadline to be past: the number of callbacks
    due no later than an entry, those stepped over in this pass counted twice, times two to the
    number of passes that left it, is at most `MaxTimers`. An entry is stepped over only after
    one before it was removed, so every pass that leaves it halves what is before it.

Only model-checked:

* all liveness (`AllDelivered`, `QueueDrains`, `LongPressDisconnects`, `LongPressUnpairs`,
  `SlotsServed`, `Blinks`, `OpensUp`, `TransfersEnd`, `AllSent`, `HostFollows`, `KeysFollow`, the
  fair halves of `ImplementsPipe` and `EndToEnd`), which needs ENABLED.

## 6. Not modelled

* **Register drivers** (I2C, SPI, ADC, battery, clock, GPIO, `usbhw.c`): they write registers and
  wait; what happens then is the chip's, and the repository does not describe it. They keep no
  state in memory. Register and descriptor headers are constants.
* **Audio** (`tl_audio.c`, `audio.c`, `usbaud.c`): arithmetic on samples with no reference for the result.
* **EMI test code**: loops for certification, not part of the firmware.
* **Formatting, strings, log, sort helper, host simulation, AES**: data without control.
* **BLE stack**: a binary; it is the environment.
* **USB serial port, receiving side**: it depends on when the hardware fills the endpoint's
  buffer again, and both sides on an event pool and queue that are not in the repository.
* Parts of modelled components, named in `PROJECT.json`: GPIO handler and GATT table of the
  applications, key maps and Fn layer, idle timers of keyboard and mouse, values of USB class requests.

## 7. Plan

Every invariant and every action property that a run checks has a theorem. What is left: the
liveness properties in the part that does not need ENABLED (variants that fall with each helpful
step, as `MovesUp` does for the soft timers), and a weaker assumption on the gap between
passes: by `SkipsBounded` the margin need cover only the logarithm of the table's size.
