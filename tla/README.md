# Formal models of the FR5080 DSP firmware

The repository is the firmware of the DSP (an Xtensa HiFi3 core) of an FR5080
chip: a *base image* with the drivers (`fr5080_basic_xip`) and a *user image*
that is loaded over it (`fr5080_user_code_xip`). A second core, the MCU (a
Cortex-M3, not part of the repository), runs the Bluetooth stack and drives the
DSP with messages: it sends mp3 or SBC frames to decode, asks for encoded
frames, starts and stops the noise reduction of a call, and updates the
firmware. All of it is C without an operating system: one loop that takes
messages from a list, and interrupts.

This directory holds TLA+ models of the parts where the order of things decides
whether the firmware works, the TLC runs that check them, and proofs that TLAPS
checks.

## 1. The system

### 1.1 Who runs what

* The **main loop** (`tasks.c`, `task_schedule`) takes the first message of
  `task_list` and calls its handler, forever. Handlers run to their end, but an
  interrupt may come between any two instructions that are not between
  `GLOBAL_INT_DISABLE` and `GLOBAL_INT_RESTORE`.
* The **interrupts** (IPC, the two DMA channels, UART, timer 1) do not nest.
  Most of them post a message for the main loop; some do real work, and the IPC
  interrupt calls the handler of the MCU's messages (`ipc_rx_user_handler` in
  `main.c`), which copies frames, and erases and writes flash.
* The **MCU** runs beside all of this. It shares with the DSP eight message
  registers (four per direction), each with a tag bit that says whether the
  register is in use, and the exchange memory where payloads lie.

### 1.2 Components

| Component | State | Operations | Modelled in |
| --- | --- | --- | --- |
| IPC driver (`ipc.c`) | bitmap of channels, callbacks, list of waiting messages, registers, tags; handlers of the two DMA interrupts | alloc, free, insert, send with or without payload, interrupt; set the DMA's handlers | `Ipc`, `IpcMailbox`, `IpcProofs`; the DMA in `DmaTasks` |
| IPC dispatch (`app_ipc.c`, `main.c`) | user handler, entry of the user code | load code, enter it, call handlers, post messages | `IpcBoot`, `Ipc`, `Mp3Stream`, `AudioDma` |
| mp3 decoder (`mp3_decoder.c`) | ring of raw data, accounts of the requests, decoder state | init, receive a frame, decode, destroy | `Mp3Stream`, `Mp3Proofs` |
| SBC encoder (`sbc_encoder.c`) | list of encoded frames | encode, answer a request, destroy | `Mp3Stream` (the list), `Ipc` (its channel) |
| Native playback (`native_playback.c`) | list of PCM data, count of its bytes | init, receive decoded data, DMA interrupt, polling, destroy | `NativePlayback`, `AudioDma`, `AudioProofs` |
| Voice call (`audio_algorithm.c`) | environment: three rings with eight offsets, counters | create, two DMA interrupts, run the algorithm, release | `VoiceCall`, `AudioDma`, `AudioProofs` |
| Over-the-air update, flash driver (`ota.c`, `qspi.c`, `flash.c`, `driver_flash.c`) | flash, its protection bits, static reply | erase, write, check, copy | `Ota`, `OtaProofs` |
| Boot loader, UART driver (`uart_boot.c`, `uart.c`) | retry counter, buffer, FIFO, baud rate | offer a session, execute commands | `UartBoot`, `Boot`, `BootProofs` |
| Start of the DSP (`main.c` of both images) | how far it is | loader over UART, loader over IPC, initialisation of the user code | `IpcBoot`, `Boot`, `BootProofs` |
| Task loop and timers (`tasks.c`, `os_timer.c`) | message list, list of timers | post, post in front, take; init, start, stop, destroy, tick | `TaskTimer`, `TimerProofs`; the list also in `Mp3Stream` and `DmaTasks` |
| Linked list (`co_list.c`) | two pointers and the links | init, push, pop, pick | `CoList`, `CoListProofs` |
| Heap (`heap_4.c`) | free list, block sizes, count of free bytes | malloc, free | `Heap4`, `Allocator`, `HeapProofs` |
| AT commands (`app_at.c`) | line buffer | receive interrupt, handler | the command that serves an interrupt, in `NativePlayback` |
| SBC decoder, older projects, FreeRTOS, RT-Thread, LVGL, LCD drivers, codec libraries, libc, start-up code | | | not modelled, see 6 |

### 1.3 What is hard here

* *Interleaving.* Nearly every piece of state is written from an interrupt and
  from the main loop. Critical sections are short and do not always cover what
  belongs together.
* *Flow control by counting.* The mp3 ring has no "full" flag; its safety rests
  on the MCU sending no more than it was asked for, and its progress on the DSP
  counting what comes in.
* *Channels run out.* There are four message registers and two payload buffers.
  Before December 2020 callers had to deal with a failed allocation; the list
  of waiting messages was added then, and must not lose or strand a message.
* *No loop of its own.* Decoding goes on only because something posts the next
  message. Every lost message is a song that stops.
* *Lifecycle.* A song, a call, a timer may be stopped while messages about it
  are still queued.
* *Shared interrupts.* A call and a local song use the same DMA interrupt, each
  with its own handler, and each switches it on and off.
* *No timeouts but one.* The boot loader's handshake has a timeout and retries,
  with an answer that may come late; all that follows waits for ever.

`PROJECT.json` lists the hazards at their lines, with the property that covers
each or the reason why none does yet.

### 1.4 What makes each component correct

* IPC driver: a channel has one owner; a message reaches the MCU exactly once,
  with its own payload and callback; a waiting message never waits for nothing.
* Song: the ring never overflows, the account of requested data is right, the
  decoder starts and keeps going, nothing is used after it was freed, no list
  grows without bound.
* Update: an acknowledged erase, write or copy has been done, and no more than
  it; a whole image survives a power cut.
* Timers: a started timer fires, once per period; a list of timers stays a list.
* Linked list, heap: they implement a sequence and a set of disjoint blocks.
* Boot loader: both sides agree whether there is a session, no byte of the
  handshake is taken for a command, and what the host was told is in the flash
  (unless the chip was left protected: a finding).
* Start: an answer always finds a channel, the user code is entered whole, and
  takes every message that comes after it said it was ready.
* Voice call: the offsets of each ring stay in order, near and far voice stay
  aligned, each frame is processed once, an ended call is released.
* Native playback: the bytes of the song reach the speaker in order, without a
  gap, with bounded memory; the interrupt is on exactly while something plays.

## 2. The modules

### 2.1 `IpcMailbox`: what the driver promises

A set of messages that are pending, delivered or completed; a message is sent
once, delivered once, completed once. This is the promise of the release notes
of 2020.12.28 (`说明.txt`): the driver itself frees the channel, and a message
handed to `ipc_msg_send` or `ipc_msg_with_payload_send` reaches the MCU.

### 2.2 `Ipc`: the driver

| Variable | Code |
| --- | --- |
| `available_buffer` | `ipc_env.available_buffer`, as the set of free channels |
| `tx_callback` | `ipc_env.tx_callback[]` |
| `ipc_msg_list` | the list of waiting messages |
| `msg_out`, `buffer` | the message in each outgoing register, the exchange memory |
| `msg_in` | the tags of the incoming registers |
| `status_out`, `status_in` | the status bits of the interrupt, outgoing and incoming |
| `isr_out`, `isr_in` | the interrupt's copy of them, as far as it is not handled |
| `channel` | the local variable of `sbc_encoder_recv_frame_req` |
| `event` | history: what happened to each message |

Each action is one stretch of code that no
other process can observe in the middle:

* `Send` is `ipc_msg_send` and `ipc_msg_with_payload_send`, which run with
  interrupts disabled: a channel if one fits, else the end of the list.
* `DirectAlloc`, `DirectInsert`, `DirectFree` are the pattern of
  `sbc_encoder_recv_frame_req`, which allocates a channel, fills it with
  interrupts *enabled*, and inserts or frees it. `DirectInsert` is one action
  because it only touches the channel the main loop owns.
* `IsrEnter` reads and clears the interrupt status; `IsrOut` is one completed
  channel: read the callback, free the channel, look at the list
  (`ipc_msg_sent`), call the callback. `IsrIn` is one message of the MCU.
* `McuReceive`, `McuPost` are the other core.

`IpcMC` gives the constants small values; a refinement mapping in `Ipc` names
which messages are pending, delivered and completed for `IpcMailbox`.

### 2.3 `Mp3Stream`: the song

The MCU sends raw frames as far as it was asked; the interrupt copies them to
the ring; the main loop decodes; the encoded frames are sent on request.

| Variable | Code |
| --- | --- |
| `task_list` | the messages about the song, from `tasks.c` |
| `input_index`, `output_index`, `buffer` | `mp3_decoder_buffer` and its indices |
| `total_input`, `dynamic_consumed` | counters; the model stops them at the threshold they are compared with |
| `all_request_data_received`, `request_data_size` | the account of what was asked for |
| `i_buff_size`, `i_bytes_consumed`, `ui_init_done` | the library's input buffer |
| `frame_count`, `sbc_encoder_ready` | `sbc_encoder_encoded_frame_count`, `sbc_encoder_ready` |
| `pc`, `apply_unit` | where the main loop is in its handler |
| `space`, `mcu`, `credit`, `left` | the MCU and the messages to it |
| `stored` | history: bytes written and not read |

A handler is cut where an interrupt makes a difference: `mp3_decoder_init`
before and after its request, the decoding at `xa_mp3_dec_get_data` (interrupts
disabled), at the library call, at the request's record and at its message, and
`sbc_encoder_recv_frame_req` between its answer (`sbc_encoder.c:624`) and the
decoding it posts (645 to 648): the MCU, which has its answer, may ask again in
between, so that the next request is queued in front of that decoding and posts a
second one. `NoFlood` says that it stays at two, and what the list of encoded
frames then holds at most.
The request appears twice in the code, in `mp3_decoder_engine_start` (lines 517
to 550) and in `mp3_decoder_engine_decode` (385 to 418), word for word; it is
one set of actions here.

What is assumed of the MCU, which is not in the repository: it sends no more
than it was asked for; after `IPC_SUB_MSG_DECODER_PREP_NEXT` it sends nothing
more of the song and waits for `PREP_READY`, having read the messages before
it, until it starts the next one; it has at most one request for SBC frames
outstanding. Of the mp3 library: it consumes at least a byte when its input
buffer is full. Of the song: it is at least `MP3_DECODER_BUFFERING_LIMIT` long.

Left out: the flags `prep_for_next` (their setters have no callers), the path
to the DAC, the code under `MP3_DECODED_TO_SBC_ENCODER == 0`, the PCM samples
between decoder and encoder.

### 2.4 `Ota`: the update and the flash

The MCU erases the backup area, writes the new image to it piece by piece, has
its checksum compared, and has it copied over the running image. All of this is
done in the IPC interrupt. A client in the main loop, `test_flash_read_write`,
uses the same driver. The power may be cut at any step.

| Variable | Code |
| --- | --- |
| `flash` | the cells of the chip; a cell stands for some bytes of a page |
| `protected` | the block protection bits of its status register |
| `call` | the running call of `qspi_flash_erase` or `qspi_flash_write` in each context: what is left of it, and whether it is before, in or after its critical sections |
| `flash_op` | the local variables of `ota_recv_ipc_msg` and `ota_flash_copy` |
| `request`, `answer`, `deferred` | the message of the MCU, the answer in a channel or in `ipc_msg_list` |
| `others` | channels that other messages use |
| `client` | how far the client is |
| `mcu`, `asked`, `written` | the MCU |

The driver is cut where the code leaves its critical sections: the protection is
lifted, each page or sector is a step, the protection is set. The interrupt runs
to its end before the main loop goes on. A sector is erased at once and a page
written at once, a write clears bits and wraps around in its page, and a power
cut may leave what is being erased or written garbled.

What is assumed of the MCU: one request at a time; the areas begin at a sector
(`GeometryAssumption`), and no two of them share one (`LayoutAssumption`); the order erase, writes, check, copy, where it may begin
with the check after a restart. The read-modify-write of the status register is
one step. A checksum is equal only for the same image. `qspi_flash_erase` takes
its missing second argument from `EraseSizes`: the runs that pass use values that
stand for no more than a sector. Left out: `IPC_MSG_FLASH_READ`, the client's
walk over the sectors, the identification and quad mode of the chip, deep sleep.

### 2.5 `Heap4` and `Allocator`: the heap

`Allocator` is what callers rely on: a piece of memory of the size asked for, in
the heap, that nobody else has until it is given back. `Heap4` is `heap_4.c` as
it is used here, by the main loop and by interrupts, on the level of its
structures: `pxNextFreeBlock` and `xBlockSize` are functions whose domain is the
addresses where a structure is at the moment, so that a structure that has been
joined into another, or was never there, cannot be read by mistake.

The two walks of the code, through the list to the first block that is large
enough and to the place where a block belongs, are not written as loops: each is
the block at which the loop stops in a list that is in order, and `ListInOrder`
shows that it always is. `vPortFree` in the main loop is two actions, since it
marks the block before it disables interrupts; in an interrupt it is one.
Addresses count units of eight bytes (`Unit` in the model), and sizes are
rounded as the code rounds them. That the count of free bytes is true is said of
the number of free units in the heap (`FreeUnits`), not of a sum of sizes. `Owned` is the mapping to `Allocator`: what has
been asked for, at the pointer the caller got.

### 2.6 `TaskTimer`: timers and the task loop

`timer_list` and `next` are the links, `initial_period`, `last_period`,
`running` and `repeat` the fields of a timer; `task_list` holds the messages
`OS_TIMER_TRIGGER`, `msg` is the one being handled. `initialised` and `elapsed`
are history. All functions disable interrupts, so each is one action; between
taking a message and its callback anything may happen, which is how a timer is
called back after it has been stopped. `MaxMessages` holds the interrupt back
when that many messages are queued (the code does not), so that the model is
finite. The walk of the interrupt is `Element`, the timer at each place of the list,
and `Posted`, the message list when the walk has come that far: recursive functions
over the links, as the code's loop is. A timer that is started again and again never expires, which
`CalledBack` excepts.

### 2.7 `CoList`: the linked list

`struct co_list` as a record of its two pointers and the links of all elements
there are, and one operator per function. `Represents(list, s)` says that a walk
through the list finds the sequence `s` and that `last` points to its end.
`CoListProofs` proves what each function does to `s`; this is why the other
modules may keep their message lists as sequences. `NativePlayback` keeps its
list with these operators, links and all, and checks `Represents` in every state.

### 2.8 `DmaTasks`, `VoiceCall`, `NativePlayback`, `AudioDma`: audio

`DmaTasks` is what the users of the audio DMA share: `task_list` with
`task_msg_insert`, `task_msg_insert_front` and `task_schedule`; `running`, the
message whose handler runs and the step it is at; `handler`, `enabled` and
`pending` for the two interrupts (`ipc_dma_init`, `_xtos_interrupt_enable`, the
DMA's own flag). The interrupts run between any two steps of a handler.

`VoiceCall` has one variable, `env`: NULL or the eight offsets of the three
rings of `audio_algorithm_env`, with `settle` (`ipc_dma_int_occur_status`) and
`launches` (`launch_algo_msg_count`). `audio_alg_launch` is cut where an offset
moves: `LaunchRepair`, `LaunchTakesWindows`, `LaunchPutsWindow`.

*A NULL access.* `audio_algorithm_release` disables the RX interrupt in its
first lines (204), so a frame may still post its message when
`AUDIO_ALGO_DESTROY` has been taken from the list already. That message is
handled when the environment is gone, and `audio_algorithm_ipc_rx_handler` does
not look, as its neighbours do (lines 210, 292, 642, 728): it reads and writes
through NULL at 837 and 838. The run `audio` reaches this. The address is no memory of the
DSP (its memories start at 0x40000), so the model has both outcomes: no effect,
after which `audio_alg_launch` returns at once, or an exception, after which
nothing goes on (`lost`, `DspIsLost`). This is a defect of the code; no comment
or assertion speaks of the case, so there is no run that a sentence of the
repository would have violated. What `AudioInv` says is where the defect ends
(`OnlyLateFramesAreLeft`): the handler is without environment for just the
messages posted since `AUDIO_ALGO_DESTROY` was taken, which `late` counts, no
message posted before is among them, no other handler runs in between, and none
is left for the next call to count as its own.

| Variable of `NativePlayback` | Code |
| --- | --- |
| `pcm_data_list`, `pcm_data` | the list, and the pieces with offset and length |
| `pcm_size_in_list`, `native_playback_started` | the same |
| `decoded`, `played` | history: positions in the song, modulo `Positions` |
| `fed` | history: the list was full once and no decoding came back empty |

A piece's bytes are the position in the song where it starts. What `Mp3Stream`
says of the decoder is here only how much it puts out, in one step; the song may
have no data. The AT command 'A' polls with interrupts disabled and serves the
TX interrupt itself.

`AudioDma` puts the two on the same interrupts and message list. Assumed of the
MCU: it ends a song and waits for `PREP_READY` before it starts a call, and ends
the call before the next song; nothing answers the start and end of a call, and
it may say either twice. Assumed of the hardware: both interrupts of a frame are
served before the next one. The release note of 2021.03.13 in `说明.txt` has the
algorithm run twice every 37 ms, for 4 to 5 ms, so that the main loop catches up;
how far behind it may be is the bound `MaxFrames`. Three frames are what the
rings hold: with four TLC finds `PlcOffsetsInOrder` violated.

### 2.9 `UartBoot`, `IpcBoot`, `Boot`: from reset to the user code

`UartBoot` is `uart_boot.c`. `rx` and `tx` are what is on the line; the host's
messages are bytes that arrive one by one, each with its kind and place, so that
a byte of a late answer that is taken for a header would be seen. A poll takes
up to the whole length of the answer, however much is in the buffer already
(`app_boot_serial_gets`, line 86): bytes too many are written behind the 8-byte
buffer, on the stack. What follows is undefined: the model goes to `lost`, where
nothing is said any more, or on. `OverrunTakesMore`, a part of `SessionInv`, says
when it can happen: in the first offer only by a byte that was on the line before
it, in a later one by the answer to an earlier offer in front of the next.
`StartCompletes` is said of the starts without it.
An answer to the second or third offer is read and compared, but `do_handshake`
stays 0, so that no session is opened: the three attempts are one, which
`SessionAgreed` rests on. Replacing it so that a late answer counts would break
`LoopIsInStep`, as the mutant shows. The answer to `CHANGE_BANDRATE` and
`uart_init` are one step: the host takes longer than the switch.

`protected` is the block protection of the chip. The user image sets it after
each of its writes and erases (`qspi.c:36`, `88`) and lifts it before the next;
it is volatile (`driver_flash.c:181` to `186`) but outlives a reset, so that the
loader may find it on. No step of the loader changes it: `flash_write` and
`flash_erase` of the base image neither lift it nor look, and do nothing then,
while `app_boot_process_cmd` answers as always. `BurningIsSupported` says what
the host relies on, that what it was told of the flash is so; `BurnedAsAnswered`
says it of a chip that is not protected.

`IpcBoot` is the base image's use of IPC (`app_ipc.c`, `main.c`) and the order
of `app_entry`: `DSP_READY`, the pieces of user code, `EXEC_USER_CODE`, the
user code's memory, handler and task list, `DSP_USER_CODE_READY`. The
driver is the part of `Ipc` that is used here; `app_ipc_rx` takes any free
channel without a look whether there is one. `dropped` is history. Assumed of
the MCU: it loads after `DSP_READY`, with no more pieces under way than there
are exchange buffers, enters the code after the last `LOAD_CODE_DONE`, and talks
after `DSP_USER_CODE_READY`. Without the second, `ChannelForEachAnswer` fails.

`Boot` runs one after the other. A reset is the start of a behaviour; during
one, no reset and no power cut is modelled (for the flash, see `Ota`).

## 3. The runs

| Run | Question | Result |
| --- | --- | --- |
| `ipc` | can two messages share a channel, a payload or a register; can a message be lost, doubled or stranded; does the driver implement the mailbox; is every message delivered, even while the main loop keeps the channel it holds? | holds |
| `ipc_long_payload` | do payloads of the documented length stay intact? | violated |
| `mp3` | ring, account, lifecycle and lists of a song; does it play to its end? | holds |
| `mp3_early_answer` | and if the MCU answers at once? | violated |
| `heap` | is the free list in order and complete; can memory leak, overlap or be refused without need; does the heap implement the allocator? | holds |
| `timers` | does the walk through the timers end, and miss none; does each timer expire after its period, with one message, and is it called back? | holds |
| `ota` | are acknowledgements true; is a whole image always there; is nothing else touched; is every request answered and the copy carried out, with busy channels? | holds |
| `ota_copy_ack` | is the copy acknowledged? | violated |
| `ota_erase_size` | and if the missing argument holds more than a sector? | violated |
| `audio` | do the rings of a call stay in order, and does a song play without gaps, in bounded memory; do call and song leave each other's interrupts alone; is an ended call released? | holds |
| `boot` | does the loader agree with the host and the MCU, is what the host was told in the flash of an unprotected chip, does the user code start whole, and in the end? | holds |
| `boot_protected` | and is what it was told in the flash after any reset? | violated |

Each module keeps its type invariant and the parts that only together say that
its state makes sense in one property, named after the state: `DriverInv` (`Ipc`),
`StreamInv` (`Mp3Stream`), `UpdateInv` (`Ota`), `HeapInv`, `TimerInv`, `CallInv`
(`VoiceCall`), `PcmInv` (`NativePlayback`), `AudioInv`, `SessionInv` (`UartBoot`)
and `UserCodeInv` (`IpcBoot`). The parts have names and comments of their own.

**Bounds.** `ipc` has the chip's four channels and two payload buffers and five
messages, one of them sent with a channel of its own and all more than fit in
the channels, of both kinds, so that the list is used and its head blocks; one
incoming register.
`mp3` has a ring of 12 bytes in units of 2, a threshold of 4, a limit of 6, frames
of 1 to 4 bytes, a library buffer of 3 bytes (not a divisor of the ring, so that
reads wrap at every offset) and a song of 16 bytes, longer than the ring, so
that at least one further request is needed. Songs follow one another without
end. The chip's 4096, 256, 1024 and 2048 stand in the same order
(`SizeAssumption`, `ThresholdAssumption`), and the arithmetic does not depend on
more than that order.
The `Ota` runs have sectors of two pages of two cells, and an image of five
cells: one whole sector and a part of one, an odd last page, and frames of one
to three cells that start and end anywhere in a page, so that writes cross
pages. Running image and backup are two sectors each, with the client's sector
behind the backup, where an erase that goes too far hits it. Updates follow one
another without end. Two IPC channels, in `ota` both used by other messages at
times.
`heap` has twelve units of two bytes and requests of none to four units with
their structure, so that remainders of zero, one, two and more units occur
around the limit of two, and up to five blocks at once. `timers` has
two timers (a middle one, and any more, are in the proof of `WalkIsComplete`),
periods of zero and two ticks, and a counter of two bits in place of 32.
`audio` has the code's rings in units of ten samples (frames of 3, windows of
16, 30 frames, 6 windows, a shift of 24), which keeps every ratio; of the first
40 interrupts, which only count, 2; up to three frames and two decodings behind,
one other message waiting; pieces of 2 and 3 units where a frame takes 2 and the
threshold is 4, so that a frame ends in the middle of a piece, at its end, and
in the next; five pieces. `boot` has messages of two and three bytes, two polls
per attempt, so that an answer comes within one, across two, and after all
attempts; two sectors and two rates; three pieces of user code, more than there
are buffers, so that each buffer is used again.

**Fairness.** `ipc`: the interrupt is taken when it is pending, goes on
to its end, and the MCU reads what it is given; the main loop is *not* assumed
to be fair. `mp3`: the main loop runs (`task_schedule` never stops),
the MCU reads its messages, sends what it is asked for while it has it, and asks
for frames again and again; it need not start or stop a song. A request for
frames that comes again and again finds a channel sooner or later (strong
fairness of `NeedMoreSent`): that channels become free again is
`DeliveredEventually` of `Ipc`. `ota`: the interrupt is taken and goes
on, messages are completed, the MCU reads its answers; neither its next request
nor the main loop is assumed to come, and the power may go. `timers`: the
hardware ticks and `task_schedule` runs; nobody has to use a timer. `audio`:
interrupts are served (strongly, since the polling and `pending` come and go),
the main loop runs, the DMA goes on. `CallIsReleased` has a premise: the main
loop is again and again done with all frames; without it TLC finds that the
messages in front of `AUDIO_ALGO_DESTROY` starve it. And a main loop that again
and again finds it first takes it (strong fairness of `TakeOther`). `boot`: the
DSP runs and takes its interrupt, the host finishes the request it has begun and
reads, the MCU does what it has to until the user code runs; neither has to
speak first.

**Findings.** `ipc_long_payload`: the header file and a comment allow payloads up to
1023 or 1024 bytes, the two exchange buffers are 512 bytes apart; the second
half of a long payload on channel 0 overwrites channel 1. `mp3_early_answer`:
`mp3_decoder_init` sends its request before it records it, with interrupts
enabled; a frame that arrives in between is forgotten, the account never
reaches zero and no further data is ever requested. `ota_copy_ack`: the
acknowledgement of the copy may be queued by a processor that then loops with
interrupts disabled, so that the MCU never gets it. `ota_erase_size`: `ota.c`
declares `qspi_flash_erase` with one parameter, it has two. `boot_protected`:
after a reset without a power cut the chip is still protected by the user image,
refuses what the loader erases and writes, and the host is told that it is done;
`main.c:40` of the base image says that the set-up before the loader supports burning
the flash. Two defects that no sentence of the repository denies are in the
models and have no run of their own: the NULL access of 2.8 and the overrun of 2.9.

## 4. The proofs

### 4.1 `IpcProofs`

`IpcProofs` proves, for every number of channels, every set of messages and
every division into messages with and without payload, what `ipc` checks
on its instance: the type invariant and all safety invariants of the driver
(`DriverIsConsistent` for `DriverInv`), and that it implements the mailbox
(safety part; the payload theorems under the assumption `PayloadsFit`, which the
finding shows to be necessary).

The inductive invariant is needed because none of the properties is inductive:
that a waiting message has a completion to come (`NothingStranded`) rests on
which channels are in flight, which rests on the bitmap, the tags and the
interrupt's local copy of the status agreeing about each channel. The invariant
says for each channel in which of these states it is (free, held by the main
loop, in flight and unread, read and not yet completed) and that the sets of
messages in the list, in the channels and completed are disjoint; there is one
lemma per action and per part of the invariant that the action touches. The
refinement follows from the same invariant: each action maps to a step of the
mailbox or leaves its variables alone.

### 4.2 `CoListProofs`

For every set of elements: `co_list_init` represents the empty sequence, and if
a list represents `s`, then after each of the functions of `co_list.c` it
represents what the function is for (`Append(s, e)` after `co_list_push_back`,
`<<e>> \o s` after `co_list_push_front`, `Tail(s)` after `co_list_pop_front`),
`co_list_pick` returns the head, and `co_list_is_empty` tells whether `s` is
empty. The two functions that push assume that the element is not in the list:
the code does not look, and an element that is pushed twice makes a loop. This is what
lets `Ipc`, `Mp3Stream`, `TaskTimer` and `DmaTasks` write their lists as
sequences.

### 4.3 `Mp3Proofs`

For every size of the ring, of the unit in which data is asked for, of the
library's buffer and of the MCU's frames: the type invariant and all safety
properties that `mp3` checks.

None of them is inductive. That the ring does not overflow (`RingIsSafe`) is
said of an MCU that may send what it was asked for at any later time, in any
pieces. So the invariant counts what the MCU still owes as if it were in the ring
already. A request must then find nothing owed, or it would ask for room that is
promised; it does, since the DSP asks only when its account says that all has been
received, and `Account` says that the account is never less than what is owed.
This direction holds even when the answer overtakes the record of its
request, so `RingIsSafe` needs no assumption; that the account is *exact*
(`AccountIsExact`) is false there (finding, run `mp3_early_answer`) and is proved
under the assumption that no answer is early. That songs do not overlap
(`StreamIsConsistent`) rests on the order of the messages in `task_list`: no
message of the last song is behind the one that starts the next (`Lifecycle`,
`Start`). `NoFloodEver` has an invariant of its own, `Demand`: behind a decoding or a request
in the list there is at most one decoding, and while a decoding runs, or a request
that has been answered has yet to post its own, there are not two, so that two is
the end; `Frames` bounds the encoded frames by what the decodings under way may
still add.

### 4.4 `OtaProofs`

For every geometry that the two assumptions of `Ota` allow, and every size of an
image and of a write: the type invariant and all safety properties that `ota`
checks, with the power cut at every step. The theorems have one assumption, that
every value of the missing second argument of `qspi_flash_erase` stands for no
more than a sector; the finding of `ota_erase_size` shows that it is necessary.

`AnImageIsAlwaysWhole` goes over `IInv`: a step of the driver changes only the
sector or page at which its call is; each call is within the area of its request
(`Calls`, `Requests`); and the MCU asks for nothing that changes the backup while
the backup is the only whole image, which needs that an answer is always of the
request the MCU waits for (`OneAtATime`, `Answers`). The arithmetic of sectors and
pages (a page does not leave its sector, a write that is split at a page stays in
it) is stated once as lemmas.

`AcknowledgedIsDone` needs how far the flash has got at each step, cell by cell:
`Progress` says which cells of the target are blank, which hold the new image, and
which the erase under way may still change (`Erasing`, `Writing`, `CopyingOn`). A
page is written only over blank cells, so that clearing bits is writing; the copy
erases a sector before its first page and never one that it has filled. The
client in the main loop cannot undo this: it has its own sector, and the
protection that it may leave on is lifted by each call of the interrupt, which it
does not interrupt. `NothingElseIsEverTouched` follows from the same two invariants.

### 4.5 `BootProofs`

All safety properties that `boot` checks, from `SafeSpec`, the specification
without its fairness (`Spec` implies it).

Its first half is about the loader over UART, for every length of an answer, a header
and a payload (each at least one byte), every set of sectors, contents and rates;
of the names it assumes that no request is called `None` and that a content the
tool writes is none of the words for what it did not. Its invariant has one part
per phase. The heart is `First`: a session
opens only on the first offer, since `do_handshake` is never set again after a
failure; so when it opens, the line has brought exactly the answer to that one
offer, after which nothing is left over, although a later offer may well find
bytes of an answer to an earlier one. In the session (`Session`) what the DSP has
taken and what waits are together the beginning of the one request, so that
`NothingElseIsTaken` holds however the bytes come in. `Told` says what the tool
knows of each sector while a request that changes it is carried out, if the chip is
not protected. `StrayInFront` gives `OverrunTakesMore`: in the first offer no
more than the one answer has come in, so that what is longer has something else in front.

Its second half is about the loader over IPC, for every number of channels, of the
MCU's buffers (no more than channels) and of pieces. That a channel is always
there for an answer (`AChannelForEachAnswer`) is a matter of counting, in two
parts. Loads on their way and completions not read are together what the MCU has
sent and not seen done, hence no more than its buffers (`Loading`). And within one
run of the interrupt the channels occupied plus the loads still to be handled are no
more than the buffers (`Phases`), because the interrupt frees the channels the MCU has
read before it handles what the MCU has sent: in the other order the invariant
breaks. The pieces are those in memory and those in a buffer, with nothing missing;
when the MCU has seen all of them done, all are in memory (`UserCodeStartsWhole`).
The channels are handled from the least; that a finite set has a least and a
greatest number is proved by the well-foundedness of the strict subset relation.

### 4.6 `HeapProofs`

For every size of the heap, of its unit and of the pieces that are asked for, with
interrupts that allocate and free at every step: `HeapIsSound` for `HeapInv`,
`FailsForWantOfAGap`, and that `Heap4` implements `Allocator`
(`HeapImplementsAllocator`).

The invariant `IInv` says three things of links and sizes. `Whole`: the links are
in order of address, the blocks lie one behind the other and leave no unit out,
and *no two free blocks touch*. The last is what makes the others inductive: the
insertion looks at the block before and the block behind only, so if a third
could touch, one would stay apart. It also is why a failed request means that
there is no gap: a gap of free units is in one block. `Owners`: the blocks with no
successor are those that have an owner, and the one that a release has marked
and not yet inserted. And the count is the number of units in free blocks.

A call works on local copies of links and sizes, so each is a composition of a few
operators on functions, with a lemma for each of them: an insertion links the
block in, then joins it to the one behind, then to the one before (in any
combination); taking a block unlinks it, cuts it, and inserts the rest. Between
these the invariant holds but for the blocks named in `Apart`. What the walks stop
at (`Iterator`, the first fit) exists and is unique, since a set of numbers that
is not empty and bounded has a least and a greatest member. That each block of
the model is an owner's piece of the allocator's follows from `Partition`: two
pieces that overlap would be in one block.

### 4.7 `TimerProofs`

For any number of timers and any periods that fit into the counter: the walk of
the interrupt ends and comes to every timer once (`WalkIsComplete`), a running
timer's counter is what is left of its period (`TimersAreInTime`), and the messages
are one for each period that is over and no other (`OneMessageEach`).

The links are an arbitrary function, so that a walk along them could loop or end
early. `Chained` says that there is an enumeration of the initialised timers,
each once, that starts at `timer_list`, has each one's `next` at the next place
and NULL at the end. Initialising puts a timer in front of the others,
destroying closes a gap; the walk (`Element`, `List`, `Posted`) then finds just
this enumeration. An enumeration without repetition is no longer than there are
timers, so the walk's bound is never reached.

`Element` and `Posted` are recursive functions, that is, a CHOOSE of a function
that satisfies the recursion. That there is one is shown by giving it, and that
it is the only one by the least number where two would differ: the induction that
the theorems of the library state with an operator parameter is done by hand, from
the well-foundedness of the strict subset relation on finite sets.

### 4.8 `AudioProofs`

All safety properties that `audio` checks, for the call and the song together, with
the interrupts between any two steps of a handler, and for every bound on how far
the main loop is behind. Nothing of the sizes is assumed but what a theorem names:

| Theorem | Property | Assumes of the sizes |
| --- | --- | --- |
| `HandlersAreRight` | `TheRightHandlers` | nothing |
| `OnlyLateAreLeft` | `OnlyLateFramesAreLeft`, a part of `AudioInv` | nothing |
| `FramesHaveLaunches`, `AudioIsRight` | `EachFrameHasItsLaunch`, `AudioInv` | `EnoughFrames` |
| `CallIsInOrder` | `CallInv` | `EchoFits` |
| `SongIsInOrder` | `PcmInv` | nothing |
| `NoSilence` | `NoSilenceInTheSong` | `FeedFits` |

`EnoughFrames`: the ring of far voice has more frames than the two per interrupt that
the main loop may be behind. `EchoFits`: the rings have room for what the echo
canceller keeps and what the main loop is behind (`Late`). The code has frames
of 30 samples, windows of 160, a shift of 240, rings of 30 frames and of 6 windows.
All of these are multiples of ten, and so is every offset, so that they can be counted
in units of ten samples, as in `AudioDma.cfg`; in these units `EchoFits` holds for up
to three frames behind, and with nothing to spare: its second line is then
33 + 24 + 15 + 18 <= 90. (Counted in samples it would ask for 909 of 900, as
"less than a window and a frame" is then 159 of 160 rather than 15 of 16.) `FeedFits`:
the threshold at which the interrupt asks for a decoding is no less than what is
played while the main loop is behind (`NeededLength * MaxDecodings`), and a piece
that is decoded is no shorter than what an interrupt takes. The code asks for
512 bytes at a time and its threshold is 44100 * 2 * 2 / 25 = 7056, so that thirteen
decodings may be behind; a frame of mp3 gives 1152 bytes or more.

The inductive invariant of everything is `Base`. `Tasks`: each handler is at a step
it has, the messages of frames are in front of all others, and an interrupt that
is raised finds room for its message. `Roles`: what the handlers still have to do,
in the order of the list, is of one kind at a time. What is left of a call is in
front of the start of a song, and a song's end is behind it; unless the MCU wants a
call, the last message about one is its end. Only with this order can it be said
which interrupts are on and whose handlers they have (`Lines`). `Left`: without an
environment no handler is in the middle of `audio_alg_launch`. `Counted`: the messages
of frames without an environment are those that `late` counts, and while there are any,
nothing else is handled. `Rings`: each offset
that moves in frames is at a frame's border, each that moves in windows at a window's,
and `launches` counts the messages of frames.

On it two invariants of the call rest. `Repair`: the part of `plc_buffer` that is not
repaired is one frame for each run of `audio_alg_launch` to come. `InStep`: equations
between four distances, which hold exactly, whatever the interleaving. The far
window lags behind the frames by what the near one does and a constant, and what
is not sent, not echoed and under the canceller together is what the speaker has not
played and a constant. `CallInv` follows by arithmetic. The equations are of distances
round a ring, so each step needs that the distance does not pass the end of the ring:
that is what `EchoFits` is for.

And two of the song. `Feeding`: there is a sequence of pieces that the links represent
(`Represents` of `CoList`; the operations are those of `CoListProofs`), each not
empty, each beginning where the last one ends, from what the speaker got to what the
decoder gave; memory outside of it is free. `Walk`, `Found` and `Turn` are recursive
functions: each is shown to be one by giving it, and the induction over the turns of
the interrupt's loop is done by the least turn that would break it. The number of bytes is
the number of elements of a set, so that nothing needs a sum. `Fed`: what
the list holds and what the decodings on the way will be played against are together
no less than the threshold; this is not inductive without a lower bound for a piece, which
`FeedFits` gives.

### 4.9 Only model-checked

Every safety property of a run that passes is proved, and so is the refinement
of `IpcMailbox` and of `Allocator`. Liveness is out of the prover's reach and
stays with TLC: `DeliveredEventually`, `RequestsServed`, `SongPlays`,
`MoreIsRequested`, `RequestsAnswered`, `CalledBack`, `CallIsReleased`, `SongGoesOn`,
`RequestIsAnswered`, `StartCompletes`.

## 5. Plan

Done: `Ipc`, `IpcMailbox`, `IpcProofs`; `Mp3Stream`, `Mp3Proofs`; `Ota`,
`OtaProofs`; `Heap4`, `Allocator`, `HeapProofs`; `TaskTimer`, `TimerProofs`; `CoList`,
`CoListProofs`; `DmaTasks`, `VoiceCall`, `NativePlayback`, `AudioDma`, `AudioProofs`;
`UartBoot`, `IpcBoot`, `Boot`, `BootProofs`. To come, in this order:

1. Lemmas that several proof modules have of their own (the least number of a
   set, the well-founded induction by hand) in one place.
2. That a song of `Mp3Stream` puts out what `NativePlayback` assumes of the decoder.

No module that is to be proved about uses a recursive operator.

## 6. Not modelled

Nearly all of the repository's lines are other people's code: FreeRTOS,
RT-Thread, LVGL with its fonts and examples, the C library and start-up code of
the processor, and the headers of codec and DSP libraries whose code is only
there as archives. What they promise is modelled where the firmware uses it (the
mp3 library in `Mp3Stream`, the echo canceller in `VoiceCall`). Of Freqchip's own
code these parts are left out:

* `sbc_decoder.c`: its output is thrown away (lines 392 to 399), and nothing
  else observes it; its ring and its requests are those of the mp3 decoder.
* The older projects of the same firmware beside the two images: the same files,
  at an earlier state.
* The FreeRTOS and RT-Thread images: a start-up that creates tasks of the demos.
* LCD drivers, GPIO, I2S, I2C: sequences of writes to registers.
* In parts that are modelled otherwise: `ipc_config_reset_dma` and the switches of the DMA's
  direction, the collection of a line of an AT command, the identification
  of a flash chip and its deep sleep, the reading of flash by the MCU
  (`IPC_MSG_FLASH_READ`), a `task_msg_alloc` that finds no memory (it writes
  through NULL; `Heap4` has the heap at its limit, the message lists have none).
