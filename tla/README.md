# Verification of the video decoding path and the 2D engine of HiSTBAndroid

The repository is the HiSilicon set-top-box layer over Android: kernel drivers
of the media SoC, their user-space APIs, and patched AOSP parts. Most of it
programs registers, wraps a closed library or patches third-party code. This
project models the two places where its own source carries concurrency logic:

* the **video decoding path**, three layers that lend buffers to each other: the
  media codec client (`src/frameworks/av/media/libstagefright/ACodec.cpp`), the
  OMX component (`omx_vdec.c`), and the **omxvdec** driver
  (`src/device/hisilicon/bigfish/sdk/source/msp/drv/omxvdec`);
* the **job list of the 2D engine** (TDE,
  `src/device/hisilicon/bigfish/sdk/source/msp/drv/tde`).

TLC checks the models on small instances. TLAPS proves the safety properties of
the two ports, of the device and of the 2D engine, and the refinement of
`BufferPort` by both ports, for every value of the constants.

## 1. Inventory

### The system

```
   MediaCodec
       | messages
   ACodec.cpp        client: one looper thread, a state machine
       | OMX IL                         ^ callbacks
   omx_vdec.c        component: event thread (all ioctls), message thread
       | ioctl                          ^ VDEC_IOCTL_CHAN_GET_MSG
   omxvdec.c         device: open, close, dispatch
   channel.c         channels: state, queues, flush, messages
     |          \
 decoder_vfmw.c  processor_vpss.c       callbacks of the engines
     |               |
   VFMW thread     VPSS kernel thread


   threads that draw (ioctl, kernel clients)
       | begin, end, wait, reset
   tde_osilist_k.c   job list  <--- tasklet <--- interrupt (tde_osr_k.c)
       |                                             ^
   TDE hardware: follows the links of the nodes -----+
```

| component | state | operations | met by |
|---|---|---|---|
| input port (`channel.c`, `decoder_vfmw.c`) | `raw_queue`, buffer status, `raw_use_cnt`, `input_flush_pending`, `eos_in_list` | submit, get/release stream, flush, end of stream | event thread, VFMW thread |
| output port (`channel.c`, `processor_vpss.c`) | `yuv_queue`, buffer status, `yuv_use_cnt`, `output_flush_pending`, `pause_pending`, `recfg_flag` | submit, get/release/report frame, flush, pause, resume, size change | event thread, VPSS thread |
| channel life (`channel.c`) | `chan_list`, `channel_id`, what a context has acquired | create with unwinding, release, look-up by id | threads of all open files, callbacks |
| device (`omxvdec.c`) | `open_count`, whether the engines' function tables are there | open, close, ioctl | all open files |
| message queue (`message.c`, not in the repository) | FIFO of messages | post, read | everybody |
| buffer address table (`channel.c`) | in/out tables, counts | bind, unbind, look up | event thread, callbacks |
| last frame of a stream (`channel.c`, `processor_vpss.c`) | `last_frame_info`, `last_frame_processor_got` | report, synthesise an end-of-stream frame | both engine threads |
| time-stamp recovery (`drv_omxvdec_pts_recv.c`) | 16 recovery channels | alloc, free, reset, recalculate a stamp | event and VPSS threads |
| frame-rate detection (`drv_omxvdec_alg_frd.c`) | last stamps | a pure calculation | VPSS thread |
| OMX component (`api/omx/omx_vdec/normal/omx_vdec.c`) | OMX state, `m_flags`, port flags, buffer headers, event pipe and three queues | commands, use/free buffer, ETB/FTB, message handling | client thread, event thread, message thread |
| media codec client (`ACodec.cpp`, requests from `MediaCodec.cpp`) | state, buffers and their owners, deferred messages | start, flush, stop, port reconfiguration, buffer traffic | one looper; callbacks of the component |
| 2D engine job list (`tde_osilist_k.c`, `tde_osr_k.c`, `tde_fence.c`) | list of jobs, the chain to commit, the last finished node, notification and wait count of a job, fence counters | begin, cancel, submit, wait for one or all, reset, complete | drawing threads, interrupt, tasklet |

`PROJECT.json` lists these and the parts that are left aside, with reasons.

### How they interact

The client has one event thread for all ioctls of a channel and one message
thread that reads `msg_queue`. VFMW calls `decoder_get_stream` and
`decoder_release_stream`; a release may come from inside the
`DEC_CMD_CLEAR_STREAM` command, in the event thread's context. All VPSS
callbacks come from one kernel thread (`vpss_ctrl.c`, `HI_VPSS_Process`).
Locks: `chan_lock` guards the state, `raw_lock` and `yuv_lock` a queue each,
`channel_lock` the channel list, `lock` the open count. What makes the code hard
is what happens *between* those locks:

* the input port does its counting, flags and messages under `raw_lock`; only
  the end-of-stream flag is set outside it;
* the output port counts, tests its pending flags and posts messages outside
  `yuv_lock`, so the order of those unlocked steps decides what a flush means;
* a callback finds its channel under `channel_lock` and uses it without;
* `omxvdec_open` and `omxvdec_release` drop their locks in the middle;
* the component posts an event as an entry in a queue and an id in a pipe; the
  two agree only as long as nobody takes entries without their ids, which
  `return_outbuffers` does; a stop or a port disable starts a flush of its own
  whose answer nobody awaits;
* `m_flags` is a word that the client's thread and the event thread read, change
  and write back without a lock;
* ACodec's CHECKs end the media process when a callback comes in a state that
  does not expect it, so the order of callbacks matters;
* TDE drops the list lock around a callback in the middle of handling a
  completion, tests `bSubmitted` and creates fences without it, and shares a
  job's memory between its submitter, its waiters and the tasklet.

### What has to hold

* Every buffer has one owner; none is lost, returned twice or linked twice.
* A flush is answered, once, and after every buffer of the port has come back:
  the client may free or reuse them then.
* The use counters are exact; a pending flush waits for something that exists.
* VFMW reads streams in the order of submission.
* The calls of the client are ones the component takes, and the callbacks ones
  the client expects; start, flush, stop and a size change come to an end. (They
  do, except in the cases that section 3 names.)
* The hardware of the 2D engine runs only jobs that exist; every job completes;
  a fence or a wait ends after, and because, its jobs are done.
* Channel ids are unique, a callback reaches a live channel and the one it is
  meant for, a freed channel holds nothing. (A creation that fails in the
  low-delay statistics leaks its decoder, section 3.)

The hazards that threaten these, each at its line, are in `PROJECT.json`.

## 2. Modules

| module | what it is |
|---|---|
| `KernelList` | `list_add_tail`, `list_del` over sequences; `LinkedOnce` |
| `BufferPort` | abstract specification: what a port promises its client |
| `OmxInputPort` | the input port |
| `OmxOutputPort` | the output port |
| `OmxDevice` | open, close, channel creation and release, callbacks' look-up |
| `OmxVdecComponent` | the OMX component, over a driver that keeps `BufferPort`'s promise |
| `ACodec` | the media codec client; extends `OmxVdecComponent`, so it is the composition of the two |
| `TdeJobList` | the job list of the 2D engine with its interrupt, tasklet and fences |
| `MCInputPort`, `MCOutputPort`, `MCDevice`, `MCCodec`, `MCTde` | instances for TLC (symmetry only) |
| `KernelListProofs`, `OmxInputPortProofs`, `OmxOutputPortProofs`, `OmxDeviceProofs`, `ACodecProofs`, `ACodecPhaseProofs`, `ACodecCallProofs`, `TdeJobListProofs` | proofs |

Conventions. A definition has the name of the function it models; the steps of a
function that others can observe are actions with a prefix (`Etb...`,
`Flush...`, `GetStream...`, `Rel...`, `Rep...`, `Create...`, `Close...`). A
thread's place inside a function is a `pc` variable (`cpc` event thread, `dpc`
VFMW, `vpc` VPSS, `pc[f]` thread of file f, `cbpc` callback). A section under a
lock is one step unless something inside it is visible without the lock; every
unlocked access to shared state is a step of its own. An operator `X_Something`
with the comment `Mutant` is a wrong form of `X`: replacing `X` by it makes a
property fail, which shows that the property depends on that line.

### OmxInputPort

Variables are the fields of `OMXVDEC_CHAN_CTX`, plus `held` (what VFMW has read
and not released), `recalled` (what the clear command asked it to release),
`client` (what the client owns) and the component's `m_port_flushing`. The loop
of `channel_flush_in_port` posts messages the client can read at once, so it is
a step per entry with `raw_lock` held (`cpc = "flush_loop"`). `last_frame`, the
driver's own end-of-stream buffer, is the constant `LastFrame`: it moves through
the queue like a stream but is never returned to the client.

### OmxOutputPort

The same, for frames. The callbacks `processor_release_frame` and
`processor_report_frame` are cut at every unlocked access: counting out
(`RelCount`, `RepCount`), the tests of the pending flags (`RelTest`, `ZeroTest`),
the messages, the clearing of flags. `oops` is the state of a thread that ran
`list_del` on an entry that is not linked; it holds `yuv_lock` for ever, which is
why deadlock is not checked there. `reason` remembers why the client flushes; the
driver does not know it and uses `recfg_flag` instead.

### OmxDevice

One thread per open file. A context is an address that `kzalloc` may hand out
again after `kfree`. `res[c]` is what context c holds: the message queue, the two
engines, the tables. Each acquisition may fail and jumps to its clean-up label
(`cleanup4` ... `cleanup0` are the labels of `channel_create_inst`);
`channel_release_inst` gives up the same things in its own order. A callback may
come from any engine that exists; destroying an engine waits until its callback
has returned, which VPSS does (`VPSS_CTRL_DestoryInstance` waits for its thread)
and VFMW is assumed to do. `LowDelayStatistics` says whether the option that a
proc file switches on may be on; its two failure returns are `DecoderForgotten`
(`decoder_create_inst` returns without unwinding) and `ReleaseRefused`
(`channel_release_inst` returns before it releases anything). `lost` collects what
a context still held when it was freed, and the forgotten decoder. Variables are reset to a default when they are dead
(a freed context's fields, an idle thread's locals) to keep the instance small.

### OmxVdecComponent

`ev` holds the pipe of ids and the queues `m_cmd_q`, `m_etb_q`, `m_ftb_q`. Each
action of `event_thread` reads one id, takes the first entry of the id's queue
(`Popped`), and handles it if the ids agree (`Takes`); `EventIgnored` is the
other case. `send_command` waits until the event thread has taken the command:
the semaphore is `m_cmd_lock`, and the flush that `handle_command_*` starts comes
after it (`toFlush`, `omx_flush_port`), when the client already runs. `m_flags`
is the set of pending bits. Buffer contents are "empty" or "data", which is what
decides whether ACodec passes a frame on. The client's calls (`use_buffer`,
`free_buffer`) are operators that `ACodec` turns into actions.

The driver is `DriverReturns`, `DriverFlushed`, `DriverResizes`: it gives back
any buffer it has, and answers a flush only when it has none, which is what the
port modules show of it (`ImplementsPort`). A frame that comes back during a flush
may be empty or, if VPSS was about to report it, filled (`ReturnedLengths`). That a
flush of the output port is answered at all is not assumed: `output_flush_lost`
shows that it may not be.

### ACodec

One looper thread. A handler first changes ACodec's own state and lists the OMX
calls it makes in `calls`; these are made one by one, with the component's
threads in between, and the next message is taken when all are made (`Ready`).
`OnRequest` handles MediaCodec's messages, or defers them where the state does
(a stop before the start is `LoadedShutdown`); `processDeferredMessages` hands the
deferred ones over one after the other, each to the state then current
(`DeferredAgain`);
`onOMX...`, `OnSettingsChanged` and `OnCmdComplete` handle callbacks;
`onInputBufferFilled` and `onOutputBufferDrained` handle MediaCodec's replies.
The `...Done` actions are one per state and completion. The loop of
`freeOutputBuffersNotOwnedByComponent` tests each buffer when it comes to it: the
calls are `free_not_owned`, and `PassOver` is the test that fails. A CHECK that
would fail is a step that is not taken; `ChecksHold` (with `ResumeOk` for the
CHECK of `resume`) and `CallsAccepted` say that there is no such state.

### TdeJobList

A job lives in a slot of memory that may be handed out again. `next` is the link
in the last node of a job, which the hardware follows; `hw` is the job it runs,
`curNode` the register `TdeHalCurNode` reads, `irq` the completion status that
reading clears. `TdeOsiListNodeComp` is cut where it drops the lock: the tasklet
takes a finished job off the list (`NodeCompTake`), calls back without the lock
(`CallbackReturns`), notifies (`NodeCompNotify`). Submission is cut at every
unlocked access: the test of `bSubmitted`, the marking, the fence
(`TDE_FENCE_Create`, `FenceStore`). A signal that ends a wait (`SignalArrives`,
then `WaitInterrupted` under the lock) is told from the wake-up (`WaitEnds`,
`WaitAllEnds`). `Modes` are the four ways to end a job, and
`Faults` selects what may go wrong: memory that is scarce (an asynchronous job is
turned into a blocking one of 1000 ticks, which may time out), a fence that
cannot be created, and the interrupt of the core dump, which resets the hardware.

## 3. Runs

| run | checks | result |
|---|---|---|
| `input_port` | `TypeOK`, `UseCount`, `PendingFlushHasStream`, `OneOwner`, `QueueLinkedOnce`, `DecodeOrder`, `FlushDrains`, `LinkedLastFrameIsFlagged`, `FlushAnswered` (liveness), `ImplementsPort` (refinement) | hold |
| `output_port` | `TypeOK`, `FrameCount`, `OneFrameOwner`, `FramesLinkedOnce`, `FrameFlushDrains`, `ImplementsPort` (refinement) | hold |
| `device` | `TypeOK`, `UniqueIds`, `CallbackSafe`, `NothingLeaks` | hold |
| `codec` | `TypeOK`, `CallsAccepted`, `ChecksHold`, `OnePlace`, `HeadsMatch`, `FlagsOneWriter` | hold |
| `codec_live` | `RequestsAnswered`, `ReconfigCompletes`, `OutputFlows` (liveness) | hold |
| `tde_jobs` | `HardwareRunsListed`, `ChainIsList`, `WaitAllMeansDone` (action property), `JobsComplete`, `WaitAllReturns` (liveness) | hold |
| `tde_faults` | `TypeOK`, `WaitedJobIsKept`, `SubmittedIsOwned` | hold |
| `output_double_unlink` | `UnlinkIsSafe` | violated |
| `output_flush_lost` | `PendingFlushHasFrame` | violated |
| `codec_lost_buffer` | `NoBufferLost` | violated |
| `tde_callback` | `WaitAllReturns`, with callbacks | violated |
| `tde_fence_order` | `FenceAfterJob`, with two threads that submit | violated |

Seven more definitions state what the code or its documents promise and are refuted
by TLC. They are kept in the modules, and a run of them takes one `.cfg`:

| definition | refuted with | because |
|---|---|---|
| `OmxInputPort!EosAlreadyInList` | 1 buffer | `eos_in_list` is set after `raw_lock` is dropped |
| `OmxOutputPort!RecfgFlushIsReconfig` | 1 buffer, `MaxResize = 1` | a seek issued before the client reads IMG_SIZE_CHG takes the branch "flush command called by resolution change" |
| `OmxDevice!OpenOkIsInitialised` | 2 files, 1 context | the first open drops the lock before `channel_init` |
| `OmxDevice!ReleaseOkLeavesNothing` | 2 files, 3 contexts | `omxvdec_release` drops `channel_lock` inside its walk (with the low-delay statistics also `ReleaseRefused`) |
| `ACodec!AnsweredLast` | 1 buffer per port, `MaxResize = MaxFlush = 1`, `MaxEvents = 2`, 1 session | nobody waits for the flush of a port disable, and its answer clears `m_port_flushing` of a later one (`omx_vdec.c:2113`) |
| `TdeJobList!ResetIsComplete` | 1 submitter, 1 waiter that resets, `Modes = {"block", "async"}`, `Faults = {"scarce"}`, 2 slots, `MaxOpen = MaxHandle = 2` | the idle test comes before the lock |
| `TdeJobList!SubmittedOnce` | 2 submitters, `SharedHandles = TRUE`, `Modes = {"async"}`, 2 slots, `MaxOpen = MaxHandle = 2` | `bSubmitted` is tested without the lock |

What they show:

* **The input port is right.** Everything that matters happens under `raw_lock`.
  Even the end-of-stream flag, set outside it, never lets `last_frame` be linked
  twice (`QueueLinkedOnce`).
* **But an end of stream can get lost** (`EosAlreadyInList`): VFMW reads and
  releases `last_frame` before `channel_empty_this_stream` sets `eos_in_list`;
  the flag stays 1, and the next end of stream is refused as "already in list".
  A flush does not help: it clears the flag only for a linked `last_frame`.
* **The output port keeps its buffers** (`OneFrameOwner`, `FrameCount`) although
  `yuv_use_cnt` is changed without a lock: only one thread changes it.
* **Its flush has three races.** A flush can unlink a buffer that
  `processor_release_frame` is about to unlink (`output_double_unlink`); the last
  frame can be counted out between the test of the count and the setting of
  `output_flush_pending`, so that the flush is never answered and VPSS gets no
  more frames (`output_flush_lost`); and a release that answers a pause counts
  the frame out before it posts it, so that one frame may come after
  FLUSH_OUTPUT_DONE. The last is why `FrameFlushDrains` allows one late frame,
  only with a pause, and why `ImplementsPort` adds to the steps of `BufferPort` the
  one flush that ends early, `LateEnd`.
* **A seek can be taken for a reconfiguration** (`RecfgFlushIsReconfig`).
* **Creation and release are right** (`NothingLeaks`, `CallbackSafe`,
  `UniqueIds`), with one exception, whoever else creates or releases at the time.
  The exception: while the low-delay statistics are on, a decoder that cannot
  start them is forgotten with VFMW's channel and memory
  (`decoder_vfmw.c:1077-1089` has no `goto error3`, and `channel_create_inst` does
  not release what was not created). `NothingLeaks` says that nothing else is ever
  lost, and nothing at all with the option off. The order (engines first, then queue, record, memory) is
  what protects the unlocked callbacks.
* **Open and close are not**: a second open succeeds before the first has
  initialised the device (`OpenOkIsInitialised`), and a close can continue its walk
  from a channel another file has freed (`ReleaseOkLeavesNothing`).
* **Client and component agree** (`codec`): over two sessions, with a flush or a
  size change at any moment, no call of ACodec is refused and none of its CHECKs
  fails, although a stop and a port disable start flushes nobody awaits. The
  unlocked `m_flags` is safe (`FlagsOneWriter`) because ACodec's calls that clear
  a bit come when no event that writes the word can be under way; nothing in the
  component enforces that. After a partial free the next header lands in a free
  slot (`HeadsMatch`) because the buffers that stay are freed before new ones come.
* **A buffer can get lost in a size change** (`codec_lost_buffer`): the answer to
  the flush of the disabled port is handled after the port is enabled again; see
  the finding. With the only output buffer gone decoding stops, and a second size
  change waits for ever for the lost buffer to be freed: its owner stays "the
  component". This is why `OutputFlows`, `ReconfigCompletes` and `RequestsAnswered`
  allow `~NoBufferLost`.
* **The same late answer can end a later flush or stop** (`AnsweredLast`):
  the component then reports the port flushed, or itself idle, while it still has
  a buffer. ACodec looks for its buffers when it is told so, and not when the
  buffer comes, so the flush or stop is never answered. `RequestsAnswered`
  excludes exactly the behaviours in which that happens (`~[]AnsweredLast`);
  without a size change it does not happen: TLC finds `AnsweredLast` true with
  `MaxResize = 0`, two flushes and two sessions.
* **The driver's lost flush reaches the client.** When the output flush is never
  answered (`output_flush_lost`), a flush or stop of ACodec is not either, and the
  component bounces every frame buffer for ever. `RequestsAnswered` and
  `OutputFlows` are stated for the other behaviours (`FlushUnanswered`).
  `ReconfigCompletes` needs no such exception: nothing in a size change waits for
  that answer.
* **The 2D engine completes its jobs** (`tde_jobs`), in every interleaving of
  submission, hardware, interrupt and tasklet; and to wait for the last job is to
  wait for all (`WaitAllMeansDone`), for a waiter that is woken as for one that
  finds the job gone.
* **Its fences are not in order** (`tde_fence_order`): two threads that submit may
  take fence numbers in one order and places in the list in the other, and the
  completion of one job signals the fence of the other, whose drawing is then
  shown before it is done.
* **Not with callbacks** (`tde_callback`): the interrupt of a job that runs during
  the callback of another is cleared unread.
* **Waiting is safe** (`tde_faults`): blocked submitters that time out, waiters,
  signals and resets in any order neither free a job under a waiter nor forget it.
  A blocked submitter is not protected like this: the last waiter may free its job
  before it reads `enNotiType` (`TdeOsiListSubmitJob`), so that it reads, and after
  a timeout writes, memory that may be another job's. The model keeps this: a
  freed slot holds its old contents until it is handed out again. That the jobs are
  still kept and owned is part of what the proof shows.

### Bounds

* Input port: 3 stream buffers plus `last_frame`, without symmetry, which the
  liveness property does not allow. Two buffers give every relative order of used and
  unused entries around one that is removed; the third lets two be held with one
  behind. The invariants are proved for any number.
* Output port: 2 frame buffers and one size change (`MaxResize`). The races need
  one buffer; the second lets a flush find a used and an unused one. A second
  size change only repeats the first: the flag it sets is the same bit.
* Device: 2 files and 2 contexts; ids are reused and memory is reallocated. The
  leak of `ReleaseOkLeavesNothing` needs 3 contexts (two of the closing file with
  a foreign one between). `MAX_OPEN_COUNT = 2` (32 in the driver) so that the limit
  is reached, and `CountMod = 4` stands for 2^32: the count cannot wrap below the
  limit, only below zero.
* Codec: 1 input and 2 output buffers, two sessions, one size change or flush in
  them (`MaxEvents = 1`; with `MaxEvents = 2`, both, TLC finds no error in 5 million
  states either, and the theorems hold for any number);
  liveness (`codec_live`) with one buffer of each port and one session, and two
  size changes or one and a flush (`MaxEvents` bounds both together): the second
  meets what the first lost. Two output buffers let one be freed while the other
  is with the component or the renderer; the second session finds what the first
  left in flags and queues. The input port has no partial frees, so one suffices.
* 2D engine: 3 jobs when chaining matters (one runs, one waits to be committed,
  one is joined to it), 2 otherwise; as many slots as jobs, so memory is reused
  after a cancel or a release; `MaxOpen` limits the jobs begun and not submitted, which only
  multiplies the orders of unrelated begins.
* Message queues are unbounded; they are finite because each buffer and each
  command has at most one message.

### Fairness

* `input_port`: an ioctl that has begun runs to its end, the message thread keeps
  reading, a callback that has begun finishes (all are straight-line kernel code
  that no other party can stop), and VFMW releases each stream that
  `DEC_CMD_CLEAR_STREAM` asked for. The last is the documented effect of the
  command as `decoder_clear_stream` uses it; VFMW itself is not in scope.
* `codec_live`: the event and message threads run; the driver returns the buffers
  of a port that is being flushed, and answers the flush of the input port
  (`FlushAnswered` of `OmxInputPort`). That it answers the flush of the output port
  is not assumed, as it may not. ACodec makes the calls it has begun and takes its messages.
  Strong fairness is used for MediaCodec's requests and for drained output
  buffers: the looper is a FIFO queue, so a message that is waiting is taken
  however many others arrive, while in the model, which has no common queue, those
  actions are disabled whenever ACodec is inside a handler.
* `tde_jobs`, `tde_callback`: the hardware finishes the job it runs, interrupts
  and tasklets are served, and a thread in a call goes on when it can.

Nobody is assumed to submit, start, flush, stop, draw or wait; no signal and no
time-out is assumed to come.

### Assumptions on the environment

* The client flushes a port again only when the first flush is answered. The
  component does not enforce this: it starts further flushes on stop and port
  disable. `OmxVdecComponent` models that side, with a driver that takes a second
  flush of a port as part of the first; the two have not been composed.
* The ioctls of one file come one at a time (the component's event thread).
* VPSS calls back from one thread; destroying an engine is synchronous.
* `message.c` is a reliable FIFO.
* MediaCodec is used in the order its states allow (start, flush, stop), and
  hands each buffer it is asked for back in the end.
* The registers of the 2D engine behave as the driver uses them: reading the
  status clears it, a node whose link is not zero is followed by the linked one,
  `TdeHalNodeExecute` fails while the hardware runs.

## 4. Proofs

Every theorem holds for all values of the constants that satisfy the named
assumption of the module: `InputAssumption` and `OutputAssumption` (the special
entries are not buffers; the set of buffers may be infinite), `DeviceAssumption`
(the contexts, memory that `kzalloc` hands out, are a finite set; the files may be
any set), `ComponentAssumption` and `CodecAssumption` (each port has finitely many
buffers, at least one, none of them the name of a command), `TdeAssumption` (the
number of jobs is bounded; threads and slots may be any sets). Each `...Proofs` module defines the inductive invariant, has one lemma
per action that shows it is preserved, and derives the properties of the runs from
it.

* `KernelListProofs`: what `list_add_tail`, `list_del` and `Tail` do to length,
  entries, order and `LinkedOnce`.
* `OmxInputPortProofs`: `Spec => []IInv`, and from it each invariant of the
  `input_port` run. The properties are not inductive alone: that a flush drains
  the port depends on where the event thread is when the flag is set. `IInv`
  adds `EosInv` (in `eos_add` the flag is clear and `last_frame` unlinked; an
  empty buffer is carried only inside an ETB) and `FlushInv` (a pending flush and
  a posted answer exclude each other, belong to a flush of the client, leave in
  the queue only what VFMW holds, respectively nothing, and the answer is the
  last message).
  The last section proves the refinement, `Spec => Port!PortSpec`. Each step of
  the port is a step of `BufferPort` or leaves its variables alone; the case that
  needs `IInv` is reading FLUSH_INPUT_DONE, which must find every buffer with the
  client.
* `OmxOutputPortProofs`: `Spec => []OutInv`, and from it each invariant of the
  `output_port` run. `OutInv` adds to the properties: in which places of the VPSS
  thread a frame is in its hand and in which nothing is held (`QueueInv`); that
  from the command to its answer exactly one party has to answer a flush - the
  event thread, the VPSS thread or the message (`FlushInv`), and the same for a
  pause (`PauseInv`); and that the one frame behind FLUSH_OUTPUT_DONE is in the
  VPSS thread's hand because of a pause (`LateInv`). The last is why
  `FrameFlushDrains` allows for one late frame.
  The last section proves `Spec => ImplementsPort`: each step is one of
  `BufferPort`, a stutter or `LateEnd`, in which the client reads FLUSH_OUTPUT_DONE
  with a pause under way and one frame still to come. For a client that never
  pauses, as ACodec does not, `OutputPortKeepsPromise` proves the whole promise,
  `CanPause = FALSE` implying `Spec => Port!PortSpec`; `NoPause` (no place, flag or
  message of a pause) is the invariant added to `OutInv`.
* `OmxDeviceProofs`: `Spec => []DevInv`, and from it each invariant of the
  `device` run. `DevInv` ties each thread to the context it works on: the thread
  owns it, it holds exactly the resources acquired up to that place, it is listed
  exactly between the two list operations (`ThreadOK`); a context no thread works
  on is complete or free (`ContextOK`); a callback runs only for an engine its
  channel has (`CallbackOK`). That two threads never work on one context follows
  from ownership. That `channel_add_chan_record` finds an id, and one below the
  number of contexts, is an argument by counting (`FreeIdFacts`): the listed ids
  are no more than the listed contexts.
* `ACodecProofs`: `Spec => []CodecInv` for the composition of ACodec and the
  component, and from it `TypeOK`, `HeadsMatch` and `OnePlace`. It is an argument
  by counting: a buffer's places are the driver, the messages, the queues and the
  callbacks (`Flight`) and the client (`Held`), and each step moves one from one
  count to another. No step of the component makes a buffer (`ComponentStep`);
  ACodec gives away only what it holds, so a buffer it frees is in no queue, and
  one it uses anew is nowhere. What has to be added to the properties:
  - `CompOK`, what each queue holds: a completion never names a buffer, and the
    entries of `m_etb_q` and `m_ftb_q` are buffers of their port;
  - `CommandOK`: one command is under way, and only while `send_command` waits,
    so the semaphore cannot be posted twice;
  - `HeadOK` and `UseOK`: `use_buffer` stores into slot `m_cur_buf_num`, which is
    free only because ACodec fills a port it has emptied completely (`Compact`)
    with each buffer once and frees nothing meanwhile. The property is false for
    a client that mixes the two;
  - `LifeOK`: ACodec leaves IdleToLoaded with all its buffers freed, which is why
    the next start finds empty ports.
* `ACodecPhaseProofs` and `ACodecCallProofs`: `Spec => [](CodecInv /\ PhaseInv)`,
  and from it `CallsAccepted`, `ChecksHold` and `FlagsOneWriter`, for any number of
  buffers, sessions, flushes and size changes. `CodecInv` says where the buffers
  are; these three are about which command is under way. A CHECK can only fail,
  and a call can only be refused, when ACodec and the component disagree on that,
  and between them lie the command, a pending bit, an event, a driver message and
  a callback. `PhaseInv` says, of every reachable state:
  - `AnswerOK`: for each command, the pending bit that will answer it, the event
    that carries the answer and the callback are together at most one; none while
    the command is not yet taken, and none at all unless ACodec's state waits for
    that answer;
  - `KnownOK`: every command in the queue is the one that ACodec's state waits
    for, and no other answers than those of ACodec's commands exist;
  - `StateOK`: `m_state` and the enabled ports, as a function of ACodec's state
    and of the callbacks that have not been read;
  - `FlushOK`: the driver answers a flush of the input port once, and each flush
    in progress belongs to a flush, a stop or a disable of ACodec. A stop and a
    disable start flushes nobody awaits, and a late FLUSH_INPUT_DONE would be
    taken for the answer of a later command;
  - `StopOK`: the answer to a stop precedes that of the flush made for it, in the
    messages and in the event queue, so STOP_DONE finds the flush in progress
    and only its end makes the component Idle;
  - `CallsOK`: what each call that is still to be made will find, stated for the
    whole list, as the threads run between two calls;
  - `BuffersOK`: an ACodec that is not active owns all its buffers; a port is
    full, or empty, once the bit that waits for this is gone.

  `ACodecPhaseProofs` has the invariant and one lemma per step of the event
  thread, the message thread and the driver; `ACodecCallProofs` has those of
  ACodec's handlers and calls, and the theorems. TLC checked `PhaseInv` before
  the proof was begun, over two sessions with two output buffers, and with one
  and twice as many flushes and size changes. That a late answer of the output
  flush breaks nothing here is part of the result: `FlushOK` bounds the flushes
  of the input port only, and the lost buffer (section 3) costs liveness but no
  CHECK.

* `TdeJobListProofs`: the three invariants of the 2D engine, each resting on the one
  before.
  - `MemInv`, the memory of jobs: handles are given out once, and no two slots
    have the same one, freed slots included (`HandleInv`, so that
    `TdeOsiListDestroyJob`, called for a job that is already released, frees
    nothing); a submit before the list lock works on a job of its own
    (`SubmitInv`); `u8WaitForDoneCount` is the number of threads that wait
    (`CountInv`); the job in the tasklet's hand is nobody else's unless a submit
    blocks on it (`TaskletInv`). It yields `TypeOK` and `WaitedJobIsKept`, under
    every fault and with resets. It says nothing of the job of a blocked submit:
    that one may be freed, see section 3.
  - `HeldInv`: every submitted job that is not done is on its way through the
    list, a blocking one has its submit, and a done one that no thread waits for
    has a blocked submit. It yields `SubmittedIsOwned`.
  - `ChainInv`: the list is what has run, what the hardware runs and what waits
    to be started, in this order (`RunInv`); the links lead to the next job or
    nowhere (`LinkInv`); `curNode` is the running job or the last that ran
    (`CurInv`); the tasklet works up to a job that is listed and has run
    (`FinishInv`); a wait for all waits for a job behind all its goals
    (`GoalInv`). Two parts were found by failed attempts: that nothing behind an
    idle `curNode` has run, and that while the tasklet works up to `curNode`,
    `pstJobFinished` says so. It yields `HardwareRunsListed`, `ChainIsList` and the
    action property `WaitAllMeansDone`, whose only exception is a wait that a
    signal ended.

  The theorems name what they assume. `ProperUse`: a thread ends only jobs it
  began (otherwise `SubmittedOnce` fails, section 3), and fewer threads wait than
  a `HI_U8` can count (at 256 the count is zero and the job is freed).
  `"fence" \notin Faults` for `SubmittedIsOwned`: the job of a fence that could
  not be created is forgotten. `NoReset` for the chain: a reset tests the
  hardware before it takes the lock (`ResetIsComplete` fails), and a core dump
  stops the hardware behind the list's back. The runs `tde_jobs` and `tde_faults`
  satisfy the same hypotheses.

Only model-checked: liveness (`FlushAnswered`, `RequestsAnswered`,
`ReconfigCompletes`, `OutputFlows`, `JobsComplete`, `WaitAllReturns`), which is out
of the prover's reach. Every invariant and action property of a passing run is a
theorem. TLC's runs add to the theorems that the behaviours they speak of occur,
and the violations.

## 5. Not modelled

Of the driver: trusted-video (TVP) paths, frame
contents and lengths, the error replies of a refused command, `total_chan_num`,
proc files, look-ups by decoder and processor id, the last-frame path of the
output port, the address table, time stamps. The ten one-bit flags of a channel
share a word and are written by three threads; the port modules treat them as
separate variables.

Of the component: pause and resume (`PAUSE_PENDING` is set without a call of the
driver when the component is Idle, `omx_vdec.c:1536`), end of stream, ioctls that
fail, parameters. Of ACodec: native windows, meta-data buffers, encoders, end of
stream, errors, release and `keepComponentAllocated`.

Of the 2D engine: what the operations draw (most of `tde_osictl_k.c`), the
register layer, suspend and resume; `u32JobNum`, `pstJobCommitted` and
`s32HandleFinished`, which nothing reads.

The rest of the repository, some 250,000 lines, is not modelled and most of it
will not be. It is register programming (display, HDMI, audio, demultiplexer,
power), orchestration of other components through calls (AV player, media
players, PVR), patched AOSP and ffmpeg code, or pure drawing and format
arithmetic: there is little control to keep once the data is abstracted. A few
thousand lines of the kind modelled here remain: the VPSS scheduler, the vdec
driver, the frame-buffer fences. `PROJECT.json` lists every part with its reason.

## 6. Plan

1. `OmxDevice`: look-ups by decoder and processor id (`decoder_id` is not reset
   when the decoder is destroyed).
2. `ChannelFlags`: the shared bit-field word, one read-modify-write per writer,
   and what a lost flag does to flush and reconfiguration.
3. `AddrTable`: bind, unbind with the move of the last slot, against the queues.
4. Pause, resume and end of stream in `OmxVdecComponent`, with the lost pause of
   the output port; then its composition with the two ports in place of
   `DriverReturns` and `DriverFlushed`.
5. `LastFrame`, `PtsRec`, `FrameRate`.
