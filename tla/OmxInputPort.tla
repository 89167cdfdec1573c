----------------------------- MODULE OmxInputPort -----------------------------
(***************************************************************************)
(* The input port of an omxvdec channel: the stream buffers a client       *)
(* submits (channel_empty_this_stream), the decoder firmware VFMW takes    *)
(* and gives back (decoder_get_stream, decoder_release_stream), and a      *)
(* flush recalls (channel_flush_in_port).                                  *)
(*                                                                         *)
(* Three threads meet here.  The client's event thread issues the ioctls,  *)
(* one at a time; cpc is its place in the handler.  The client's message   *)
(* thread reads msg_queue.  The VFMW thread calls the two stream           *)
(* callbacks; dpc is its place.  A section under raw_lock is one step,     *)
(* except the loop of channel_flush_in_port: the client can read a message *)
(* while the loop still runs, so the loop is one step per entry and holds  *)
(* raw_lock through cpc = "flush_loop".                                    *)
(*                                                                         *)
(* Of a buffer only identity, status and ownership are kept; of the        *)
(* messages only the two codes of this port.                               *)
(***************************************************************************)
EXTENDS KernelList, FiniteSets

CONSTANTS Bufs,         \* the stream buffers bound to the channel
          LastFrame,    \* pchan->last_frame, the driver's end-of-stream buffer
          HI_NULL       \* no buffer

ASSUME InputAssumption ==
    /\ LastFrame \notin Bufs
    /\ HI_NULL \notin Bufs \cup {LastFrame}

VARIABLES
    state,                \* pchan->state
    raw_queue,            \* pchan->raw_queue
    status,               \* status of every buffer
    raw_use_cnt,          \* pchan->raw_use_cnt
    input_flush_pending,  \* pchan->input_flush_pending
    eos_in_list,          \* pchan->eos_in_list
    msg_queue,            \* pchan->msg_queue, this port's messages
    cpc, cbuf,            \* event thread: its place, the empty buffer it carries
    dpc,                  \* VFMW thread: its place
    held,                 \* the streams VFMW has read and not released
    recalled,             \* those DEC_CMD_CLEAR_STREAM told it to release
    client,               \* the buffers the client owns
    m_port_flushing       \* the client's flag: a flush is under way

vars == <<state, raw_queue, status, raw_use_cnt, input_flush_pending,
          eos_in_list, msg_queue, cpc, cbuf, dpc, held, recalled, client,
          m_port_flushing>>

AllBufs == Bufs \cup {LastFrame}

InputDone(b)   == [msgcode |-> "INPUT_DONE", buf |-> b]
FlushInputDone == [msgcode |-> "FLUSH_INPUT_DONE", buf |-> HI_NULL]
Messages == {InputDone(b) : b \in Bufs} \cup {FlushInputDone}

Using == {b \in AllBufs : status[b] = "USING"}

raw_lock_free == cpc # "flush_loop"

-------------------------------------------------------------------------------
(* A freshly created channel: every buffer bound and with the client.      *)
Init ==
    /\ state = "IDLE"
    /\ raw_queue = <<>>
    /\ status = [b \in AllBufs |-> "IDLE"]
    /\ raw_use_cnt = 0
    /\ input_flush_pending = 0
    /\ eos_in_list = 0
    /\ msg_queue = <<>>
    /\ cpc = "ready" /\ cbuf = HI_NULL
    /\ dpc = "idle"
    /\ held = {} /\ recalled = {}
    /\ client = Bufs
    /\ m_port_flushing = 0

-------------------------------------------------------------------------------
(* The state commands, as far as this port sees them.                      *)
SetState(from, to) ==
    /\ cpc = "ready"
    /\ state \in from
    /\ state' = to
    /\ UNCHANGED <<raw_queue, status, raw_use_cnt, input_flush_pending,
                   eos_in_list, msg_queue, cpc, cbuf, dpc, held, recalled,
                   client, m_port_flushing>>

channel_start_inst  == SetState({"IDLE", "PAUSE"}, "WORK")
channel_stop_inst   == SetState({"WORK", "PAUSE"}, "IDLE")
channel_pause_inst  == SetState({"WORK"}, "PAUSE")
channel_resume_inst == SetState({"PAUSE"}, "WORK")

-------------------------------------------------------------------------------
(* channel_insert_in_raw_list: a buffer already linked is refused.         *)
channel_insert_in_raw_list(b) ==
    /\ raw_queue' = list_add_tail(b, raw_queue)
    /\ status' = [status EXCEPT ![b] = "QUEUED"]

(* ETB of a buffer with data.  The component only forwards it while it is  *)
(* executing or paused and the port is not flushing.                       *)
channel_empty_this_stream(b, eos) ==
    /\ cpc = "ready"
    /\ state # "IDLE" /\ m_port_flushing = 0
    /\ b \in client
    /\ client' = client \ {b}
    /\ IF b \in Entries(raw_queue)
       THEN /\ msg_queue' = Append(msg_queue, InputDone(b))
            /\ UNCHANGED <<raw_queue, status, cpc>>
       ELSE /\ channel_insert_in_raw_list(b)
            /\ cpc' = IF eos THEN "eos_check" ELSE "ready"
            /\ UNCHANGED msg_queue
    /\ UNCHANGED <<state, raw_use_cnt, input_flush_pending, eos_in_list,
                   cbuf, dpc, held, recalled, m_port_flushing>>

(* ETB of a buffer without data: it is not queued, and goes back at the    *)
(* end of the handler.                                                     *)
channel_empty_this_stream_nodata(b, eos) ==
    /\ cpc = "ready"
    /\ state # "IDLE" /\ m_port_flushing = 0
    /\ b \in client
    /\ client' = client \ {b}
    /\ cbuf' = b
    /\ cpc' = IF eos THEN "eos_check" ELSE "etb_end"
    /\ UNCHANGED <<state, raw_queue, status, raw_use_cnt, input_flush_pending,
                   eos_in_list, msg_queue, dpc, held, recalled,
                   m_port_flushing>>

(* The handler's place once the end-of-stream part is over.                *)
AfterEos == IF cbuf = HI_NULL THEN "ready" ELSE "etb_end"

(* Mutant: the test of eos_in_list is dropped.                             *)
EtbCheckEos_NoTest ==
    /\ cpc = "eos_check"
    /\ status' = [status EXCEPT ![LastFrame] = "QUEUED"]
    /\ cpc' = "eos_add"
    /\ UNCHANGED <<state, raw_queue, raw_use_cnt, input_flush_pending,
                   eos_in_list, msg_queue, cbuf, dpc, held, recalled, client,
                   m_port_flushing>>

(* The unlocked test of eos_in_list; last_frame is marked QUEUED before    *)
(* raw_lock is taken.                                                      *)
EtbCheckEos ==
    /\ cpc = "eos_check"
    /\ IF eos_in_list = 0
       THEN /\ status' = [status EXCEPT ![LastFrame] = "QUEUED"]
            /\ cpc' = "eos_add"
       ELSE /\ cpc' = AfterEos
            /\ UNCHANGED status
    /\ UNCHANGED <<state, raw_queue, raw_use_cnt, input_flush_pending,
                   eos_in_list, msg_queue, cbuf, dpc, held, recalled, client,
                   m_port_flushing>>

EtbAddLastFrame ==
    /\ cpc = "eos_add"
    /\ raw_queue' = list_add_tail(LastFrame, raw_queue)
    /\ cpc' = "eos_set"
    /\ UNCHANGED <<state, status, raw_use_cnt, input_flush_pending,
                   eos_in_list, msg_queue, cbuf, dpc, held, recalled, client,
                   m_port_flushing>>

(* eos_in_list is set after raw_lock has been dropped.                     *)
EtbSetEosInList ==
    /\ cpc = "eos_set"
    /\ eos_in_list' = 1
    /\ cpc' = AfterEos
    /\ UNCHANGED <<state, raw_queue, status, raw_use_cnt, input_flush_pending,
                   msg_queue, cbuf, dpc, held, recalled, client,
                   m_port_flushing>>

EtbReturnEmpty ==
    /\ cpc = "etb_end"
    /\ msg_queue' = Append(msg_queue, InputDone(cbuf))
    /\ cbuf' = HI_NULL
    /\ cpc' = "ready"
    /\ UNCHANGED <<state, raw_queue, status, raw_use_cnt, input_flush_pending,
                   eos_in_list, dpc, held, recalled, client, m_port_flushing>>

-------------------------------------------------------------------------------
(* The flush command takes raw_lock and enters the loop.  Neither driver   *)
(* nor component refuses a second flush: that the application waits for    *)
(* the end of the first is an assumption on it.                            *)
channel_flush_in_port ==
    /\ cpc = "ready" /\ m_port_flushing = 0
    /\ m_port_flushing' = 1
    /\ cpc' = "flush_loop"
    /\ UNCHANGED <<state, raw_queue, status, raw_use_cnt, input_flush_pending,
                   eos_in_list, msg_queue, cbuf, dpc, held, recalled, client>>

(* One turn of the loop: the next entry VFMW does not use is unlinked and, *)
(* unless it is the end-of-stream buffer, returned.                        *)
FlushUnlink ==
    /\ cpc = "flush_loop"
    /\ \E i \in 1..Len(raw_queue) :
         LET b == raw_queue[i] IN
         /\ status[b] # "USING"
         /\ \A j \in 1..(i - 1) : status[raw_queue[j]] = "USING"
         /\ status' = [status EXCEPT ![b] = "IDLE"]
         /\ raw_queue' = list_del(b, raw_queue)
         /\ IF b # LastFrame
            THEN /\ msg_queue' = Append(msg_queue, InputDone(b))
                 /\ UNCHANGED eos_in_list
            ELSE /\ eos_in_list' = 0
                 /\ UNCHANGED msg_queue
    /\ UNCHANGED <<state, raw_use_cnt, input_flush_pending, cpc, cbuf, dpc,
                   held, recalled, client, m_port_flushing>>

(* Mutant: raw_use_cnt >= 0, so every flush waits.                         *)
FlushAnswer_OffByOne ==
    /\ cpc = "flush_loop"
    /\ \A b \in Entries(raw_queue) : status[b] = "USING"
    /\ input_flush_pending' = 1
    /\ cpc' = "flush_clear"
    /\ UNCHANGED <<state, raw_queue, status, raw_use_cnt, eos_in_list, cbuf,
                   dpc, held, recalled, client, m_port_flushing, msg_queue>>

(* Mutant: the flush is answered although VFMW still uses streams.         *)
FlushAnswer_NoWait ==
    /\ cpc = "flush_loop"
    /\ \A b \in Entries(raw_queue) : status[b] = "USING"
    /\ msg_queue' = Append(msg_queue, FlushInputDone)
    /\ cpc' = "flush_clear"
    /\ UNCHANGED <<state, raw_queue, status, raw_use_cnt, eos_in_list, cbuf,
                   dpc, held, recalled, client, m_port_flushing,
                   input_flush_pending>>

(* The end of the locked section.                                          *)
FlushAnswer ==
    /\ cpc = "flush_loop"
    /\ \A b \in Entries(raw_queue) : status[b] = "USING"
    /\ IF raw_use_cnt > 0
       THEN /\ input_flush_pending' = 1
            /\ UNCHANGED msg_queue
       ELSE /\ msg_queue' = Append(msg_queue, FlushInputDone)
            /\ UNCHANGED input_flush_pending
    /\ cpc' = "flush_clear"
    /\ UNCHANGED <<state, raw_queue, status, raw_use_cnt, eos_in_list, cbuf,
                   dpc, held, recalled, client, m_port_flushing>>

(* Mutant: VFMW is not told to release its streams.                        *)
FlushClearStream_Omitted ==
    /\ cpc = "flush_clear"
    /\ cpc' = "ready"
    /\ UNCHANGED <<state, raw_queue, status, raw_use_cnt, input_flush_pending,
                   eos_in_list, msg_queue, cbuf, dpc, held, recalled, client,
                   m_port_flushing>>

(* DEC_CMD_CLEAR_STREAM, on an unlocked test of the flag.                  *)
FlushClearStream ==
    /\ cpc = "flush_clear"
    /\ recalled' = IF input_flush_pending = 1 THEN held ELSE recalled
    /\ cpc' = "ready"
    /\ UNCHANGED <<state, raw_queue, status, raw_use_cnt, input_flush_pending,
                   eos_in_list, msg_queue, cbuf, dpc, held, client,
                   m_port_flushing>>

-------------------------------------------------------------------------------
(* decoder_get_stream tests the channel state, drops chan_lock ...         *)
decoder_get_stream ==
    /\ dpc = "idle"
    /\ state = "WORK"
    /\ dpc' = "get"
    /\ UNCHANGED <<state, raw_queue, status, raw_use_cnt, input_flush_pending,
                   eos_in_list, msg_queue, cpc, cbuf, held, recalled, client,
                   m_port_flushing>>

(* Mutant: any unused entry will do.                                       *)
GetStreamTake_Any ==
    /\ dpc = "get" /\ raw_lock_free
    /\ input_flush_pending = 0
    /\ \E b \in Entries(raw_queue) :
         /\ status[b] # "USING"
         /\ status' = [status EXCEPT ![b] = "USING"]
         /\ held' = held \cup {b}
    /\ raw_use_cnt' = raw_use_cnt + 1
    /\ dpc' = "idle"
    /\ UNCHANGED <<state, raw_queue, input_flush_pending, eos_in_list,
                   msg_queue, cpc, cbuf, recalled, client, m_port_flushing>>

(* ... and takes the oldest unused entry under raw_lock,                   *)
GetStreamTake ==
    /\ dpc = "get" /\ raw_lock_free
    /\ input_flush_pending = 0
    /\ \E i \in 1..Len(raw_queue) :
         LET b == raw_queue[i] IN
         /\ status[b] # "USING"
         /\ \A j \in 1..(i - 1) : status[raw_queue[j]] = "USING"
         /\ status' = [status EXCEPT ![b] = "USING"]
         /\ held' = held \cup {b}
    /\ raw_use_cnt' = raw_use_cnt + 1
    /\ dpc' = "idle"
    /\ UNCHANGED <<state, raw_queue, input_flush_pending, eos_in_list,
                   msg_queue, cpc, cbuf, recalled, client, m_port_flushing>>

(* or fails: no unused entry, or a flush is pending.                       *)
GetStreamFail ==
    /\ dpc = "get" /\ raw_lock_free
    /\ \/ input_flush_pending = 1
       \/ \A b \in Entries(raw_queue) : status[b] = "USING"
    /\ dpc' = "idle"
    /\ UNCHANGED <<state, raw_queue, status, raw_use_cnt, input_flush_pending,
                   eos_in_list, msg_queue, cpc, cbuf, held, recalled, client,
                   m_port_flushing>>

(* Mutant: the count is not decremented.                                   *)
Dec_Missing(cnt) == cnt

(* (cnt > 0) ? (cnt-1) : 0                                                 *)
Dec(cnt) == IF cnt > 0 THEN cnt - 1 ELSE 0

(* Mutant: last_frame is returned like any other buffer.                   *)
ReleaseMessages_LastFrame(b) ==
    IF input_flush_pending = 1 /\ Dec(raw_use_cnt) = 0
    THEN msg_queue \o <<InputDone(b), FlushInputDone>>
    ELSE Append(msg_queue, InputDone(b))

(* Mutant: the end of the flush stands for the buffer that ended it.       *)
ReleaseMessages_FlushOnly(b) ==
    IF input_flush_pending = 1 /\ Dec(raw_use_cnt) = 0
    THEN Append(msg_queue, FlushInputDone)
    ELSE IF b # LastFrame THEN Append(msg_queue, InputDone(b)) ELSE msg_queue

(* What decoder_release_stream posts: the buffer, then the end of a flush  *)
(* that was waiting for it.                                                *)
ReleaseMessages(b) ==
    LET returned == IF b # LastFrame
                    THEN Append(msg_queue, InputDone(b)) ELSE msg_queue
    IN  IF input_flush_pending = 1 /\ Dec(raw_use_cnt) = 0
        THEN Append(returned, FlushInputDone) ELSE returned

(* Mutant: every release clears eos_in_list.                               *)
decoder_release_stream_ClearEos(b) ==
    /\ raw_lock_free
    /\ b \in held
    /\ held' = held \ {b}
    /\ recalled' = recalled \ {b}
    /\ status' = [status EXCEPT ![b] = "IDLE"]
    /\ raw_queue' = list_del(b, raw_queue)
    /\ eos_in_list' = 0
    /\ msg_queue' = ReleaseMessages(b)
    /\ raw_use_cnt' = Dec(raw_use_cnt)
    /\ input_flush_pending' =
         IF Dec(raw_use_cnt) = 0 THEN 0 ELSE input_flush_pending
    /\ UNCHANGED <<state, cpc, cbuf, dpc, client, m_port_flushing>>

(* VFMW releases a stream it has consumed, or one the clear command wants  *)
(* back; that may happen in the caller's context, during a get_stream.     *)
decoder_release_stream(b) ==
    /\ raw_lock_free
    /\ b \in held
    /\ held' = held \ {b}
    /\ recalled' = recalled \ {b}
    /\ IF b \in Entries(raw_queue)
       THEN /\ status' = [status EXCEPT ![b] = "IDLE"]
            /\ raw_queue' = list_del(b, raw_queue)
            /\ eos_in_list' = IF b = LastFrame THEN 0 ELSE eos_in_list
            /\ msg_queue' = ReleaseMessages(b)
            /\ raw_use_cnt' = Dec(raw_use_cnt)
            /\ input_flush_pending' =
                 IF Dec(raw_use_cnt) = 0 THEN 0 ELSE input_flush_pending
       ELSE UNCHANGED <<status, raw_queue, eos_in_list, msg_queue,
                        raw_use_cnt, input_flush_pending>>
    /\ UNCHANGED <<state, cpc, cbuf, dpc, client, m_port_flushing>>

-------------------------------------------------------------------------------
(* The message thread: VDEC_MSG_RESP_INPUT_DONE hands the buffer back,     *)
(* VDEC_MSG_RESP_FLUSH_INPUT_DONE ends the client's flush.                 *)
channel_get_message ==
    /\ msg_queue # <<>>
    /\ msg_queue' = Tail(msg_queue)
    /\ IF Head(msg_queue).msgcode = "INPUT_DONE"
       THEN /\ client' = client \cup {Head(msg_queue).buf}
            /\ UNCHANGED m_port_flushing
       ELSE /\ m_port_flushing' = 0
            /\ UNCHANGED client
    /\ UNCHANGED <<state, raw_queue, status, raw_use_cnt, input_flush_pending,
                   eos_in_list, cpc, cbuf, dpc, held, recalled>>

-------------------------------------------------------------------------------
(* The rest of an ioctl that has begun.                                    *)
EventThread ==
    \/ EtbCheckEos \/ EtbAddLastFrame \/ EtbSetEosInList \/ EtbReturnEmpty
    \/ FlushUnlink \/ FlushAnswer \/ FlushClearStream

Next ==
    \/ channel_start_inst \/ channel_stop_inst
    \/ channel_pause_inst \/ channel_resume_inst
    \/ \E b \in Bufs, eos \in BOOLEAN :
         \/ channel_empty_this_stream(b, eos)
         \/ channel_empty_this_stream_nodata(b, eos)
    \/ channel_flush_in_port
    \/ EventThread
    \/ decoder_get_stream \/ GetStreamTake \/ GetStreamFail
    \/ \E b \in AllBufs : decoder_release_stream(b)
    \/ channel_get_message

Spec == Init /\ [][Next]_vars

(* An ioctl runs to its end, the message thread keeps reading, a callback  *)
(* that has begun finishes, and VFMW releases what it was told to release. *)
(* It need not release anything else, and nobody need submit or flush.     *)
Fairness ==
    /\ WF_vars(EventThread)
    /\ WF_vars(channel_get_message)
    /\ WF_vars(GetStreamTake \/ GetStreamFail)
    /\ \A b \in AllBufs : WF_vars(b \in recalled /\ decoder_release_stream(b))

FairSpec == Spec /\ Fairness
-------------------------------------------------------------------------------
(* The states every variable ranges over.                                  *)
TypeOK ==
    /\ state \in {"IDLE", "WORK", "PAUSE"}
    /\ raw_queue \in Seq(AllBufs)
    /\ status \in [AllBufs -> {"IDLE", "QUEUED", "USING"}]
    /\ raw_use_cnt \in Nat
    /\ input_flush_pending \in {0, 1}
    /\ eos_in_list \in {0, 1}
    /\ msg_queue \in Seq(Messages)
    /\ cpc \in {"ready", "eos_check", "eos_add", "eos_set", "etb_end",
                "flush_loop", "flush_clear"}
    /\ cbuf \in Bufs \cup {HI_NULL}
    /\ dpc \in {"idle", "get"}
    /\ held \subseteq AllBufs
    /\ recalled \subseteq held
    /\ client \subseteq Bufs
    /\ m_port_flushing \in {0, 1}

(* An INPUT_DONE for b waits in msg_queue.                                 *)
Returned(b) == InputDone(b) \in Entries(msg_queue)

(* raw_use_cnt counts the streams VFMW holds, and each of them is a linked *)
(* entry marked USING: decoder_release_stream always finds its buffer, and *)
(* the counter never saturates.                                            *)
UseCount ==
    /\ held = Using
    /\ held \subseteq Entries(raw_queue)
    /\ raw_use_cnt = Cardinality(held)

(* A flush that channel_flush_in_port left pending waits for a stream that *)
(* VFMW still holds: were there none, no decoder_release_stream would ever *)
(* post FLUSH_INPUT_DONE and decoder_get_stream would fail for ever.       *)
PendingFlushHasStream == input_flush_pending = 1 => held # {}

(* Every stream buffer is in exactly one place: with the client, in        *)
(* raw_queue, carried by an ETB, or in one INPUT_DONE message.  No path    *)
(* (refusal, flush, release) loses a buffer or returns it twice.           *)
OneOwner ==
    /\ \A b \in Bufs :
         /\ b \in client => b \notin Entries(raw_queue) /\ ~Returned(b)
         /\ b \in Entries(raw_queue) => ~Returned(b)
         /\ b = cbuf => /\ b \notin client
                        /\ b \notin Entries(raw_queue)
                        /\ ~Returned(b)
         /\ b \in client \/ b \in Entries(raw_queue) \/ b = cbuf \/ Returned(b)
    /\ LinkedOnce(msg_queue)

(* last_frame and every other buffer is linked into raw_queue at most      *)
(* once: the eos_in_list flag, although it is set outside raw_lock, never  *)
(* lets a second end of stream link last_frame again.                      *)
QueueLinkedOnce == LinkedOnce(raw_queue)

(* VFMW takes streams in the order they were submitted: what it uses is    *)
(* older than what it has not read, whatever it releases in between.       *)
DecodeOrder ==
    \A i, j \in 1..Len(raw_queue) :
        i < j /\ status[raw_queue[j]] = "USING" => status[raw_queue[i]] = "USING"

(* When the client reads FLUSH_INPUT_DONE it owns every stream buffer: all *)
(* of them are with it already or in an INPUT_DONE ahead in the queue, and *)
(* nothing, not even last_frame, is left in raw_queue.                     *)
FlushDrains ==
    \A i \in 1..Len(msg_queue) : msg_queue[i] = FlushInputDone =>
        /\ raw_queue = <<>>
        /\ \A b \in Bufs :
             b \in client \/ \E j \in 1..(i - 1) : msg_queue[j] = InputDone(b)

(* The flag never misses a linked last_frame: outside the step that sets   *)
(* it, eos_in_list is 1 whenever last_frame is linked.                     *)
LinkedLastFrameIsFlagged ==
    LastFrame \in Entries(raw_queue) => eos_in_list = 1 \/ cpc = "eos_set"

(* "Chan(%d) eos already in list!": when channel_empty_this_stream refuses *)
(* an end of stream because eos_in_list is set, last_frame is in raw_queue.*)
EosAlreadyInList ==
    cpc = "eos_check" /\ eos_in_list = 1 => LastFrame \in Entries(raw_queue)

(* Every flush of the input port is answered.                              *)
FlushAnswered == m_port_flushing = 1 ~> m_port_flushing = 0

-------------------------------------------------------------------------------
(* The port as its client sees it.                                         *)
ClientOwner ==
    [b \in Bufs |-> IF b \in client THEN "client"
                    ELSE IF Returned(b) THEN "message" ELSE "driver"]

Port == INSTANCE BufferPort WITH owner <- ClientOwner,
                                 flushing <- m_port_flushing

(* The input port implements the promise of BufferPort: each submitted     *)
(* buffer returns once, and no flush ends early.                           *)
ImplementsPort == Port!PortSpec
===============================================================================
