----------------------------- MODULE OmxOutputPort ----------------------------
(***************************************************************************)
(* The output port of an omxvdec channel: the frame buffers a client       *)
(* submits (channel_fill_this_frame), the post-processor VPSS takes, fills *)
(* or gives back (processor_get_frame, processor_report_frame,             *)
(* processor_release_frame), and a flush or a pause recalls.               *)
(*                                                                         *)
(* As in OmxInputPort the client's event thread issues the ioctls (cpc)    *)
(* and its message thread reads msg_queue.  The VPSS kernel thread makes   *)
(* all the callbacks; vpc is its place, vbuf the buffer it works on.       *)
(* Unlike the input port, the callbacks leave yuv_lock half way: they      *)
(* count, test the pending flags and post messages unlocked, so each of    *)
(* those is a step of its own.                                             *)
(***************************************************************************)
EXTENDS KernelList, FiniteSets

CONSTANTS Bufs,         \* the frame buffers bound to the channel
          HI_NULL,      \* no buffer
          MaxResize,    \* bound: how often the picture size changes
          CanPause      \* whether the client uses the pause command

ASSUME OutputAssumption ==
    /\ HI_NULL \notin Bufs
    /\ MaxResize \in Nat
    /\ CanPause \in BOOLEAN

VARIABLES
    state,                 \* pchan->state
    yuv_queue,             \* pchan->yuv_queue
    status,                \* status of every buffer
    yuv_use_cnt,           \* pchan->yuv_use_cnt
    output_flush_pending,  \* pchan->output_flush_pending
    pause_pending,         \* pchan->pause_pending
    recfg_flag,            \* pchan->recfg_flag
    msg_queue,             \* pchan->msg_queue, this port's messages
    cpc, reason,           \* event thread: its place, why it flushes
    vpc, vbuf,             \* VPSS thread: its place and its buffer
    held,                  \* the frames VPSS has taken and not given back
    resizes,               \* how often the picture size has changed
    client,                \* the buffers the client owns
    m_port_flushing,       \* the client's flag: a flush is under way
    m_port_reconfig,       \* the client's flag: the picture size changed
    m_pausing              \* the client's flag: OMX_STATE_PAUSE_PENDING

channelVars == <<state, yuv_queue, status, yuv_use_cnt, output_flush_pending,
                 pause_pending, recfg_flag, msg_queue>>
clientVars  == <<cpc, reason, client, m_port_flushing, m_port_reconfig,
                 m_pausing>>
vpssVars    == <<vpc, vbuf, held, resizes>>
vars        == <<channelVars, clientVars, vpssVars>>

OutputDone(b)   == [msgcode |-> "OUTPUT_DONE", buf |-> b]
FlushOutputDone == [msgcode |-> "FLUSH_OUTPUT_DONE", buf |-> HI_NULL]
PauseDone       == [msgcode |-> "PAUSE_DONE", buf |-> HI_NULL]
ImgSizeChg      == [msgcode |-> "IMG_SIZE_CHG", buf |-> HI_NULL]
Messages == {OutputDone(b) : b \in Bufs}
              \cup {FlushOutputDone, PauseDone, ImgSizeChg}

message_queue(m) == msg_queue' = Append(msg_queue, m)

Using == {b \in Bufs : status[b] = "USING"}

(* The flush loop keeps yuv_lock until it has set the flag; a VPSS thread  *)
(* that died in list_del keeps it for ever.                                *)
yuv_lock_free == cpc \notin {"flush_loop", "flush_set"} /\ vpc # "oops"

-------------------------------------------------------------------------------
Init ==
    /\ state = "IDLE"
    /\ yuv_queue = <<>>
    /\ status = [b \in Bufs |-> "IDLE"]
    /\ yuv_use_cnt = 0
    /\ output_flush_pending = 0 /\ pause_pending = 0 /\ recfg_flag = 0
    /\ msg_queue = <<>>
    /\ cpc = "ready" /\ reason = "none"
    /\ vpc = "idle" /\ vbuf = HI_NULL
    /\ held = {} /\ resizes = 0
    /\ client = Bufs
    /\ m_port_flushing = 0 /\ m_port_reconfig = 0 /\ m_pausing = 0

-------------------------------------------------------------------------------
(* The state commands.  The component resumes only from OMX_StatePause,    *)
(* which it enters when it reads PAUSE_DONE.                               *)
channel_start_inst ==
    /\ cpc = "ready" /\ state # "WORK"
    /\ state' = "WORK"
    /\ UNCHANGED <<yuv_queue, status, yuv_use_cnt, output_flush_pending,
                   pause_pending, recfg_flag, msg_queue, clientVars, vpssVars>>

channel_stop_inst ==
    /\ cpc = "ready" /\ state # "IDLE"
    /\ state' = "IDLE"
    /\ UNCHANGED <<yuv_queue, status, yuv_use_cnt, output_flush_pending,
                   pause_pending, recfg_flag, msg_queue, clientVars, vpssVars>>

(* Pause answers at once when VPSS uses no frame.  chan_lock does not      *)
(* protect yuv_use_cnt: the count may be stale when the flag is set.       *)
channel_pause_inst ==
    /\ CanPause
    /\ cpc = "ready" /\ state = "WORK" /\ m_pausing = 0
    /\ state' = "PAUSE"
    /\ m_pausing' = 1
    /\ cpc' = IF yuv_use_cnt = 0 THEN "pause_post" ELSE "pause_set"
    /\ UNCHANGED <<yuv_queue, status, yuv_use_cnt, output_flush_pending,
                   pause_pending, recfg_flag, msg_queue, reason, client,
                   m_port_flushing, m_port_reconfig, vpssVars>>

PauseSet ==
    /\ cpc = "pause_set"
    /\ pause_pending' = 1
    /\ cpc' = "ready"
    /\ UNCHANGED <<state, yuv_queue, status, yuv_use_cnt, output_flush_pending,
                   recfg_flag, msg_queue, reason, client, m_port_flushing,
                   m_port_reconfig, m_pausing, vpssVars>>

PausePost ==
    /\ cpc = "pause_post"
    /\ message_queue(PauseDone)
    /\ cpc' = "ready"
    /\ UNCHANGED <<state, yuv_queue, status, yuv_use_cnt, output_flush_pending,
                   pause_pending, recfg_flag, reason, client, m_port_flushing,
                   m_port_reconfig, m_pausing, vpssVars>>

channel_resume_inst ==
    /\ cpc = "ready" /\ state = "PAUSE" /\ m_pausing = 0
    /\ state' = "WORK"
    /\ pause_pending' = 0
    /\ UNCHANGED <<yuv_queue, status, yuv_use_cnt, output_flush_pending,
                   recfg_flag, msg_queue, clientVars, vpssVars>>

-------------------------------------------------------------------------------
(* FTB.  The component forwards it while it is executing or paused, and    *)
(* the port is neither flushing nor being reconfigured; a linked buffer    *)
(* is refused.                                                             *)
channel_insert_in_yuv_list(b) ==
    /\ yuv_queue' = list_add_tail(b, yuv_queue)
    /\ status' = [status EXCEPT ![b] = "QUEUED"]

channel_fill_this_frame(b) ==
    /\ cpc = "ready" /\ yuv_lock_free
    /\ state # "IDLE" /\ m_port_flushing = 0 /\ m_port_reconfig = 0
    /\ b \in client
    /\ client' = client \ {b}
    /\ IF b \in Entries(yuv_queue)
       THEN /\ message_queue(OutputDone(b))
            /\ UNCHANGED <<yuv_queue, status>>
       ELSE /\ channel_insert_in_yuv_list(b)
            /\ UNCHANGED msg_queue
    /\ UNCHANGED <<state, yuv_use_cnt, output_flush_pending, pause_pending,
                   recfg_flag, cpc, reason, m_port_flushing, m_port_reconfig,
                   m_pausing, vpssVars>>

-------------------------------------------------------------------------------
(* The flush command: a seek, or the port disable that answers a change of *)
(* the picture size.                                                       *)
channel_flush_out_port(why) ==
    /\ cpc = "ready" /\ m_port_flushing = 0
    /\ why = "reconfig" => m_port_reconfig = 1
    /\ m_port_flushing' = 1
    /\ reason' = why
    /\ cpc' = "flush_kind"
    /\ UNCHANGED <<channelVars, client, m_port_reconfig, m_pausing, vpssVars>>

(* It takes recfg_flag for the reason.  Otherwise it resets VFMW and VPSS, *)
(* which then give back what they hold when they choose to.                *)
FlushKind ==
    /\ cpc = "flush_kind"
    /\ recfg_flag' = 0
    /\ cpc' = "flush_lock"
    /\ UNCHANGED <<state, yuv_queue, status, yuv_use_cnt, output_flush_pending,
                   pause_pending, msg_queue, reason, client, m_port_flushing,
                   m_port_reconfig, m_pausing, vpssVars>>

FlushLock ==
    /\ cpc = "flush_lock" /\ yuv_lock_free
    /\ cpc' = "flush_loop"
    /\ UNCHANGED <<channelVars, reason, client, m_port_flushing,
                   m_port_reconfig, m_pausing, vpssVars>>

(* One turn of the loop over the entries VPSS does not use.                *)
FlushUnlink ==
    /\ cpc = "flush_loop"
    /\ \E i \in 1..Len(yuv_queue) :
         LET b == yuv_queue[i] IN
         /\ status[b] # "USING"
         /\ \A j \in 1..(i - 1) : status[yuv_queue[j]] = "USING"
         /\ status' = [status EXCEPT ![b] = "IDLE"]
         /\ yuv_queue' = list_del(b, yuv_queue)
         /\ message_queue(OutputDone(b))
    /\ UNCHANGED <<state, yuv_use_cnt, output_flush_pending, pause_pending,
                   recfg_flag, clientVars, vpssVars>>

(* Mutant: the flush is answered although VPSS still uses frames.          *)
FlushAnswer_NoWait ==
    /\ cpc = "flush_loop"
    /\ \A b \in Entries(yuv_queue) : status[b] = "USING"
    /\ message_queue(FlushOutputDone)
    /\ cpc' = "ready"
    /\ UNCHANGED <<state, yuv_queue, status, yuv_use_cnt, output_flush_pending,
                   pause_pending, recfg_flag, reason, client, m_port_flushing,
                   m_port_reconfig, m_pausing, vpssVars>>

(* The test of yuv_use_cnt, which yuv_lock does not protect.               *)
FlushAnswer ==
    /\ cpc = "flush_loop"
    /\ \A b \in Entries(yuv_queue) : status[b] = "USING"
    /\ IF yuv_use_cnt > 0
       THEN /\ cpc' = "flush_set"
            /\ UNCHANGED msg_queue
       ELSE /\ message_queue(FlushOutputDone)
            /\ cpc' = "ready"
    /\ UNCHANGED <<state, yuv_queue, status, yuv_use_cnt, output_flush_pending,
                   pause_pending, recfg_flag, reason, client, m_port_flushing,
                   m_port_reconfig, m_pausing, vpssVars>>

FlushSetPending ==
    /\ cpc = "flush_set"
    /\ output_flush_pending' = 1
    /\ cpc' = "ready"
    /\ UNCHANGED <<state, yuv_queue, status, yuv_use_cnt, pause_pending,
                   recfg_flag, msg_queue, reason, client, m_port_flushing,
                   m_port_reconfig, m_pausing, vpssVars>>

-------------------------------------------------------------------------------
(* processor_get_frame_buffer finds another picture size: it asks for a    *)
(* reconfiguration and takes no buffer.                                    *)
ReportImgSize ==
    /\ vpc = "idle" /\ resizes < MaxResize
    /\ resizes' = resizes + 1
    /\ recfg_flag' = 1
    /\ message_queue(ImgSizeChg)
    /\ UNCHANGED <<state, yuv_queue, status, yuv_use_cnt, output_flush_pending,
                   pause_pending, clientVars, vpc, vbuf, held>>

(* processor_get_frame tests the state under chan_lock,                    *)
processor_get_frame ==
    /\ vpc = "idle" /\ state = "WORK"
    /\ vpc' = "get_flush"
    /\ UNCHANGED <<channelVars, clientVars, vbuf, held, resizes>>

(* then the pending flush without a lock,                                  *)
GetFrameTestFlush ==
    /\ vpc = "get_flush"
    /\ vpc' = IF output_flush_pending = 1 THEN "idle" ELSE "get_take"
    /\ UNCHANGED <<channelVars, clientVars, vbuf, held, resizes>>

(* and under yuv_lock takes an unused buffer that is large enough, or, if  *)
(* there is none, fails.                                                   *)
GetFrameTake ==
    /\ vpc = "get_take" /\ yuv_lock_free
    /\ \E b \in Entries(yuv_queue) :
         /\ status[b] # "USING"
         /\ status' = [status EXCEPT ![b] = "USING"]
         /\ held' = held \cup {b}
    /\ yuv_use_cnt' = yuv_use_cnt + 1
    /\ vpc' = "idle"
    /\ UNCHANGED <<state, yuv_queue, output_flush_pending, pause_pending,
                   recfg_flag, msg_queue, clientVars, vbuf, resizes>>

GetFrameFail ==
    /\ vpc = "get_take" /\ yuv_lock_free
    /\ vpc' = "idle"
    /\ UNCHANGED <<channelVars, clientVars, vbuf, held, resizes>>

-------------------------------------------------------------------------------
(* processor_release_frame: VPSS gives an unfilled buffer back.  Under     *)
(* yuv_lock the buffer only becomes IDLE; it stays linked.                 *)
processor_release_frame(b) ==
    /\ vpc = "idle" /\ yuv_lock_free
    /\ b \in held
    /\ held' = held \ {b}
    /\ IF b \in Entries(yuv_queue)
       THEN /\ status' = [status EXCEPT ![b] = "IDLE"]
            /\ vbuf' = b
            /\ vpc' = "rel_count"
       ELSE UNCHANGED <<status, vbuf, vpc>>
    /\ UNCHANGED <<state, yuv_queue, yuv_use_cnt, output_flush_pending,
                   pause_pending, recfg_flag, msg_queue, clientVars, resizes>>

(* Mutant: the count is not decremented.                                   *)
Dec_Missing(cnt) == cnt

(* (cnt > 0) ? (cnt-1) : 0                                                 *)
Dec(cnt) == IF cnt > 0 THEN cnt - 1 ELSE 0

RelCount ==
    /\ vpc = "rel_count"
    /\ yuv_use_cnt' = Dec(yuv_use_cnt)
    /\ vpc' = "rel_test"
    /\ UNCHANGED <<state, yuv_queue, status, output_flush_pending,
                   pause_pending, recfg_flag, msg_queue, clientVars, vbuf,
                   held, resizes>>

RelTest ==
    /\ vpc = "rel_test"
    /\ vpc' = IF output_flush_pending = 1 \/ pause_pending = 1
              THEN "rel_unlink" ELSE "rel_requeue"
    /\ UNCHANGED <<channelVars, clientVars, vbuf, held, resizes>>

(* Mutant: the buffer is returned and stays linked.                        *)
RelUnlink_Omitted ==
    /\ vpc = "rel_unlink" /\ yuv_lock_free
    /\ vpc' = "rel_post"
    /\ UNCHANGED <<state, yuv_queue, status, yuv_use_cnt, output_flush_pending,
                   pause_pending, recfg_flag, msg_queue, clientVars, vbuf,
                   held, resizes>>

(* list_del without looking whether the buffer is still linked.  Unlinking *)
(* a poisoned entry is an oops, with yuv_lock held.                        *)
RelUnlink ==
    /\ vpc = "rel_unlink" /\ yuv_lock_free
    /\ IF vbuf \in Entries(yuv_queue)
       THEN /\ yuv_queue' = list_del(vbuf, yuv_queue)
            /\ vpc' = "rel_post"
       ELSE /\ vpc' = "oops"
            /\ UNCHANGED yuv_queue
    /\ UNCHANGED <<state, status, yuv_use_cnt, output_flush_pending,
                   pause_pending, recfg_flag, msg_queue, clientVars, vbuf,
                   held, resizes>>

RelPost ==
    /\ vpc = "rel_post"
    /\ message_queue(OutputDone(vbuf))
    /\ vpc' = "zero_test"
    /\ UNCHANGED <<state, yuv_queue, status, yuv_use_cnt, output_flush_pending,
                   pause_pending, recfg_flag, clientVars, vbuf, held, resizes>>

(* Mutant: the requeued buffer, which never left yuv_queue, is linked.     *)
RelRequeue_Link ==
    /\ vpc = "rel_requeue"
    /\ yuv_queue' = list_add_tail(vbuf, yuv_queue)
    /\ status' = [status EXCEPT ![vbuf] = "QUEUED"]
    /\ vpc' = "idle"
    /\ UNCHANGED <<state, yuv_use_cnt, output_flush_pending, pause_pending,
                   recfg_flag, msg_queue, clientVars, vbuf, held, resizes>>

RelRequeue ==
    /\ vpc = "rel_requeue"
    /\ status' = [status EXCEPT ![vbuf] = "QUEUED"]
    /\ vpc' = "idle"
    /\ UNCHANGED <<state, yuv_queue, yuv_use_cnt, output_flush_pending,
                   pause_pending, recfg_flag, msg_queue, clientVars, vbuf,
                   held, resizes>>

-------------------------------------------------------------------------------
(* processor_report_frame: a filled buffer is unlinked under yuv_lock,     *)
(* returned, and only then counted out.                                    *)
processor_report_frame(b) ==
    /\ vpc = "idle" /\ yuv_lock_free
    /\ b \in held
    /\ held' = held \ {b}
    /\ IF b \in Entries(yuv_queue)
       THEN /\ status' = [status EXCEPT ![b] = "IDLE"]
            /\ yuv_queue' = list_del(b, yuv_queue)
            /\ vbuf' = b
            /\ vpc' = "rep_post"
       ELSE UNCHANGED <<status, yuv_queue, vbuf, vpc>>
    /\ UNCHANGED <<state, yuv_use_cnt, output_flush_pending, pause_pending,
                   recfg_flag, msg_queue, clientVars, resizes>>

RepPost ==
    /\ vpc = "rep_post"
    /\ message_queue(OutputDone(vbuf))
    /\ vpc' = "rep_count"
    /\ UNCHANGED <<state, yuv_queue, status, yuv_use_cnt, output_flush_pending,
                   pause_pending, recfg_flag, clientVars, vbuf, held, resizes>>

RepCount ==
    /\ vpc = "rep_count"
    /\ yuv_use_cnt' = Dec(yuv_use_cnt)
    /\ vpc' = "zero_test"
    /\ UNCHANGED <<state, yuv_queue, status, output_flush_pending,
                   pause_pending, recfg_flag, msg_queue, clientVars, vbuf,
                   held, resizes>>

-------------------------------------------------------------------------------
(* Mutant: any frame, not the last one, answers the flush.                 *)
ZeroTest_Dropped ==
    /\ vpc = "zero_test"
    /\ vpc' = "flush_done"
    /\ UNCHANGED <<channelVars, clientVars, vbuf, held, resizes>>

(* Both callbacks end alike: the last frame answers a pending flush, then  *)
(* a pending pause, and clears each flag after its message.                *)
ZeroTest ==
    /\ vpc = "zero_test"
    /\ vpc' = IF yuv_use_cnt = 0 THEN "flush_done" ELSE "idle"
    /\ UNCHANGED <<channelVars, clientVars, vbuf, held, resizes>>

FlushDone ==
    /\ vpc = "flush_done"
    /\ IF output_flush_pending = 1
       THEN message_queue(FlushOutputDone) /\ vpc' = "flush_clear"
       ELSE UNCHANGED msg_queue /\ vpc' = "pause_done"
    /\ UNCHANGED <<state, yuv_queue, status, yuv_use_cnt, output_flush_pending,
                   pause_pending, recfg_flag, clientVars, vbuf, held, resizes>>

FlushClear ==
    /\ vpc = "flush_clear"
    /\ output_flush_pending' = 0
    /\ vpc' = "pause_done"
    /\ UNCHANGED <<state, yuv_queue, status, yuv_use_cnt, pause_pending,
                   recfg_flag, msg_queue, clientVars, vbuf, held, resizes>>

PauseAnswer ==
    /\ vpc = "pause_done"
    /\ IF pause_pending = 1
       THEN message_queue(PauseDone) /\ vpc' = "pause_clear"
       ELSE UNCHANGED msg_queue /\ vpc' = "idle"
    /\ UNCHANGED <<state, yuv_queue, status, yuv_use_cnt, output_flush_pending,
                   pause_pending, recfg_flag, clientVars, vbuf, held, resizes>>

PauseClear ==
    /\ vpc = "pause_clear"
    /\ pause_pending' = 0
    /\ vpc' = "idle"
    /\ UNCHANGED <<state, yuv_queue, status, yuv_use_cnt, output_flush_pending,
                   recfg_flag, msg_queue, clientVars, vbuf, held, resizes>>

-------------------------------------------------------------------------------
(* Mutant: every message is taken for an OUTPUT_DONE.                      *)
channel_get_message_AnyCode ==
    /\ msg_queue # <<>>
    /\ msg_queue' = Tail(msg_queue)
    /\ client' = client \cup {Head(msg_queue).buf}
    /\ UNCHANGED <<state, yuv_queue, status, yuv_use_cnt, output_flush_pending,
                   pause_pending, recfg_flag, cpc, reason, m_port_flushing,
                   m_port_reconfig, m_pausing, vpssVars>>

(* The client reads a message.                                             *)
channel_get_message ==
    /\ msg_queue # <<>>
    /\ msg_queue' = Tail(msg_queue)
    /\ LET m == Head(msg_queue) IN
       /\ client' = IF m.msgcode = "OUTPUT_DONE" THEN client \cup {m.buf}
                                                 ELSE client
       /\ m_port_flushing' = IF m = FlushOutputDone THEN 0 ELSE m_port_flushing
       /\ m_pausing' = IF m = PauseDone THEN 0 ELSE m_pausing
       /\ m_port_reconfig' = IF m = ImgSizeChg THEN 1 ELSE m_port_reconfig
    /\ UNCHANGED <<state, yuv_queue, status, yuv_use_cnt, output_flush_pending,
                   pause_pending, recfg_flag, cpc, reason, vpssVars>>

(* The port is enabled again, with buffers of the new size, once it is     *)
(* empty.                                                                  *)
PortEnable ==
    /\ cpc = "ready"
    /\ m_port_reconfig = 1 /\ m_port_flushing = 0 /\ client = Bufs
    /\ m_port_reconfig' = 0
    /\ UNCHANGED <<channelVars, cpc, reason, client, m_port_flushing,
                   m_pausing, vpssVars>>

-------------------------------------------------------------------------------
EventThread ==
    \/ PauseSet \/ PausePost
    \/ FlushKind \/ FlushLock \/ FlushUnlink \/ FlushAnswer \/ FlushSetPending

VpssThread ==
    \/ GetFrameTestFlush \/ GetFrameTake \/ GetFrameFail
    \/ RelCount \/ RelTest \/ RelUnlink \/ RelPost \/ RelRequeue
    \/ RepPost \/ RepCount
    \/ ZeroTest \/ FlushDone \/ FlushClear \/ PauseAnswer \/ PauseClear

Next ==
    \/ channel_start_inst \/ channel_stop_inst
    \/ channel_pause_inst \/ channel_resume_inst
    \/ \E b \in Bufs : channel_fill_this_frame(b)
    \/ \E why \in {"seek", "reconfig"} : channel_flush_out_port(why)
    \/ EventThread
    \/ ReportImgSize
    \/ processor_get_frame
    \/ \E b \in Bufs : processor_release_frame(b) \/ processor_report_frame(b)
    \/ VpssThread
    \/ channel_get_message \/ PortEnable

Spec == Init /\ [][Next]_vars

-------------------------------------------------------------------------------
(* The states every variable ranges over.                                  *)
TypeOK ==
    /\ state \in {"IDLE", "WORK", "PAUSE"}
    /\ yuv_queue \in Seq(Bufs)
    /\ status \in [Bufs -> {"IDLE", "QUEUED", "USING"}]
    /\ yuv_use_cnt \in Nat
    /\ output_flush_pending \in {0, 1}
    /\ pause_pending \in {0, 1}
    /\ recfg_flag \in {0, 1}
    /\ msg_queue \in Seq(Messages)
    /\ cpc \in {"ready", "pause_set", "pause_post", "flush_kind",
                "flush_lock", "flush_loop", "flush_set"}
    /\ reason \in {"none", "seek", "reconfig"}
    /\ vpc \in {"idle", "get_flush", "get_take", "rel_count", "rel_test",
                "rel_unlink", "rel_post", "rel_requeue", "rep_post",
                "rep_count", "zero_test", "flush_done", "flush_clear",
                "pause_done", "pause_clear", "oops"}
    /\ vbuf \in Bufs \cup {HI_NULL}
    /\ held \subseteq Bufs
    /\ resizes \in 0..MaxResize
    /\ client \subseteq Bufs
    /\ m_port_flushing \in {0, 1}
    /\ m_port_reconfig \in {0, 1}
    /\ m_pausing \in {0, 1}

(* An OUTPUT_DONE for b waits in msg_queue.                                *)
Returned(b) == OutputDone(b) \in Entries(msg_queue)

(* The buffer the VPSS thread has unlinked and not yet returned.           *)
Carried == IF vpc \in {"rep_post", "rel_post"} THEN {vbuf} ELSE {}

(* The frame the VPSS thread has given up and not yet counted out.         *)
Uncounted == IF vpc \in {"rel_count", "rep_post", "rep_count"} THEN 1 ELSE 0

(* Although yuv_use_cnt is changed outside yuv_lock, it always counts the  *)
(* frames VPSS holds, and a frame it is giving back at this moment; what   *)
(* VPSS holds is linked and USING, so no callback misses its buffer.       *)
FrameCount ==
    /\ held = Using
    /\ held \subseteq Entries(yuv_queue)
    /\ yuv_use_cnt = Cardinality(held) + Uncounted

(* A frame buffer has exactly one owner: the client, yuv_queue, the VPSS   *)
(* thread between unlinking and returning it, or one OUTPUT_DONE.  In      *)
(* particular VPSS never writes into a buffer that the client may read.    *)
OneFrameOwner ==
    /\ \A b \in Bufs :
         Cardinality({o \in {"client", "queue", "vpss", "message"} :
                        \/ o = "client" /\ b \in client
                        \/ o = "queue" /\ b \in Entries(yuv_queue)
                        \/ o = "vpss" /\ b \in Carried
                        \/ o = "message" /\ Returned(b)}) = 1
    /\ \A b \in Bufs : \A i, j \in 1..Len(msg_queue) :
         msg_queue[i] = OutputDone(b) /\ msg_queue[j] = OutputDone(b) => i = j

(* No frame buffer is linked twice.                                        *)
FramesLinkedOnce == LinkedOnce(yuv_queue)

(* The frame buffers that neither are with the client nor come back in an  *)
(* OUTPUT_DONE ahead of message i.                                         *)
LateFrames(i) ==
    {b \in Bufs : /\ b \notin client
                  /\ \A j \in 1..(i - 1) : msg_queue[j] # OutputDone(b)}

(* When FLUSH_OUTPUT_DONE is posted nothing is linked and VPSS holds no    *)
(* frame, and every frame buffer returns ahead of it.  The exception is    *)
(* the one frame processor_release_frame counts out, unlinks and only then *)
(* returns when it answers a pause: that frame may come late, and nothing  *)
(* but a pause makes it so.                                                *)
FrameFlushDrains ==
    \A i \in 1..Len(msg_queue) : msg_queue[i] = FlushOutputDone =>
        /\ yuv_queue = <<>> /\ held = {}
        /\ Cardinality(LateFrames(i)) <= 1
        /\ LateFrames(i) # {} =>
             pause_pending = 1 \/ PauseDone \in Entries(msg_queue)

-------------------------------------------------------------------------------
(* What the code says of itself, and does not keep.                        *)

(* "for we del list during, so use safe means": processor_release_frame    *)
(* unlinks only a buffer that is still linked.                             *)
UnlinkIsSafe == vpc # "oops"

(* "output flush pending, unrelease buffer num": a pending flush waits for *)
(* a frame that is still to be counted out, or is just being answered.     *)
PendingFlushHasFrame ==
    output_flush_pending = 1 =>
        yuv_use_cnt > 0 \/ vpc \notin {"idle", "get_flush", "get_take"}

(* "flush command called by resolution change": the branch that leaves the *)
(* old pictures alone is taken by no seek.                                 *)
RecfgFlushIsReconfig ==
    cpc = "flush_kind" /\ recfg_flag = 1 => reason = "reconfig"

-------------------------------------------------------------------------------
(* The port as its client sees it.                                         *)
ClientOwner ==
    [b \in Bufs |-> IF b \in client THEN "client"
                    ELSE IF Returned(b) THEN "message" ELSE "driver"]

Port == INSTANCE BufferPort WITH owner <- ClientOwner,
                                 flushing <- m_port_flushing

(* The one flush that ends early: the client has asked for a pause and not *)
(* yet read its answer, and a single frame buffer is still on its way.     *)
LateEnd ==
    /\ m_pausing = 1
    /\ m_port_flushing = 1 /\ m_port_flushing' = 0
    /\ \E b \in Bufs : client = Bufs \ {b}
    /\ UNCHANGED ClientOwner

(* The output port implements the promise of BufferPort: each submitted    *)
(* buffer returns exactly once, nothing is submitted during a flush, and   *)
(* every flush is answered when the client owns all its buffers, but for   *)
(* the frame that a pause lets come late.                                  *)
ImplementsPort ==
    Port!PortInit /\ [][Port!PortNext \/ LateEnd]_(Port!portVars)
===============================================================================
