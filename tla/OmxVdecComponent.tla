--------------------------- MODULE OmxVdecComponent ---------------------------
(***************************************************************************)
(* The OMX video decoder component (omx_vdec.c) between its client and the *)
(* decoder driver.                                                         *)
(*                                                                         *)
(* Client calls and driver messages become events: post_event puts an      *)
(* entry into one of three queues and the entry's id into a pipe.  The     *)
(* event thread reads an id, takes the first entry of the queue the id     *)
(* belongs to, and handles it if the ids agree.  The message thread turns  *)
(* driver messages into events.  Callbacks reach the client in order       *)
(* through cb.                                                             *)
(*                                                                         *)
(* The driver is what its two port modules show of it: it gives every      *)
(* buffer back, and answers a flush only when it holds no buffer of the    *)
(* port.  Left out: pause and resume, end of stream, calls of the driver   *)
(* that fail, and the commands ACodec does not send.                       *)
(***************************************************************************)
EXTENDS Naturals, Sequences, FiniteSets

CONSTANTS
    InBufs, OutBufs,   \* the buffer headers of the two ports
    NULL,              \* an empty slot of m_omx_bufhead
    MaxResize          \* bound: changes of the picture size

ASSUME ComponentAssumption ==
    /\ InBufs \cap OutBufs = {} /\ NULL \notin InBufs \cup OutBufs
    /\ {"StateSet", "PortEnable", "PortDisable", "Flush", "out"}
          \cap (InBufs \cup OutBufs) = {}
    /\ IsFiniteSet(InBufs) /\ IsFiniteSet(OutBufs)
    /\ MaxResize \in Nat

Ports == {"in", "out"}
Bufs == InBufs \cup OutBufs
BufsOf(p) == IF p = "in" THEN InBufs ELSE OutBufs
PortOf(b) == IF b \in InBufs THEN "in" ELSE "out"
max_count(p) == Cardinality(BufsOf(p))

VARIABLES
    m_state, m_flags,     \* the state; the pending bits, <<what, port>>
    m_port_enabled, m_port_flushing,
    m_port_reconfig,      \* of the output port
    m_omx_bufhead, m_cur_buf_num,
    ev,                   \* the pipe and the queues m_cmd_q, m_etb_q, m_ftb_q
    m_cmd_lock,           \* the semaphore of send_command
    toFlush,              \* ports the event thread flushes after sem_post
    drv,                  \* the buffers the driver has, by port
    flushReq, msgs,       \* the flushes it works on, the messages it sent
    resizes, cb

portVars == <<m_port_enabled, m_port_flushing, m_port_reconfig>>
headVars == <<m_omx_bufhead, m_cur_buf_num>>
drvVars  == <<drv, flushReq, msgs, resizes>>
compVars == <<m_state, m_flags, portVars, headVars, ev, m_cmd_lock, toFlush,
              drvVars, cb>>

Both(x) == [p \in Ports |-> x]

ComponentInit ==
    /\ m_state = "Loaded" /\ m_flags = {}
    /\ m_port_enabled = Both(TRUE) /\ m_port_flushing = Both(FALSE)
    /\ m_port_reconfig = FALSE
    /\ m_omx_bufhead = [p \in Ports |-> [i \in 1..max_count(p) |-> NULL]]
    /\ m_cur_buf_num = Both(0)
    /\ ev = [pipe |-> <<>>, cmd |-> <<>>, etb |-> <<>>, ftb |-> <<>>]
    /\ m_cmd_lock = 0 /\ toFlush = {}
    /\ drv = Both({}) /\ flushReq = {} /\ msgs = <<>>
    /\ resizes = 0 /\ cb = <<>>

-------------------------------------------------------------------------------
(* The ids of a port's events.                                             *)
This(p) == IF p = "in" THEN "ETB" ELSE "FTB"
Done(p) == IF p = "in" THEN "EBD" ELSE "FBD"
FlushId(p) == IF p = "in" THEN "FLUSH_INPUT_DONE" ELSE "FLUSH_OUTPUT_DONE"
QueueOf(id) == CASE id \in {"ETB", "EBD"} -> "etb"
                 [] id \in {"FTB", "FBD"} -> "ftb"
                 [] OTHER -> "cmd"

(* For a buffer, p1 is its header and p2 what nFilledLen says: the buffer  *)
(* is "empty" or has "data".                                               *)
Entry(id, p1, p2) == [id |-> id, p1 |-> p1, p2 |-> p2]

post_event(e, id, p1, p2) ==
    [e EXCEPT !.pipe = Append(@, id),
              ![QueueOf(id)] = Append(@, Entry(id, p1, p2))]

BufferDone(b, len) == [what |-> "BUFFER_DONE", p1 |-> b, p2 |-> len]
CmdComplete(cmd, arg) == [what |-> "CMD_COMPLETE", p1 |-> cmd, p2 |-> arg]
SettingsChanged == [what |-> "SETTINGS", p1 |-> "out", p2 |-> "all"]

Registered(b) == \E i \in 1..max_count(PortOf(b)) :
                    m_omx_bufhead[PortOf(b)][i] = b

-------------------------------------------------------------------------------
(* What the calls of the client do.  use_buffer and allocate_buffer take   *)
(* the slot m_cur_buf_num, and finish the command that waits for the port  *)
(* to fill.                                                                *)
UseAccepted(b) ==
    /\ \/ m_state \in {"Idle", "Executing"}
       \/ m_state = "Loaded" /\ <<"IDLE", "all">> \in m_flags
    /\ m_cur_buf_num[PortOf(b)] < max_count(PortOf(b))

(* Mutant: the slot of the first buffer is taken again.                    *)
SlotFor_First(p) == 1

SlotFor(p) == m_cur_buf_num[p] + 1

(* The pending bits a call clears, and the completions it posts for them.  *)
UseClears(b) ==
    LET num == [m_cur_buf_num EXCEPT ![PortOf(b)] = @ + 1] IN
    {f \in m_flags :
       \/ f = <<"ENABLE", PortOf(b)>> /\ num[PortOf(b)] = max_count(PortOf(b))
       \/ f = <<"IDLE", "all">> /\ \A q \in Ports : num[q] = max_count(q)}

PostIf(done, e, cmd, arg) ==
    IF done THEN post_event(e, "COMMAND_DONE", cmd, arg) ELSE e

use_buffer(b) ==
    LET p == PortOf(b) IN
    /\ m_omx_bufhead' = [m_omx_bufhead EXCEPT ![p][SlotFor(p)] = b]
    /\ m_cur_buf_num' = [m_cur_buf_num EXCEPT ![p] = @ + 1]
    /\ m_flags' = m_flags \ UseClears(b)
    /\ ev' = PostIf(<<"IDLE", "all">> \in UseClears(b),
                    PostIf(<<"ENABLE", p>> \in UseClears(b), ev,
                           "PortEnable", p),
                    "StateSet", "Idle")

(* free_buffer finishes the command that waits for the port to be empty.   *)
FreeAccepted(b) ==
    /\ \/ m_state \in {"Loaded", "Executing"}
       \/ m_state = "Idle" /\ <<"LOADING", "all">> \in m_flags
    /\ Registered(b)

FreeClears(b) ==
    LET num == [m_cur_buf_num EXCEPT ![PortOf(b)] = @ - 1] IN
    {f \in m_flags :
       \/ f = <<"DISABLE", PortOf(b)>> /\ num[PortOf(b)] = 0
       \/ f = <<"LOADING", "all">> /\ num = Both(0)}

free_buffer(b) ==
    LET p == PortOf(b) IN
    /\ m_omx_bufhead' = [m_omx_bufhead EXCEPT ![p] =
                           [i \in 1..max_count(p) |->
                              IF @[i] = b THEN NULL ELSE @[i]]]
    /\ m_cur_buf_num' = [m_cur_buf_num EXCEPT ![p] = @ - 1]
    /\ m_flags' = m_flags \ FreeClears(b)
    /\ ev' = PostIf(<<"LOADING", "all">> \in FreeClears(b),
                    PostIf(<<"DISABLE", p>> \in FreeClears(b), ev,
                           "PortDisable", p),
                    "StateSet", "Loaded")

(* empty_this_buffer and fill_this_buffer take a registered buffer of an   *)
(* enabled port while the component executes.                              *)
SubmitAccepted(b) ==
    m_state = "Executing" /\ m_port_enabled[PortOf(b)] /\ Registered(b)

-------------------------------------------------------------------------------
(* The event thread.  An id whose entry is gone is ignored; an id that     *)
(* finds an entry of another id throws that entry away.                    *)
Pending == ev.pipe # <<>> /\ toFlush = {}
Found(id) == ev[QueueOf(id)] # <<>> /\ Head(ev[QueueOf(id)]).id = id
Popped(id) == [ev EXCEPT !.pipe = Tail(@), ![QueueOf(id)] = Tail(@)]

EventIgnored ==
    /\ Pending
    /\ LET id == Head(ev.pipe) IN
       /\ ~Found(id)
       /\ ev' = IF ev[QueueOf(id)] = <<>> THEN [ev EXCEPT !.pipe = Tail(@)]
                ELSE Popped(id)
    /\ UNCHANGED <<m_state, m_flags, portVars, headVars, m_cmd_lock, toFlush,
                   drvVars, cb>>

Takes(id) == Pending /\ Head(ev.pipe) = id /\ Found(id)
First(id) == Head(ev[QueueOf(id)])

Bounces(p) == m_port_flushing[p] \/ (p = "out" /\ m_port_reconfig)

(* empty_this_buffer_proxy and fill_this_buffer_proxy.                     *)
SubmitProxy(p) ==
    /\ Takes(This(p))
    /\ LET b == First(This(p)).p1 IN
       IF Bounces(p)
       THEN /\ ev' = post_event(Popped(This(p)), Done(p), b, "empty")
            /\ UNCHANGED drv
       ELSE /\ ev' = Popped(This(p))
            /\ drv' = [drv EXCEPT ![p] = @ \cup {b}]
    /\ UNCHANGED <<m_state, m_flags, portVars, headVars, m_cmd_lock, toFlush,
                   flushReq, msgs, resizes, cb>>

(* empty_buffer_done and fill_buffer_done.                                 *)
DoneLength(p, len) == IF m_port_flushing[p] THEN "empty" ELSE len

GenerateDone(p) ==
    /\ Takes(Done(p))
    /\ LET e == First(Done(p)) IN
       cb' = Append(cb, BufferDone(e.p1, DoneLength(p, e.p2)))
    /\ ev' = Popped(Done(p))
    /\ UNCHANGED <<m_state, m_flags, portVars, headVars, m_cmd_lock, toFlush,
                   drvVars>>

(* return_inbuffers and return_outbuffers empty a queue; the ids of its    *)
(* entries stay in the pipe.                                               *)
Returned(q) == [i \in 1..Len(q) |-> BufferDone(q[i].p1, q[i].p2)]

(* The move to Idle that waits for both flushes.                           *)
BecomesIdle(flushing) ==
    <<"IDLE", "all">> \in m_flags /\ \A p \in Ports : ~flushing[p]

(* Mutant: the returned entries stay in their queue.                       *)
Emptied_Kept(e, p) == e

Emptied(e, p) == [e EXCEPT ![QueueOf(This(p))] = <<>>]

(* Mutant: the port stays in its flush.                                    *)
FlushOver_Never(p) == m_port_flushing

FlushOver(p) == [m_port_flushing EXCEPT ![p] = FALSE]

FlushDone(p) ==
    /\ Takes(FlushId(p))
    /\ LET e == Popped(FlushId(p))
           idle == BecomesIdle(FlushOver(p))
           told == <<"FLUSH", p>> \in m_flags
       IN
       IF ~m_port_flushing[p]
       THEN ev' = e /\ UNCHANGED <<m_port_flushing, m_flags, m_state, cb>>
       ELSE /\ m_port_flushing' = FlushOver(p)
            /\ ev' = Emptied(e, p)
            /\ cb' = cb \o Returned(e[QueueOf(This(p))])
                        \o (IF told THEN <<CmdComplete("Flush", p)>> ELSE <<>>)
                        \o (IF idle THEN <<CmdComplete("StateSet", "Idle")>>
                            ELSE <<>>)
            /\ m_flags' = (m_flags \ {<<"FLUSH", p>>})
                             \ (IF idle THEN {<<"IDLE", "all">>} ELSE {})
            /\ m_state' = IF idle THEN "Idle" ELSE m_state
    /\ UNCHANGED <<m_port_enabled, m_port_reconfig, headVars, m_cmd_lock,
                   toFlush, drvVars>>

StartDone ==
    /\ Takes("START_DONE")
    /\ ev' = Popped("START_DONE")
    /\ IF <<"EXECUTE", "all">> \in m_flags
       THEN /\ m_flags' = m_flags \ {<<"EXECUTE", "all">>}
            /\ m_state' = "Executing"
            /\ cb' = Append(cb, CmdComplete("StateSet", "Executing"))
       ELSE UNCHANGED <<m_flags, m_state, cb>>
    /\ UNCHANGED <<portVars, headVars, m_cmd_lock, toFlush, drvVars>>

StopDone ==
    /\ Takes("STOP_DONE")
    /\ LET e == Popped("STOP_DONE")
           idle == BecomesIdle(m_port_flushing)
       IN
       /\ ev' = Emptied(Emptied(e, "out"), "in")
       /\ cb' = cb \o Returned(e.ftb) \o Returned(e.etb)
                   \o (IF idle THEN <<CmdComplete("StateSet", "Idle")>>
                       ELSE <<>>)
       /\ m_flags' = IF idle THEN m_flags \ {<<"IDLE", "all">>} ELSE m_flags
       /\ m_state' = IF idle THEN "Idle" ELSE m_state
    /\ UNCHANGED <<portVars, headVars, m_cmd_lock, toFlush, drvVars>>

(* generate_command_done.                                                  *)
CommandDone ==
    /\ Takes("COMMAND_DONE")
    /\ LET e == First("COMMAND_DONE") IN
       /\ cb' = Append(cb, CmdComplete(e.p1, e.p2))
       /\ m_state' = IF e.p1 = "StateSet" THEN e.p2 ELSE m_state
       /\ m_port_reconfig' = (m_port_reconfig /\ e.p1 # "PortEnable")
    /\ ev' = Popped("COMMAND_DONE")
    /\ UNCHANGED <<m_flags, m_port_enabled, m_port_flushing, headVars,
                   m_cmd_lock, toFlush, drvVars>>

ImageSizeChange ==
    /\ Takes("IMAGE_SIZE_CHANGE")
    /\ m_port_reconfig' = TRUE
    /\ cb' = Append(cb, SettingsChanged)
    /\ ev' = Popped("IMAGE_SIZE_CHANGE")
    /\ UNCHANGED <<m_state, m_flags, m_port_enabled, m_port_flushing, headVars,
                   m_cmd_lock, toFlush, drvVars>>

-------------------------------------------------------------------------------
(* send_command_proxy: the commands, which end with sem_post.              *)
TakesCommand(cmd, arg) ==
    /\ Takes("COMMAND")
    /\ First("COMMAND").p1 = cmd /\ First("COMMAND").p2 = arg
    /\ m_cmd_lock' = m_cmd_lock + 1

Full == \A p \in Ports : m_cur_buf_num[p] = max_count(p)
Empty == m_cur_buf_num = Both(0)

(* Loaded and Idle: the move is made when the ports are full, or empty.    *)
StateSetMemory(from, to, ready, flag) ==
    /\ TakesCommand("StateSet", to) /\ m_state = from
    /\ IF ready
       THEN /\ ev' = post_event(Popped("COMMAND"), "COMMAND_DONE", "StateSet",
                                to)
            /\ UNCHANGED m_flags
       ELSE /\ ev' = Popped("COMMAND")
            /\ m_flags' = m_flags \cup {<<flag, "all">>}
    /\ UNCHANGED <<m_state, portVars, headVars, toFlush, drvVars, cb>>

StateSetExecuting ==
    /\ TakesCommand("StateSet", "Executing") /\ m_state = "Idle"
    /\ ev' = Popped("COMMAND")
    /\ msgs' = Append(msgs, [code |-> "START_DONE", buf |-> NULL, len |-> "empty"])
    /\ m_flags' = m_flags \cup {<<"EXECUTE", "all">>}
    /\ UNCHANGED <<m_state, portVars, headVars, toFlush, drv, flushReq,
                   resizes, cb>>

(* Executing to Idle: stop the channel, let the client go on, then flush.  *)
StateSetIdle ==
    /\ TakesCommand("StateSet", "Idle") /\ m_state = "Executing"
    /\ ev' = Popped("COMMAND")
    /\ msgs' = Append(msgs, [code |-> "STOP_DONE", buf |-> NULL, len |-> "empty"])
    /\ m_flags' = m_flags \cup {<<"IDLE", "all">>}
    /\ toFlush' = Ports
    /\ UNCHANGED <<m_state, portVars, headVars, drv, flushReq, resizes, cb>>

handle_command_state_set ==
    \/ StateSetMemory("Loaded", "Idle", Full, "IDLE")
    \/ StateSetMemory("Idle", "Loaded", Empty, "LOADING")
    \/ StateSetExecuting
    \/ StateSetIdle

(* OMX_CommandFlush of OMX_ALL.                                            *)
handle_command_flush ==
    /\ TakesCommand("Flush", "all")
    /\ ev' = Popped("COMMAND")
    /\ m_flags' = m_flags \cup {<<"FLUSH", p>> : p \in Ports}
    /\ m_port_flushing' = Both(TRUE)
    /\ flushReq' = Ports
    /\ UNCHANGED <<m_state, m_port_enabled, m_port_reconfig, headVars, toFlush,
                   drv, msgs, resizes, cb>>

(* Mutant: the flush of a disabled port is reported like another.          *)
DisableFlags_Flush(p) == {<<"DISABLE", p>>, <<"FLUSH", p>>}

DisableFlags(p) == {<<"DISABLE", p>>}

handle_command_port_disable(p) ==
    /\ TakesCommand("PortDisable", p)
    /\ m_port_enabled' = [m_port_enabled EXCEPT ![p] = FALSE]
    /\ IF m_port_enabled[p] /\ m_cur_buf_num[p] # 0
       THEN /\ ev' = Popped("COMMAND")
            /\ m_flags' = m_flags \cup DisableFlags(p)
            /\ toFlush' = IF m_state = "Executing" THEN {p} ELSE {}
       ELSE /\ ev' = post_event(Popped("COMMAND"), "COMMAND_DONE",
                                "PortDisable", p)
            /\ UNCHANGED <<m_flags, toFlush>>
    /\ UNCHANGED <<m_state, m_port_flushing, m_port_reconfig, headVars,
                   drvVars, cb>>

handle_command_port_enable(p) ==
    /\ TakesCommand("PortEnable", p)
    /\ m_port_enabled' = [m_port_enabled EXCEPT ![p] = TRUE]
    /\ IF ~m_port_enabled[p] /\ m_cur_buf_num[p] # max_count(p)
       THEN /\ ev' = Popped("COMMAND")
            /\ m_flags' = m_flags \cup {<<"ENABLE", p>>}
       ELSE /\ ev' = post_event(Popped("COMMAND"), "COMMAND_DONE",
                                "PortEnable", p)
            /\ UNCHANGED m_flags
    /\ UNCHANGED <<m_state, m_port_flushing, m_port_reconfig, headVars,
                   toFlush, drvVars, cb>>

(* omx_flush_port, after the client was let go.                            *)
omx_flush_port ==
    /\ toFlush # {}
    /\ m_port_flushing' = [p \in Ports |-> m_port_flushing[p] \/ p \in toFlush]
    /\ flushReq' = flushReq \cup toFlush
    /\ toFlush' = {}
    /\ UNCHANGED <<m_state, m_flags, m_port_enabled, m_port_reconfig, headVars,
                   ev, m_cmd_lock, drv, msgs, resizes, cb>>

event_thread ==
    \/ EventIgnored
    \/ \E p \in Ports : SubmitProxy(p) \/ GenerateDone(p) \/ FlushDone(p)
    \/ StartDone \/ StopDone \/ CommandDone \/ ImageSizeChange
    \/ handle_command_state_set \/ handle_command_flush
    \/ handle_command_port_disable("out") \/ handle_command_port_enable("out")
    \/ omx_flush_port

-------------------------------------------------------------------------------
(* The message thread: message_process.  A buffer that is not registered   *)
(* is answered with an error and not given back.                           *)
message_process ==
    /\ msgs # <<>>
    /\ LET m == Head(msgs) IN
       ev' = IF m.code \in {"EBD", "FBD"}
             THEN IF Registered(m.buf)
                  THEN post_event(ev, m.code, m.buf,
                                  DoneLength(PortOf(m.buf), m.len))
                  ELSE ev
             ELSE post_event(ev, m.code, NULL, "empty")
    /\ msgs' = Tail(msgs)
    /\ UNCHANGED <<m_state, m_flags, portVars, headVars, m_cmd_lock, toFlush,
                   drv, flushReq, resizes, cb>>

(* The driver gives a buffer back.  A stream comes back empty.  A frame    *)
(* that is flushed is empty, one that VPSS was about to report may not be. *)
ReturnedLengths(p) ==
    CASE p = "in" -> {"empty"}
      [] p = "out" /\ p \in flushReq -> {"empty", "data"}
      [] OTHER -> {"data"}

DriverReturns(p) ==
    /\ \E b \in drv[p], len \in ReturnedLengths(p) :
         /\ drv' = [drv EXCEPT ![p] = @ \ {b}]
         /\ msgs' = Append(msgs, [code |-> Done(p), buf |-> b, len |-> len])
    /\ UNCHANGED <<m_state, m_flags, portVars, headVars, ev, m_cmd_lock,
                   toFlush, flushReq, resizes, cb>>

(* It answers a flush when the last buffer of the port is back.            *)
DriverFlushed(p) ==
    /\ p \in flushReq /\ drv[p] = {}
    /\ flushReq' = flushReq \ {p}
    /\ msgs' = Append(msgs, [code |-> FlushId(p), buf |-> NULL, len |-> "empty"])
    /\ UNCHANGED <<m_state, m_flags, portVars, headVars, ev, m_cmd_lock,
                   toFlush, drv, resizes, cb>>

(* VPSS asks for a frame of another size.  It does so for a picture, and   *)
(* streams are decoded only while the component executes.                  *)
DriverResizes ==
    /\ resizes < MaxResize /\ m_state = "Executing"
    /\ resizes' = resizes + 1
    /\ msgs' = Append(msgs, [code |-> "IMAGE_SIZE_CHANGE", buf |-> NULL,
                             len |-> "empty"])
    /\ UNCHANGED <<m_state, m_flags, portVars, headVars, ev, m_cmd_lock,
                   toFlush, drv, flushReq, cb>>
===============================================================================
