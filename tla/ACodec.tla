-------------------------------- MODULE ACodec --------------------------------
(***************************************************************************)
(* The media codec client (ACodec.cpp) of the video decoder component,     *)
(* and what MediaCodec asks of it.                                         *)
(*                                                                         *)
(* ACodec is one thread.  It takes one message at a time: a request of     *)
(* MediaCodec, a reply about a buffer, or a callback of the component.     *)
(* The OMX calls a handler makes are listed in calls and made one by one,  *)
(* so the component's threads run between them; the next message waits     *)
(* until all are made.  A CHECK that fails ends the process: such a step   *)
(* is not taken, and ChecksHold and CallsAccepted say there is none.       *)
(*                                                                         *)
(* Left out: native windows and meta-data buffers, end of stream, errors,  *)
(* and release, which drops the component.                                 *)
(***************************************************************************)
EXTENDS OmxVdecComponent, KernelList, SequencesExt

CONSTANTS
    MaxFlush,      \* bound: flushes MediaCodec asks for
    MaxEvents,     \* bound: size changes and flushes together
    MaxSession     \* bound: how often it starts the component

ASSUME CodecAssumption ==
    /\ MaxFlush \in Nat /\ MaxEvents \in Nat /\ MaxSession \in Nat
    /\ InBufs # {} /\ OutBufs # {}

VARIABLES
    acodec,             \* ACodec's state
    calls,              \* the OMX calls its handler has still to make
    mBuffers, mStatus,  \* the buffers it has; who owns each
    mActive,            \* ExecutingState::mActive
    mFlushComplete,     \* FlushingState::mFlushComplete, as a set
    mComponentNowIdle,
    mDeferredQueue,
    mState,             \* MediaCodec's state
    requests,           \* its messages to ACodec
    flushes, sessions   \* what the bounds count

callVars   == <<mBuffers, mStatus>>
modeVars   == <<mActive, mFlushComplete, mComponentNowIdle>>
userVars   == <<mState, requests, flushes, sessions>>
codecVars  == <<acodec, calls, callVars, modeVars, mDeferredQueue, userVars>>
vars       == <<compVars, codecVars>>

Init ==
    /\ ComponentInit
    /\ acodec = "Loaded" /\ calls = <<>>
    /\ mBuffers = Both(<<>>) /\ mStatus = [b \in Bufs |-> "US"]
    /\ mActive = FALSE /\ mFlushComplete = {} /\ mComponentNowIdle = FALSE
    /\ mDeferredQueue = <<>>
    /\ mState = "CONFIGURED" /\ requests = <<>>
    /\ flushes = 0 /\ sessions = 0

-------------------------------------------------------------------------------
(* The calls a handler makes, in order.                                    *)
Call(op, x, y) == [op |-> op, x |-> x, y |-> y]
sendCommand(cmd, arg) == <<Call("send", cmd, arg)>>
ForAll(op, bs) == [i \in 1..Len(bs) |-> Call(op, bs[i], NULL)]

allocateBuffersOnPort(p) == ForAll("use", SetToSeq(BufsOf(p)))
freeBuffersOnPort(p) == ForAll("free", Reverse(mBuffers[p]))

(* Mutant: a buffer that is being drained is freed too.                    *)
NotOwnedByComponent_Drained(b) == mStatus[b] # "COMPONENT"

NotOwnedByComponent(b) == mStatus[b] \notin {"COMPONENT", "DOWNSTREAM"}

freeOutputBuffersNotOwnedByComponent ==
    ForAll("free_not_owned", Reverse(mBuffers["out"]))

submitOutputBuffers == ForAll("fill", mBuffers["out"])

(* The buffers of a port: the entries of a Vector, which removeAt closes   *)
(* up like list_del does.                                                  *)
Owned(p) == Entries(mBuffers[p])

allYourBuffersAreBelongToUs ==
    \A p \in Ports : \A b \in Owned(p) : mStatus[b] = "US"

(* Making the first of the calls.                                          *)
Makes(op) == calls # <<>> /\ Head(calls).op = op

UseBuffer ==
    /\ Makes("use") /\ UseAccepted(Head(calls).x)
    /\ LET b == Head(calls).x IN
       /\ use_buffer(b)
       /\ mBuffers' = [mBuffers EXCEPT ![PortOf(b)] = Append(@, b)]
       /\ mStatus' = [mStatus EXCEPT ![b] = "US"]
    /\ calls' = Tail(calls)
    /\ UNCHANGED <<m_state, portVars, m_cmd_lock, toFlush, drvVars, cb, acodec,
                   modeVars, mDeferredQueue, userVars>>

(* The loop of freeOutputBuffersNotOwnedByComponent passes over a buffer   *)
(* that is owned.                                                          *)
Frees ==
    \/ Makes("free")
    \/ Makes("free_not_owned") /\ NotOwnedByComponent(Head(calls).x)

FreeBuffer ==
    /\ Frees /\ FreeAccepted(Head(calls).x)
    /\ mStatus[Head(calls).x] = "US"
    /\ LET b == Head(calls).x IN
       /\ free_buffer(b)
       /\ mBuffers' = [mBuffers EXCEPT ![PortOf(b)] = list_del(b, @)]
    /\ calls' = Tail(calls)
    /\ UNCHANGED <<m_state, portVars, m_cmd_lock, toFlush, drvVars, cb, acodec,
                   mStatus, modeVars, mDeferredQueue, userVars>>

PassOver ==
    /\ Makes("free_not_owned") /\ ~Frees
    /\ calls' = Tail(calls)
    /\ UNCHANGED <<compVars, acodec, callVars, modeVars, mDeferredQueue,
                   userVars>>

SubmitOk(b) == SubmitAccepted(b) /\ mStatus[b] = "US"

FillBuffer ==
    /\ Makes("fill") /\ SubmitOk(Head(calls).x)
    /\ LET b == Head(calls).x IN
       /\ ev' = post_event(ev, "FTB", b, "empty")
       /\ mStatus' = [mStatus EXCEPT ![b] = "COMPONENT"]
    /\ calls' = Tail(calls)
    /\ UNCHANGED <<m_state, m_flags, portVars, headVars, m_cmd_lock, toFlush,
                   drvVars, cb, acodec, mBuffers, modeVars, mDeferredQueue,
                   userVars>>

(* getMoreInputDataIfPossible asks for the last input buffer that is ours. *)
getMoreInputDataIfPossible(status) ==
    LET ours == {i \in 1..Len(mBuffers["in"]) :
                   status[mBuffers["in"][i]] = "US"}
    IN IF ours = {} THEN status
       ELSE [status EXCEPT ![mBuffers["in"][Max(ours)]] = "UPSTREAM"]

EmptyBuffer ==
    /\ Makes("empty") /\ SubmitOk(Head(calls).x)
    /\ LET b == Head(calls).x IN
       /\ ev' = post_event(ev, "ETB", b, "data")
       /\ mStatus' = getMoreInputDataIfPossible(
                        [mStatus EXCEPT ![b] = "COMPONENT"])
    /\ calls' = Tail(calls)
    /\ UNCHANGED <<m_state, m_flags, portVars, headVars, m_cmd_lock, toFlush,
                   drvVars, cb, acodec, mBuffers, modeVars, mDeferredQueue,
                   userVars>>

(* send_command posts the command and waits until the event thread has     *)
(* taken it.                                                               *)
SendCommand ==
    /\ Makes("send")
    /\ ev' = post_event(ev, "COMMAND", Head(calls).x, Head(calls).y)
    /\ calls' = <<Call("sem_wait", NULL, NULL)>> \o Tail(calls)
    /\ UNCHANGED <<m_state, m_flags, portVars, headVars, m_cmd_lock, toFlush,
                   drvVars, cb, acodec, callVars, modeVars, mDeferredQueue,
                   userVars>>

(* Mutant: the semaphore is not taken.                                     *)
CommandTaken_Kept ==
    /\ Makes("sem_wait") /\ m_cmd_lock > 0
    /\ calls' = Tail(calls)
    /\ UNCHANGED <<compVars, acodec, callVars, modeVars, mDeferredQueue,
                   userVars>>

CommandTaken ==
    /\ Makes("sem_wait") /\ m_cmd_lock > 0
    /\ m_cmd_lock' = m_cmd_lock - 1
    /\ calls' = Tail(calls)
    /\ UNCHANGED <<m_state, m_flags, portVars, headVars, ev, toFlush, drvVars,
                   cb, acodec, callVars, modeVars, mDeferredQueue, userVars>>

OmxCall ==
    \/ UseBuffer \/ FreeBuffer \/ PassOver \/ FillBuffer \/ EmptyBuffer
    \/ SendCommand \/ CommandTaken

-------------------------------------------------------------------------------
(* Entering Executing handles the deferred messages before any other.      *)
Ready == calls = <<>> /\ (acodec = "Executing" => mDeferredQueue = <<>>)

Enter(state) == acodec' = state /\ UNCHANGED modeVars

(* ExecutingState::resume.                                                 *)
ResumeOk == mBuffers["in"] # <<>> /\ mStatus[mBuffers["in"][1]] = "US"

Resume ==
    IF mActive THEN UNCHANGED <<calls, mStatus, mActive>>
    ELSE /\ ResumeOk
         /\ calls' = submitOutputBuffers
         /\ mStatus' = [mStatus EXCEPT ![mBuffers["in"][1]] = "UPSTREAM"]
         /\ mActive' = TRUE

(* ExecutingState::onMessageReceived, and its PortSettingsChanged.         *)
ExecutingHandles(msg) ==
    \/ /\ msg = "shutdown"
       /\ calls' = sendCommand("StateSet", "Idle")
       /\ acodec' = "ExecutingToIdle"
       /\ mActive' = FALSE /\ mComponentNowIdle' = FALSE
       /\ UNCHANGED <<mFlushComplete, mStatus>>
    \/ /\ msg = "flush"
       /\ calls' = sendCommand("Flush", "all")
       /\ acodec' = "Flushing"
       /\ mActive' = FALSE /\ mFlushComplete' = {}
       /\ UNCHANGED <<mComponentNowIdle, mStatus>>
    \/ /\ msg = "resume" /\ Resume
       /\ UNCHANGED <<acodec, mFlushComplete, mComponentNowIdle>>
    \/ /\ msg = "settings"
       /\ calls' = sendCommand("PortDisable", "out")
                      \o freeOutputBuffersNotOwnedByComponent
       /\ Enter("OutputPortSettingsChanged")
       /\ UNCHANGED mStatus

(* The list is handed over as a whole, each message to the state that the  *)
(* ones before it have led to: a reconfiguration or a flush defers what    *)
(* comes after it again, but a reconfiguration has no use for another      *)
(* change of the settings.                                                 *)
DeferredAgain(msg, rest) ==
    IF msg = "settings" THEN SelectSeq(rest, LAMBDA m : m # "settings")
    ELSE rest

processDeferredMessages ==
    /\ acodec = "Executing" /\ calls = <<>> /\ mDeferredQueue # <<>>
    /\ ExecutingHandles(Head(mDeferredQueue))
    /\ mDeferredQueue' = DeferredAgain(Head(mDeferredQueue),
                                       Tail(mDeferredQueue))
    /\ UNCHANGED <<compVars, mBuffers, userVars>>

Starting == {"LoadedToIdle", "IdleToExecuting"}

(* A stop before the start finds nothing to shut down.                     *)
LoadedShutdown ==
    /\ acodec = "Loaded" /\ mState' = "CONFIGURED"
    /\ UNCHANGED <<acodec, calls, mStatus, modeVars, mDeferredQueue>>

(* A request, in each state it can arrive in.                              *)
OnRequest ==
    /\ Ready /\ requests # <<>>
    /\ LET msg == Head(requests) IN
       \/ /\ acodec = "Executing" /\ ExecutingHandles(msg)
          /\ requests' = Tail(requests)
          /\ UNCHANGED <<mDeferredQueue, mState>>
       \/ /\ acodec = "Loaded" /\ msg = "start"
          /\ calls' = sendCommand("StateSet", "Idle")
                         \o allocateBuffersOnPort("in")
                         \o allocateBuffersOnPort("out")
          /\ Enter("LoadedToIdle")
          /\ requests' = Tail(requests)
          /\ UNCHANGED <<mStatus, mDeferredQueue, mState>>
       \/ /\ msg = "shutdown" /\ LoadedShutdown
          /\ requests' = Tail(requests)
       \/ /\ \/ acodec = "OutputPortSettingsChanged"
             \/ acodec \in Starting /\ msg = "shutdown"
          /\ mDeferredQueue' = Append(mDeferredQueue, msg)
          /\ requests' = Tail(requests)
          /\ UNCHANGED <<acodec, calls, mStatus, modeVars, mState>>
       \/ /\ acodec \in Starting /\ msg = "flush"
          /\ mState' = "STARTED"
          /\ requests' = Append(Tail(requests), "resume")
          /\ UNCHANGED <<acodec, calls, mStatus, modeVars, mDeferredQueue>>
       \/ /\ acodec \in Starting /\ msg = "resume"
          /\ requests' = Tail(requests)
          /\ UNCHANGED <<acodec, calls, mStatus, modeVars, mDeferredQueue,
                         mState>>
    /\ UNCHANGED <<compVars, mBuffers, flushes, sessions>>

-------------------------------------------------------------------------------
(* changeStateIfWeOwnAllBuffers, of the two states that wait for buffers.  *)
FlushCompleted ==
    /\ calls' = <<>> /\ acodec' = "Executing"
    /\ mState' = "STARTED" /\ requests' = Append(requests, "resume")

ComponentIdle ==
    /\ calls' = sendCommand("StateSet", "Loaded")
                   \o freeBuffersOnPort("in") \o freeBuffersOnPort("out")
    /\ acodec' = "IdleToLoaded"
    /\ UNCHANGED <<mState, requests>>

Stay == UNCHANGED <<calls, acodec, mState, requests>>

(* Mutant: a flush is complete when one port is.                           *)
AllFlushed_One(done) == done # {}

AllFlushed(done) == done = Ports

IfWeOwn(all, done, idle) ==
    IF acodec = "Flushing" /\ AllFlushed(done) /\ all THEN FlushCompleted
    ELSE IF acodec = "ExecutingToIdle" /\ idle /\ all THEN ComponentIdle
    ELSE Stay

(* The replies of MediaCodec.  While it is STARTED an input buffer comes   *)
(* back filled; a flush or a stop gives the buffers back after its         *)
(* request.                                                                *)
PortMode(p) ==
    CASE acodec = "Executing" -> "RESUBMIT"
      [] acodec = "OutputPortSettingsChanged" ->
            IF p = "in" THEN "RESUBMIT" ELSE "FREE"
      [] OTHER -> "KEEP"

MediaCodecReplies == Ready /\ (mState # "STARTED" => requests = <<>>)

WeOwnAllWith(status) ==
    \A p \in Ports : \A b \in Owned(p) : status[b] = "US"

(* Mutant: an unfilled buffer leaves the states that wait for it as they   *)
(* are.                                                                    *)
onInputBufferFilled_Waits(b) ==
    /\ MediaCodecReplies /\ mStatus[b] = "UPSTREAM"
    /\ mStatus' = [mStatus EXCEPT ![b] = "US"]
    /\ IF mState = "STARTED" /\ PortMode("in") = "RESUBMIT"
       THEN calls' = <<Call("empty", b, NULL)>>
            /\ UNCHANGED <<acodec, mState, requests>>
       ELSE Stay
    /\ UNCHANGED <<compVars, mBuffers, modeVars, mDeferredQueue, flushes,
                   sessions>>

onInputBufferFilled(b) ==
    /\ MediaCodecReplies /\ mStatus[b] = "UPSTREAM"
    /\ mStatus' = [mStatus EXCEPT ![b] = "US"]
    /\ IF mState = "STARTED" /\ PortMode("in") = "RESUBMIT"
       THEN calls' = <<Call("empty", b, NULL)>>
            /\ UNCHANGED <<acodec, mState, requests>>
       ELSE IfWeOwn(WeOwnAllWith(mStatus'), mFlushComplete, mComponentNowIdle)
    /\ UNCHANGED <<compVars, mBuffers, modeVars, mDeferredQueue, flushes,
                   sessions>>

(* Mutant: a buffer that comes back while the port is disabled is kept.    *)
Disposes_Kept(b) ==
    IF PortMode("out") = "RESUBMIT" THEN <<Call("fill", b, NULL)>> ELSE <<>>

Disposes(b) ==
    CASE PortMode("out") = "RESUBMIT" -> <<Call("fill", b, NULL)>>
      [] PortMode("out") = "FREE" -> <<Call("free", b, NULL)>>
      [] OTHER -> <<>>

onOutputBufferDrained(b) ==
    /\ MediaCodecReplies /\ mStatus[b] = "DOWNSTREAM"
    /\ mStatus' = [mStatus EXCEPT ![b] = "US"]
    /\ IF PortMode("out") = "KEEP"
       THEN IfWeOwn(WeOwnAllWith(mStatus'), mFlushComplete, mComponentNowIdle)
       ELSE calls' = Disposes(b) /\ UNCHANGED <<acodec, mState, requests>>
    /\ UNCHANGED <<compVars, mBuffers, modeVars, mDeferredQueue, flushes,
                   sessions>>

-------------------------------------------------------------------------------
(* The callbacks of the component, in order.                               *)
OnCallback(what) ==
    /\ Ready /\ cb # <<>> /\ Head(cb).what = what
    /\ cb' = Tail(cb)
    /\ UNCHANGED <<m_state, m_flags, portVars, headVars, ev, m_cmd_lock,
                   toFlush, drvVars, mBuffers, flushes, sessions>>

HasBuffer(b) == b \in Owned(PortOf(b)) /\ mStatus[b] = "COMPONENT"

onOMXEmptyBufferDone ==
    /\ OnCallback("BUFFER_DONE") /\ Head(cb).p1 \in InBufs
    /\ HasBuffer(Head(cb).p1)
    /\ mStatus' = [mStatus EXCEPT ![Head(cb).p1] =
                     IF PortMode("in") = "RESUBMIT" THEN "UPSTREAM" ELSE "US"]
    /\ UNCHANGED <<acodec, calls, modeVars, mDeferredQueue, mState, requests>>

(* An empty frame is submitted again at once, another is drained.          *)
onOMXFillBufferDone ==
    /\ OnCallback("BUFFER_DONE") /\ Head(cb).p1 \in OutBufs
    /\ HasBuffer(Head(cb).p1)
    /\ LET b == Head(cb).p1
           drains == PortMode("out") = "RESUBMIT" /\ Head(cb).p2 = "data"
       IN
       /\ mStatus' = [mStatus EXCEPT ![b] = IF drains THEN "DOWNSTREAM"
                                            ELSE "US"]
       /\ calls' = IF drains THEN <<>> ELSE Disposes(b)
    /\ UNCHANGED <<acodec, modeVars, mDeferredQueue, mState, requests>>

(* OMX_EventPortSettingsChanged: a flush defers it, other states than      *)
(* Executing have no use for it.                                           *)
OnSettingsChanged ==
    /\ OnCallback("SETTINGS")
    /\ \/ acodec = "Executing" /\ ExecutingHandles("settings")
          /\ UNCHANGED mDeferredQueue
       \/ /\ acodec = "Flushing"
          /\ mDeferredQueue' = Append(mDeferredQueue, "settings")
          /\ UNCHANGED <<acodec, calls, mStatus, modeVars>>
       \/ /\ acodec \notin {"Executing", "Flushing"}
          /\ UNCHANGED <<acodec, calls, mStatus, modeVars, mDeferredQueue>>
    /\ UNCHANGED <<mState, requests>>

Completed(cmd, arg) == Head(cb).p1 = cmd /\ Head(cb).p2 = arg

(* OMX_EventCmdComplete, by state.                                         *)
LoadedToIdleDone ==
    /\ acodec = "LoadedToIdle" /\ OnCallback("CMD_COMPLETE")
    /\ Completed("StateSet", "Idle")
    /\ calls' = sendCommand("StateSet", "Executing")
    /\ Enter("IdleToExecuting")
    /\ UNCHANGED <<mStatus, mDeferredQueue, mState, requests>>

IdleToExecutingDone ==
    /\ acodec = "IdleToExecuting" /\ OnCallback("CMD_COMPLETE")
    /\ Completed("StateSet", "Executing")
    /\ Resume /\ acodec' = "Executing"
    /\ UNCHANGED <<mFlushComplete, mComponentNowIdle, mDeferredQueue, mState,
                   requests>>

OutputPortDisabled ==
    /\ acodec = "OutputPortSettingsChanged" /\ OnCallback("CMD_COMPLETE")
    /\ Completed("PortDisable", "out") /\ mBuffers["out"] = <<>>
    /\ calls' = sendCommand("PortEnable", "out")
                   \o allocateBuffersOnPort("out")
    /\ UNCHANGED <<acodec, mStatus, modeVars, mDeferredQueue, mState, requests>>

OutputPortEnabled ==
    /\ acodec = "OutputPortSettingsChanged" /\ OnCallback("CMD_COMPLETE")
    /\ Completed("PortEnable", "out")
    /\ calls' = IF mActive THEN submitOutputBuffers ELSE <<>>
    /\ Enter("Executing")
    /\ UNCHANGED <<mStatus, mDeferredQueue, mState, requests>>

ExecutingToIdleDone ==
    /\ acodec = "ExecutingToIdle" /\ OnCallback("CMD_COMPLETE")
    /\ Completed("StateSet", "Idle")
    /\ mComponentNowIdle' = TRUE
    /\ IfWeOwn(allYourBuffersAreBelongToUs, {}, TRUE)
    /\ UNCHANGED <<mStatus, mActive, mFlushComplete, mDeferredQueue>>

(* LoadedState::stateEntered tells MediaCodec that the shutdown is done.   *)
IdleToLoadedDone ==
    /\ acodec = "IdleToLoaded" /\ OnCallback("CMD_COMPLETE")
    /\ Completed("StateSet", "Loaded")
    /\ Enter("Loaded") /\ mState' = "CONFIGURED"
    /\ UNCHANGED <<calls, mStatus, mDeferredQueue, requests>>

PortFlushed(p) ==
    /\ acodec = "Flushing" /\ OnCallback("CMD_COMPLETE")
    /\ Completed("Flush", p) /\ p \notin mFlushComplete
    /\ mFlushComplete' = mFlushComplete \cup {p}
    /\ IfWeOwn(allYourBuffersAreBelongToUs, mFlushComplete', FALSE)
    /\ UNCHANGED <<mStatus, mActive, mComponentNowIdle, mDeferredQueue>>

OnCmdComplete ==
    \/ LoadedToIdleDone \/ IdleToExecutingDone
    \/ OutputPortDisabled \/ OutputPortEnabled
    \/ ExecutingToIdleDone \/ IdleToLoadedDone
    \/ \E p \in Ports : PortFlushed(p)

-------------------------------------------------------------------------------
(* MediaCodec: the output buffers being allocated makes it STARTED; then   *)
(* its user may flush.  It may stop then, or before it starts.             *)
(* Configuring again after a stop is part of the next start.               *)
Asks(state, msg) ==
    /\ mState' = state /\ requests' = Append(requests, msg)
    /\ UNCHANGED <<compVars, acodec, calls, callVars, modeVars,
                   mDeferredQueue>>

UserStarts ==
    /\ mState = "CONFIGURED" /\ sessions < MaxSession
    /\ sessions' = sessions + 1 /\ flushes' = flushes
    /\ Asks("STARTING", "start")

BuffersAllocated ==
    /\ mState = "STARTING" /\ Owned("out") = OutBufs
    /\ mState' = "STARTED"
    /\ UNCHANGED <<compVars, acodec, calls, callVars, modeVars, mDeferredQueue,
                   requests, flushes, sessions>>

UserFlushes ==
    /\ mState = "STARTED"
    /\ flushes < MaxFlush /\ resizes + flushes < MaxEvents
    /\ flushes' = flushes + 1 /\ sessions' = sessions
    /\ Asks("FLUSHING", "flush")

UserStops ==
    /\ mState \in {"CONFIGURED", "STARTED"}
    /\ UNCHANGED <<flushes, sessions>>
    /\ Asks("STOPPING", "shutdown")

-------------------------------------------------------------------------------
Component ==
    /\ \/ event_thread \/ message_process
       \/ \E p \in Ports : DriverReturns(p) \/ DriverFlushed(p)
       \/ DriverResizes /\ resizes + flushes < MaxEvents
    /\ UNCHANGED codecVars

OnComponent ==
    onOMXEmptyBufferDone \/ onOMXFillBufferDone \/ OnSettingsChanged
    \/ OnCmdComplete

Next ==
    \/ Component
    \/ OmxCall \/ processDeferredMessages \/ OnRequest \/ OnComponent
    \/ \E b \in InBufs : onInputBufferFilled(b)
    \/ \E b \in OutBufs : onOutputBufferDrained(b)
    \/ BuffersAllocated \/ UserStarts \/ UserFlushes \/ UserStops

Spec == Init /\ [][Next]_vars

(* The event and message threads run, and the driver gives back what it    *)
(* flushes.  It answers a flush of the input port; that of the output port *)
(* may stay unanswered.  ACodec and MediaCodec go on, and as their loopers *)
(* are queues no message waits for ever; strong fairness says so where     *)
(* other messages can come for ever.                                       *)
FairSpec ==
    /\ Spec
    /\ WF_vars(UNCHANGED codecVars /\ event_thread)
    /\ WF_vars(UNCHANGED codecVars /\ message_process)
    /\ WF_vars(/\ UNCHANGED codecVars
               /\ \/ "in" \in flushReq /\ DriverReturns("in")
                  \/ DriverFlushed("in"))
    /\ WF_vars("out" \in flushReq /\ UNCHANGED codecVars /\ DriverReturns("out"))
    /\ WF_vars(OmxCall \/ processDeferredMessages \/ OnComponent)
    /\ WF_vars(BuffersAllocated \/ \E b \in InBufs : onInputBufferFilled(b))
    /\ SF_vars(OnRequest)
    /\ \A b \in OutBufs : SF_vars(onOutputBufferDrained(b))

-------------------------------------------------------------------------------
(* Every variable has its type.                                            *)
TypeOK ==
    /\ m_state \in {"Loaded", "Idle", "Executing"}
    /\ m_flags \subseteq ({"IDLE", "LOADING", "EXECUTE"} \X {"all"})
                    \cup ({"FLUSH", "ENABLE", "DISABLE"} \X Ports)
    /\ m_port_enabled \in [Ports -> BOOLEAN]
    /\ m_port_flushing \in [Ports -> BOOLEAN] /\ m_port_reconfig \in BOOLEAN
    /\ m_cur_buf_num \in [Ports -> 0..Cardinality(Bufs)]
    /\ m_cmd_lock \in 0..1 /\ toFlush \subseteq Ports
    /\ drv \in [Ports -> SUBSET Bufs] /\ flushReq \subseteq Ports
    /\ acodec \in {"Loaded", "LoadedToIdle", "IdleToExecuting", "Executing",
                   "OutputPortSettingsChanged", "Flushing", "ExecutingToIdle",
                   "IdleToLoaded"}
    /\ mBuffers \in [Ports -> Seq(Bufs)]
    /\ mStatus \in [Bufs -> {"US", "COMPONENT", "UPSTREAM", "DOWNSTREAM"}]
    /\ mActive \in BOOLEAN /\ mComponentNowIdle \in BOOLEAN
    /\ mFlushComplete \subseteq Ports
    /\ mState \in {"CONFIGURED", "STARTING", "STARTED", "FLUSHING", "STOPPING"}

(* No call of ACodec is refused: the component is in a state that takes    *)
(* it, the buffer is registered and owned by ACodec.  A refused freeBuffer,*)
(* fillBuffer or emptyBuffer fails a CHECK_EQ, which ends the process; the *)
(* error of useBuffer is returned, and the codec gives up.                 *)
CallsAccepted ==
    calls # <<>> =>
      LET c == Head(calls) IN
      /\ c.op = "use" => UseAccepted(c.x)
      /\ Frees => FreeAccepted(c.x) /\ mStatus[c.x] = "US"
      /\ c.op \in {"fill", "empty"} => SubmitOk(c.x)

AwaitedCommand(c) ==
    CASE acodec = "LoadedToIdle" -> c = CmdComplete("StateSet", "Idle")
      [] acodec = "IdleToExecuting" -> c = CmdComplete("StateSet", "Executing")
      [] acodec = "ExecutingToIdle" -> c = CmdComplete("StateSet", "Idle")
      [] acodec = "IdleToLoaded" -> c = CmdComplete("StateSet", "Loaded")
      [] acodec = "OutputPortSettingsChanged" ->
            \/ c = CmdComplete("PortDisable", "out") /\ mBuffers["out"] = <<>>
            \/ c = CmdComplete("PortEnable", "out")
      [] acodec = "Flushing" ->
            \E p \in Ports \ mFlushComplete : c = CmdComplete("Flush", p)
      [] OTHER -> FALSE

(* Every callback is one that ACodec's state expects: a buffer it had      *)
(* given to the component, or the completion it waits for, with all output *)
(* buffers freed when the port is disabled.  And an ACodec that is not     *)
(* active has its first input buffer when it resumes.                      *)
ChecksHold ==
    /\ Ready /\ cb # <<>> =>
         /\ Head(cb).what = "BUFFER_DONE" => HasBuffer(Head(cb).p1)
         /\ Head(cb).what = "CMD_COMPLETE" => AwaitedCommand(Head(cb))
    /\ calls = <<>> /\ acodec \in {"IdleToExecuting", "Executing"} /\ ~mActive
         => ResumeOk

Count(seq, b) == Cardinality({i \in 1..Len(seq) : seq[i].p1 = b})

(* Where a buffer is: with ACodec or MediaCodec, in a queue of the         *)
(* component, in the driver, in a message or in a callback.                *)
Places(b) ==
    Cardinality({b} \cap drv[PortOf(b)])
    + Cardinality({i \in 1..Len(msgs) : msgs[i].buf = b})
    + Count(ev.etb, b) + Count(ev.ftb, b) + Count(cb, b)
    + (IF b \in Owned(PortOf(b)) /\ mStatus[b] # "COMPONENT" THEN 1 ELSE 0)

(* A buffer is in one place at most, and a freed one in none: the driver   *)
(* never writes to memory that was given back.                             *)
OnePlace == \A b \in Bufs :
               Places(b) <= IF b \in Owned(PortOf(b)) THEN 1 ELSE 0

(* A buffer that ACodec has is somewhere: "some buffers may still be with  *)
(* the component or being drained", none is forgotten.                     *)
NoBufferLost == \A b \in Bufs : b \in Owned(PortOf(b)) => Places(b) >= 1

(* The component's headers are ACodec's buffers, also after some of a port *)
(* were freed and allocated again in other slots.                          *)
HeadsMatch ==
    \A p \in Ports :
      /\ {b \in BufsOf(p) : Registered(b)} = Owned(p)
      /\ m_cur_buf_num[p] = Cardinality(Owned(p))

(* The events whose handling writes m_flags.                               *)
EventWritesFlags ==
    \/ Takes("COMMAND")
    \/ Takes("START_DONE") /\ <<"EXECUTE", "all">> \in m_flags
    \/ Takes("STOP_DONE") /\ BecomesIdle(m_port_flushing)
    \/ \E p \in Ports : /\ Takes(FlushId(p)) /\ m_port_flushing[p]
                        /\ \/ <<"FLUSH", p>> \in m_flags
                           \/ BecomesIdle(FlushOver(p))

(* m_flags is read, changed and written back by two threads without a      *)
(* lock: when a call of the client clears a bit, no event that writes the  *)
(* word is being handled.                                                  *)
FlagsOneWriter ==
    /\ Makes("use") /\ UseClears(Head(calls).x) # {} => ~EventWritesFlags
    /\ Frees /\ FreeClears(Head(calls).x) # {} => ~EventWritesFlags

(* ACodec relies "on flush-complete notifications on the individual port  *)
(* indices": once the component has reported a port flushed, or itself     *)
(* idle, ACodec has the buffers, because their later return does not make  *)
(* it look again.                                                          *)
AnsweredLast ==
    \A b \in Bufs :
      b \in Owned(PortOf(b)) /\ mStatus[b] = "COMPONENT" =>
        /\ acodec = "Flushing" => PortOf(b) \notin mFlushComplete
        /\ acodec = "ExecutingToIdle" => ~mComponentNowIdle

(* The driver may never answer a flush of the output port:                 *)
(* PendingFlushHasFrame of OmxOutputPort is violated.                      *)
FlushUnanswered == <>[]("out" \in flushReq)

(* Start, flush and stop are answered, size changes or not, unless the     *)
(* driver has left a flush unanswered, a size change has lost a buffer, or *)
(* the answer to its flush has been taken for that of a later one.         *)
RequestsAnswered ==
    \/ FlushUnanswered \/ ~[]AnsweredLast
    \/ []<>(mState \in {"STARTED", "CONFIGURED"} \/ ~NoBufferLost)

(* A change of the picture size comes to an end, also a second one, and    *)
(* also if the driver leaves the flush of the disabled port unanswered,    *)
(* unless an earlier one has lost a buffer.                                *)
ReconfigCompletes ==
    []<>(acodec # "OutputPortSettingsChanged" \/ ~NoBufferLost)

(* While ACodec is active and the component is not in a reconfiguration,   *)
(* the decoder gets output buffers: none goes round between bounced        *)
(* submissions and empty frames for ever, unless the driver has left a     *)
(* flush unanswered or a buffer is lost.                                   *)
OutputFlows ==
    \/ FlushUnanswered
    \/ []<>(acodec = "Executing" /\ mActive /\ ~m_port_reconfig =>
                drv["out"] # {} \/ ~NoBufferLost)
===============================================================================
