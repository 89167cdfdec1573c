------------------------------- MODULE OmxDevice ------------------------------
(***************************************************************************)
(* The omxvdec device and the life of its channels: omxvdec_open and       *)
(* omxvdec_release, channel_create_inst with its unwinding,                *)
(* channel_release_inst, the channel list, and the callbacks of VFMW and   *)
(* VPSS, which find their channel by its id.                               *)
(*                                                                         *)
(* Each open file has one thread; pc is its place.  A section under        *)
(* channel_lock or lock is one step.  Contexts are memory that kzalloc may *)
(* hand out again.  The callbacks only read, so one callback thread stands *)
(* for those of VFMW and of VPSS.                                          *)
(***************************************************************************)
EXTENDS KernelList, FiniteSets

CONSTANTS Fds,              \* the files that may be open
          Ctxs,             \* the addresses of channel contexts
          HI_NULL,          \* no context; also the end of the channel list
          MAX_OPEN_COUNT,   \* 32 in the driver
          CountMod,         \* open_count is a HI_U32: 2^32 in the driver
          LowDelayStatistics  \* whether proc may switch g_LowDelayStatistics on

ASSUME DeviceAssumption ==
    /\ HI_NULL \notin Ctxs /\ IsFiniteSet(Ctxs)
    /\ MAX_OPEN_COUNT \in Nat \ {0} /\ CountMod \in Nat
    /\ MAX_OPEN_COUNT < CountMod
    /\ LowDelayStatistics \in BOOLEAN

VARIABLES
    open_count,    \* omxvdec->open_count
    inited,        \* whether channel_init has been done and not undone
    lost,          \* what nobody refers to any more, and where that happened
    chan_list,     \* omxvdec->chan_list
    allocated,     \* the contexts kzalloc has given out
    channel_id, file_dec, state,   \* fields of each context
    res,           \* what each context holds: message queue, engines, tables
    pc,            \* the place of each file's thread
    cur,           \* the context it works on
    n,             \* the next context of its walk over chan_list
    after,         \* where channel_release_inst returns to
    tmp,           \* the open_count it has read
    cbpc, cbsrc,   \* callback thread: its place, the engine that calls
    cbown, cbchan  \* the context that registered it, the one it found

deviceVars   == <<open_count, inited, lost>>
channelVars  == <<chan_list, allocated, channel_id, file_dec, state, res>>
threadVars   == <<pc, cur, n, after, tmp>>
callbackVars == <<cbpc, cbsrc, cbown, cbchan>>
vars == <<deviceVars, channelVars, threadVars, callbackVars>>

Engines   == {"decoder", "processor"}
Resources == Engines \cup {"msg_queue", "extra"}

Goto(f, place) == pc' = [pc EXCEPT ![f] = place]

(* A thread that died on a freed list node keeps channel_lock for ever.    *)
channel_lock_free == \A f \in Fds : pc[f] # "oops"

-------------------------------------------------------------------------------
Init ==
    /\ open_count = 0 /\ inited = FALSE /\ lost = {}
    /\ chan_list = <<>> /\ allocated = {}
    /\ channel_id = [c \in Ctxs |-> 0]
    /\ file_dec = [c \in Ctxs |-> HI_NULL]
    /\ state = [c \in Ctxs |-> "INVALID"]
    /\ res = [c \in Ctxs |-> {}]
    /\ pc = [f \in Fds |-> "closed"]
    /\ cur = [f \in Fds |-> HI_NULL] /\ n = [f \in Fds |-> HI_NULL]
    /\ after = [f \in Fds |-> "ready"] /\ tmp = [f \in Fds |-> 0]
    /\ cbpc = "idle" /\ cbsrc = "decoder"
    /\ cbown = HI_NULL /\ cbchan = HI_NULL

-------------------------------------------------------------------------------
(* omxvdec_open.  Only the first open initialises the device, and it has   *)
(* dropped the lock by then.                                               *)
omxvdec_open(f) ==
    /\ pc[f] = "closed" /\ open_count < MAX_OPEN_COUNT
    /\ open_count' = open_count + 1
    /\ Goto(f, IF open_count = 0 THEN "open_init" ELSE "ready")
    /\ UNCHANGED <<inited, lost, channelVars, cur, n, after, tmp, callbackVars>>

(* channel_init, the task thread and OMX_PTSREC_Init.  A failure undoes    *)
(* what was done.                                                          *)
OpenInit(f) ==
    /\ pc[f] = "open_init"
    /\ \/ inited' = TRUE /\ Goto(f, "ready")
       \/ inited' = FALSE /\ Goto(f, "open_fail")
    /\ UNCHANGED <<open_count, lost, channelVars, cur, n, after, tmp, callbackVars>>

(* The failed open decrements open_count without the lock, in two accesses.*)
OpenFailRead(f) ==
    /\ pc[f] = "open_fail"
    /\ tmp' = [tmp EXCEPT ![f] = open_count]
    /\ Goto(f, "open_uncount")
    /\ UNCHANGED <<deviceVars, channelVars, cur, n, after, callbackVars>>

OpenFailWrite(f) ==
    /\ pc[f] = "open_uncount"
    /\ open_count' = (tmp[f] - 1) % CountMod
    /\ tmp' = [tmp EXCEPT ![f] = 0]
    /\ Goto(f, "closed")
    /\ UNCHANGED <<inited, lost, channelVars, cur, n, after, callbackVars>>

-------------------------------------------------------------------------------
(* channel_create_inst allocates a zeroed context,                         *)
channel_create_inst(f) ==
    /\ pc[f] = "ready"
    /\ \E c \in Ctxs \ allocated :
         /\ allocated' = allocated \cup {c}
         /\ file_dec' = [file_dec EXCEPT ![c] = f]
         /\ cur' = [cur EXCEPT ![f] = c]
    /\ Goto(f, "add_record")
    /\ UNCHANGED <<deviceVars, chan_list, channel_id, state, res, n, after,
                   tmp, callbackVars>>

(* The ids of the listed channels.                                         *)
ListedIds == {channel_id[c] : c \in Entries(chan_list)}

(* Mutant: the number of channels is taken for a free id.                  *)
FreeId_Count == Len(chan_list)

(* The id that the search of channel_add_chan_record ends with.            *)
FreeId == CHOOSE i \in 0..Len(chan_list) :
            i \notin ListedIds /\ \A j \in 0..(i - 1) : j \in ListedIds

(* links it under the lowest id that is free,                              *)
channel_add_chan_record(f) ==
    /\ pc[f] = "add_record" /\ channel_lock_free
    /\ channel_id' = [channel_id EXCEPT ![cur[f]] = FreeId]
    /\ chan_list' = list_add_tail(cur[f], chan_list)
    /\ Goto(f, "create_msg")
    /\ UNCHANGED <<deviceVars, allocated, file_dec, state, res, cur, n, after,
                   tmp, callbackVars>>

(* and acquires one resource after the other; a failure jumps into the     *)
(* clean-up at the point that undoes what succeeded.                       *)
Acquire(f, here, what, done, failed) ==
    /\ pc[f] = here
    /\ \/ /\ res' = [res EXCEPT ![cur[f]] = @ \cup {what}]
          /\ Goto(f, done)
       \/ /\ Goto(f, failed)
          /\ UNCHANGED res
    /\ UNCHANGED <<deviceVars, chan_list, allocated, channel_id, file_dec,
                   state, cur, n, after, tmp, callbackVars>>

message_queue_init(f) ==
    Acquire(f, "create_msg", "msg_queue", "create_dec", "cleanup1")

(* A decoder that cannot start its low-delay statistics is neither         *)
(* destroyed nor reported: channel_create_inst unwinds as if there were    *)
(* none.  It was never started and calls nobody back.                      *)
DecoderForgotten(f) ==
    /\ pc[f] = "create_dec" /\ LowDelayStatistics
    /\ lost' = lost \cup {<<"decoder", "create_dec">>}
    /\ Goto(f, "cleanup2")
    /\ UNCHANGED <<open_count, inited, channelVars, cur, n, after, tmp,
                   callbackVars>>

decoder_create_inst(f) ==
    \/ Acquire(f, "create_dec", "decoder", "create_proc", "cleanup2")
    \/ DecoderForgotten(f)

(* Mutant: the decoder is forgotten when the processor cannot be created.  *)
processor_create_inst_Cleanup(f) ==
    Acquire(f, "create_proc", "processor", "create_mem", "cleanup2")

processor_create_inst(f) ==
    Acquire(f, "create_proc", "processor", "create_mem", "cleanup3")

AllocTables(f) ==
    Acquire(f, "create_mem", "extra", "create_idle", "cleanup4")

CreateIdle(f) ==
    /\ pc[f] = "create_idle"
    /\ state' = [state EXCEPT ![cur[f]] = "IDLE"]
    /\ cur' = [cur EXCEPT ![f] = HI_NULL]
    /\ Goto(f, "ready")
    /\ UNCHANGED <<deviceVars, chan_list, allocated, channel_id, file_dec, res,
                   n, after, tmp, callbackVars>>

-------------------------------------------------------------------------------
(* Start and stop, as far as the callbacks see them.                       *)
channel_start_inst(f, c) ==
    /\ pc[f] = "ready" /\ channel_lock_free
    /\ c \in Entries(chan_list) /\ file_dec[c] = f /\ state[c] = "IDLE"
    /\ state' = [state EXCEPT ![c] = "WORK"]
    /\ UNCHANGED <<deviceVars, chan_list, allocated, channel_id, file_dec, res,
                   threadVars, callbackVars>>

channel_stop_inst(f, c) ==
    /\ pc[f] = "ready" /\ channel_lock_free
    /\ c \in Entries(chan_list) /\ file_dec[c] = f /\ state[c] = "WORK"
    /\ state' = [state EXCEPT ![c] = "IDLE"]
    /\ UNCHANGED <<deviceVars, chan_list, allocated, channel_id, file_dec, res,
                   threadVars, callbackVars>>

-------------------------------------------------------------------------------
(* The release command of a client for a channel of its own.               *)
channel_release_inst(f, c) ==
    /\ pc[f] = "ready" /\ channel_lock_free
    /\ c \in Entries(chan_list) /\ file_dec[c] = f /\ state[c] # "INVALID"
    /\ cur' = [cur EXCEPT ![f] = c]
    /\ Goto(f, "rel_stop")
    /\ UNCHANGED <<deviceVars, channelVars, n, after, tmp, callbackVars>>

(* Statistics that cannot be stopped end the release before it has begun;  *)
(* omxvdec_release does not look at the result.                            *)
ReleaseRefused(f) ==
    /\ pc[f] = "rel_stop" /\ LowDelayStatistics
    /\ cur' = [cur EXCEPT ![f] = HI_NULL]
    /\ after' = [after EXCEPT ![f] = "ready"]
    /\ Goto(f, after[f])
    /\ UNCHANGED <<deviceVars, channelVars, n, tmp, callbackVars>>

(* Mutant: the memory is freed with the engines still running.             *)
ReleaseStop_MemFirst(f) ==
    /\ pc[f] = "rel_stop"
    /\ state' = [state EXCEPT ![cur[f]] = "IDLE"]
    /\ Goto(f, "rel_mem")
    /\ UNCHANGED <<deviceVars, chan_list, allocated, channel_id, file_dec, res,
                   cur, n, after, tmp, callbackVars>>

ReleaseStop(f) ==
    /\ pc[f] = "rel_stop"
    /\ state' = [state EXCEPT ![cur[f]] = "IDLE"]
    /\ Goto(f, "rel_proc")
    /\ UNCHANGED <<deviceVars, chan_list, allocated, channel_id, file_dec, res,
                   cur, n, after, tmp, callbackVars>>

(* One resource is given up at a place of next, a function from the places *)
(* where the clean-up of channel_create_inst or channel_release_inst does  *)
(* so to those that follow.                                                *)
GiveUp(f, what, next) ==
    /\ pc[f] \in DOMAIN next
    /\ Goto(f, next[pc[f]])
    /\ res' = [res EXCEPT ![cur[f]] = @ \ {what}]
    /\ UNCHANGED <<deviceVars, chan_list, allocated, channel_id, file_dec,
                   state, cur, n, after, tmp, callbackVars>>

(* Destroying an engine waits for its callback to return.                  *)
NotCalledBy(f, engine) ==
    cbpc = "idle" \/ cbsrc # engine \/ cbown # cur[f]

processor_release_inst(f) ==
    /\ NotCalledBy(f, "processor")
    /\ GiveUp(f, "processor", [cleanup4 |-> "cleanup3", rel_proc |-> "rel_dec"])

decoder_release_inst(f) ==
    /\ NotCalledBy(f, "decoder")
    /\ GiveUp(f, "decoder", [cleanup3 |-> "cleanup2", rel_dec |-> "rel_mem"])

omxvdec_release_mem(f) ==
    GiveUp(f, "extra", [rel_mem |-> "rel_msg"])

message_queue_deinit(f) ==
    GiveUp(f, "msg_queue",
           [cleanup2 |-> "cleanup1", rel_msg |-> "rel_invalid"])

ReleaseInvalid(f) ==
    /\ pc[f] = "rel_invalid"
    /\ state' = [state EXCEPT ![cur[f]] = "INVALID"]
    /\ Goto(f, "cleanup1")
    /\ UNCHANGED <<deviceVars, chan_list, allocated, channel_id, file_dec, res,
                   cur, n, after, tmp, callbackVars>>

channel_delete_chan_record(f) ==
    /\ pc[f] = "cleanup1" /\ channel_lock_free
    /\ chan_list' = list_del(cur[f], chan_list)
    /\ Goto(f, "cleanup0")
    /\ UNCHANGED <<deviceVars, allocated, channel_id, file_dec, state, res,
                   cur, n, after, tmp, callbackVars>>

(* kfree: what the context still holds is lost.  What freed memory         *)
(* contains is not told apart.                                             *)
kfree(f) ==
    /\ pc[f] = "cleanup0"
    /\ lost' = lost \cup {<<r, "cleanup0">> : r \in res[cur[f]]}
    /\ res' = [res EXCEPT ![cur[f]] = {}]
    /\ allocated' = allocated \ {cur[f]}
    /\ channel_id' = [channel_id EXCEPT ![cur[f]] = 0]
    /\ file_dec' = [file_dec EXCEPT ![cur[f]] = HI_NULL]
    /\ state' = [state EXCEPT ![cur[f]] = "INVALID"]
    /\ cur' = [cur EXCEPT ![f] = HI_NULL]
    /\ after' = [after EXCEPT ![f] = "ready"]
    /\ Goto(f, after[f])
    /\ UNCHANGED <<open_count, inited, chan_list, n, tmp, callbackVars>>

-------------------------------------------------------------------------------
(* The walk of omxvdec_release from context p: on to the next channel of   *)
(* the file, which it releases with channel_lock dropped, having saved the *)
(* one behind it.                                                          *)
Walk(f, p) ==
    LET mine == {i \in 1..Len(chan_list) :
                   /\ file_dec[chan_list[i]] = f
                   /\ state[chan_list[i]] # "INVALID"
                   /\ \E j \in 1..i : chan_list[j] = p}
    IN  \/ /\ mine = {}
           /\ n' = [n EXCEPT ![f] = HI_NULL]
           /\ Goto(f, "close_count")
           /\ UNCHANGED <<cur, after>>
        \/ \E i \in mine :
             /\ \A j \in mine : i <= j
             /\ cur' = [cur EXCEPT ![f] = chan_list[i]]
             /\ n' = [n EXCEPT ![f] = IF i < Len(chan_list)
                                      THEN chan_list[i + 1] ELSE HI_NULL]
             /\ after' = [after EXCEPT ![f] = "close_walk"]
             /\ Goto(f, "rel_stop")

omxvdec_release(f) ==
    /\ pc[f] = "ready" /\ channel_lock_free
    /\ Walk(f, IF chan_list = <<>> THEN HI_NULL ELSE Head(chan_list))
    /\ UNCHANGED <<deviceVars, channelVars, tmp, callbackVars>>

CloseWalk(f) ==
    /\ pc[f] = "close_walk" /\ channel_lock_free
    /\ n[f] = HI_NULL \/ n[f] \in Entries(chan_list)
    /\ Walk(f, n[f])
    /\ UNCHANGED <<deviceVars, channelVars, tmp, callbackVars>>

(* The saved context was unlinked meanwhile: the thread follows a poisoned *)
(* or zeroed pointer with the lock held.                                   *)
CloseWalkFreed(f) ==
    /\ pc[f] = "close_walk" /\ channel_lock_free
    /\ n[f] # HI_NULL /\ n[f] \notin Entries(chan_list)
    /\ Goto(f, "oops")
    /\ UNCHANGED <<deviceVars, channelVars, cur, n, after, tmp, callbackVars>>

(* Mutant: the count is decremented even if it is zero.                    *)
CloseCount_NoTest(f) ==
    /\ pc[f] = "close_count"
    /\ open_count' = open_count - 1
    /\ Goto(f, "close_test")
    /\ UNCHANGED <<inited, lost, channelVars, cur, n, after, tmp, callbackVars>>

CloseCount(f) ==
    /\ pc[f] = "close_count"
    /\ open_count' = IF open_count > 0 THEN open_count - 1 ELSE open_count
    /\ Goto(f, "close_test")
    /\ UNCHANGED <<inited, lost, channelVars, cur, n, after, tmp, callbackVars>>

(* open_count is read again, without the lock.                             *)
CloseTest(f) ==
    /\ pc[f] = "close_test"
    /\ Goto(f, IF open_count = 0 THEN "close_exit" ELSE "closed")
    /\ UNCHANGED <<deviceVars, channelVars, cur, n, after, tmp, callbackVars>>

channel_exit(f) ==
    /\ pc[f] = "close_exit"
    /\ inited' = FALSE
    /\ Goto(f, "closed")
    /\ UNCHANGED <<open_count, lost, channelVars, cur, n, after, tmp, callbackVars>>

-------------------------------------------------------------------------------
(* A callback carries the id its engine was given.  It looks the channel   *)
(* up under channel_lock, and uses it without.  Only those that take a     *)
(* buffer test the state; the others use the message queue at once.        *)
channel_find_inst_by_channel_id ==
    /\ cbpc = "idle" /\ channel_lock_free
    /\ \E c \in allocated, e \in Engines :
         /\ e \in res[c]
         /\ cbsrc' = e /\ cbown' = c
         /\ \E i \in 1..Len(chan_list) :
              /\ channel_id[chan_list[i]] = channel_id[c]
              /\ \A j \in 1..(i - 1) :
                   channel_id[chan_list[j]] # channel_id[c]
              /\ cbchan' = chan_list[i]
    /\ cbpc' = "found"
    /\ UNCHANGED <<deviceVars, channelVars, threadVars>>

CallbackGoOn ==
    /\ cbpc = "found" /\ state[cbchan] = "WORK"
    /\ cbpc' = "use"
    /\ UNCHANGED <<deviceVars, channelVars, threadVars, cbsrc, cbown, cbchan>>

CallbackReturn ==
    /\ cbpc # "idle"
    /\ cbpc' = "idle" /\ cbsrc' = "decoder"
    /\ cbown' = HI_NULL /\ cbchan' = HI_NULL
    /\ UNCHANGED <<deviceVars, channelVars, threadVars>>

-------------------------------------------------------------------------------
OpenAndClose(f) ==
    \/ omxvdec_open(f) \/ OpenInit(f) \/ OpenFailRead(f) \/ OpenFailWrite(f)
    \/ omxvdec_release(f) \/ CloseWalk(f) \/ CloseWalkFreed(f)
    \/ CloseCount(f) \/ CloseTest(f) \/ channel_exit(f)

CreateAndRelease(f) ==
    \/ channel_create_inst(f) \/ channel_add_chan_record(f)
    \/ message_queue_init(f) \/ decoder_create_inst(f)
    \/ processor_create_inst(f) \/ AllocTables(f) \/ CreateIdle(f)
    \/ ReleaseRefused(f) \/ ReleaseStop(f)
    \/ processor_release_inst(f) \/ decoder_release_inst(f)
    \/ omxvdec_release_mem(f) \/ message_queue_deinit(f) \/ ReleaseInvalid(f)
    \/ channel_delete_chan_record(f) \/ kfree(f)

Next ==
    \/ \E f \in Fds : OpenAndClose(f) \/ CreateAndRelease(f)
    \/ \E f \in Fds, c \in Ctxs :
         \/ channel_start_inst(f, c) \/ channel_stop_inst(f, c)
         \/ channel_release_inst(f, c)
    \/ channel_find_inst_by_channel_id \/ CallbackGoOn \/ CallbackReturn

Spec == Init /\ [][Next]_vars

-------------------------------------------------------------------------------
Places == {"closed", "open_init", "open_fail", "open_uncount", "ready",
           "add_record", "create_msg", "create_dec", "create_proc",
           "create_mem", "create_idle", "cleanup4", "cleanup3", "cleanup2",
           "cleanup1", "cleanup0", "rel_stop", "rel_proc", "rel_dec",
           "rel_mem", "rel_msg", "rel_invalid", "close_walk", "close_count",
           "close_test", "close_exit", "oops"}

(* The states every variable ranges over.                                  *)
TypeOK ==
    /\ open_count \in 0..(CountMod - 1) /\ inited \in BOOLEAN
    /\ lost \subseteq Resources \X Places
    /\ chan_list \in Seq(Ctxs) /\ allocated \subseteq Ctxs
    /\ channel_id \in [Ctxs -> Nat]
    /\ file_dec \in [Ctxs -> Fds \cup {HI_NULL}]
    /\ state \in [Ctxs -> {"INVALID", "IDLE", "WORK"}]
    /\ res \in [Ctxs -> SUBSET Resources]
    /\ pc \in [Fds -> Places]
    /\ cur \in [Fds -> Ctxs \cup {HI_NULL}]
    /\ n \in [Fds -> Ctxs \cup {HI_NULL}]
    /\ after \in [Fds -> {"ready", "close_walk"}]
    /\ tmp \in [Fds -> 0..(CountMod - 1)]
    /\ cbpc \in {"idle", "found", "use"} /\ cbsrc \in Engines
    /\ cbown \in Ctxs \cup {HI_NULL} /\ cbchan \in Ctxs \cup {HI_NULL}

(* However creations, releases and failures of several files interleave,   *)
(* no two listed channels have the same id, and an id is smaller than the  *)
(* number of contexts that ever existed at once: it can index a table of   *)
(* that size.                                                              *)
UniqueIds ==
    /\ LinkedOnce(chan_list)
    /\ \A c, d \in Entries(chan_list) :
         channel_id[c] = channel_id[d] => c = d
    /\ \A c \in Entries(chan_list) : channel_id[c] < Cardinality(Ctxs)

(* A callback finds the channel that registered it, never one that was     *)
(* freed or was given the id afterwards; that channel has its message      *)
(* queue, and past the test of the state it has its tables as well.        *)
CallbackSafe ==
    cbpc # "idle" =>
        /\ cbchan = cbown /\ cbchan \in allocated
        /\ "msg_queue" \in res[cbchan]
        /\ cbpc = "use" => "extra" \in res[cbchan]

(* Whichever step of channel_create_inst failed, and however a channel is  *)
(* released, kfree frees a context only when everything it held has been   *)
(* given up.  What is lost is at most a decoder that could not start its   *)
(* low-delay statistics, and nothing if they are never switched on.  A     *)
(* listed channel is allocated.                                            *)
NothingLeaks ==
    /\ lost \subseteq IF LowDelayStatistics THEN {<<"decoder", "create_dec">>}
                      ELSE {}
    /\ Entries(chan_list) \subseteq allocated

-------------------------------------------------------------------------------
(* What the code says of itself, and does not keep.                        *)

(* "omxvdec open ok.": a file that has been opened has an initialised      *)
(* device.                                                                 *)
OpenOkIsInitialised ==
    (\E f \in Fds : pc[f] = "ready") => inited

(* "omxvdec release ok.": a file that is closed has left no channel        *)
(* behind.                                                                 *)
ReleaseOkLeavesNothing ==
    \A f \in Fds : pc[f] = "closed" =>
        \A c \in Entries(chan_list) : file_dec[c] # f
===============================================================================
