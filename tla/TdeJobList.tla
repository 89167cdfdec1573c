------------------------------ MODULE TdeJobList ------------------------------
(***************************************************************************)
(* The job list of the 2D engine (tde_osilist_k.c) with the interrupt      *)
(* handler and the tasklet that complete its jobs (tde_osr_k.c) and the    *)
(* release fences (tde_fence.c).                                           *)
(*                                                                         *)
(* A client thread begins a job, draws into it, and ends it in block mode, *)
(* without waiting, with a callback or with a release fence.  Jobs that    *)
(* arrive while the hardware is busy are chained behind pstJobToCommit and *)
(* started together.  A section under the list lock is one step, but for   *)
(* TdeOsiListNodeComp, which drops the lock around a callback: its steps   *)
(* hold LockFree false in between.  Jobs live in slots of memory that      *)
(* TDE_MALLOC zeroes and may hand out again; a freed slot keeps what it    *)
(* held.  The nodes of a job are one node, named by the job's handle.      *)
(*                                                                         *)
(* Left out, because nothing reads them: u32JobNum, pstJobCommitted and    *)
(* s32HandleFinished.                                                      *)
(***************************************************************************)
EXTENDS KernelList, Integers, FiniteSets

CONSTANTS
    Submitters,      \* the threads that begin and end jobs
    Waiters,         \* the threads that wait for jobs of others
    Resetters,       \* the threads that reset the engine
    SharedHandles,   \* whether a thread may use the handle of another
    Modes,           \* how jobs are ended: block, async, callback, fence
    Faults,          \* what may go wrong: scarce, fence, dump
    Slots, NULL,     \* the memory of jobs, and the null pointer
    MaxHandle,       \* bound: the number of jobs begun
    MaxOpen          \* bound: the jobs begun and not submitted at a time

ASSUME TdeAssumption ==
    /\ SharedHandles \in BOOLEAN
    /\ Modes \subseteq {"block", "async", "callback", "fence"}
    /\ Faults \subseteq {"scarce", "fence", "dump"}
    /\ NULL \notin Slots
    /\ MaxHandle \in Nat /\ MaxOpen \in Nat

Clients == Submitters \cup Waiters \cup Resetters
Handles == 1..MaxHandle

VARIABLES
    allocated, job,  \* the slots in use; what each slot holds
    owner,           \* the thread that began each handle, in handle order
    stList, s32HandleLast, pstJobToCommit, pstJobFinished, pstJobLast,
    next,            \* the link the hardware follows from a job's last node
    hw,              \* the job the hardware runs, 0 when idle
    curNode,         \* TdeHalCurNode: the last node it has fetched
    irq,             \* the completion status waits to be read
    data, sched,     \* tde_tasklet: its data, whether it is scheduled
    tpc, targ,       \* the tasklet: its place and its argument
    twork, tfin,     \* bWork and s32FinishedHandle of its NodeComp
    tjob, tdel,      \* the job it deletes and its handle (s32Delhandle)
    tkind,           \* the way that job is notified
    fenceValue, timeline,  \* gs_u32FenceValue, gs_u32TimelineValue
    fenceOf,         \* the fence a client got for each job
    pc, cur, hdl,    \* each client: place, job pointer, handle
    noti,            \* enNotiType as the client's submit knows it
    tmp,             \* the fence value it has read
    asleep,          \* the clients that sleep until stQuery is woken
    goal,            \* what a wait for all was called for
    executed, gone   \* jobs the hardware ran; jobs a reset threw away

listVars    == <<stList, s32HandleLast, pstJobToCommit, pstJobFinished,
                 pstJobLast>>
memVars     == <<allocated, job, owner>>
hwVars      == <<next, hw, curNode, irq, executed, gone>>
taskletVars == <<data, sched, tpc, targ, twork, tfin, tjob, tdel, tkind>>
fenceVars   == <<fenceValue, timeline, fenceOf>>
clientVars  == <<pc, cur, hdl, noti, tmp, asleep, goal>>
vars == <<listVars, memVars, hwVars, taskletVars, fenceVars, clientVars>>

Goto(c, place) == pc' = [pc EXCEPT ![c] = place]

(* TdeOsiListNodeComp keeps the list lock between its steps.               *)
LockFree == tpc \notin {"loop", "notify"}

(* query_handle: the slots of a handle, none once it is released.          *)
query_handle(h) == {s \in allocated : job[s].s32Handle = h}

(* The handles of the jobs in the list.                                    *)
Listed == {job[s].s32Handle : s \in Entries(stList)}

NewJob(h) == [s32Handle |-> h, cmd |-> FALSE, bSubmitted |-> FALSE,
              enNotiType |-> "NONE", callback |-> FALSE, fence |-> 0,
              u8WaitForDoneCount |-> 0]

Init ==
    /\ allocated = {} /\ owner = <<>>
    /\ job = [s \in Slots |-> NewJob(0)]
    /\ stList = <<>> /\ s32HandleLast = 0
    /\ pstJobToCommit = NULL /\ pstJobFinished = 0 /\ pstJobLast = NULL
    /\ next = [h \in Handles |-> 0]
    /\ hw = 0 /\ curNode = 0 /\ irq = FALSE
    /\ data = FALSE /\ sched = FALSE
    /\ tpc = "idle" /\ targ = FALSE /\ twork = FALSE /\ tfin = 0
    /\ tjob = NULL /\ tdel = 0 /\ tkind = "NONE"
    /\ fenceValue = 0 /\ timeline = 0 /\ fenceOf = [h \in Handles |-> 0]
    /\ pc = [c \in Clients |-> "idle"] /\ cur = [c \in Clients |-> NULL]
    /\ hdl = [c \in Clients |-> 0] /\ noti = [c \in Clients |-> "NONE"]
    /\ tmp = [c \in Clients |-> 0]
    /\ asleep = {} /\ goal = [c \in Clients |-> {}]
    /\ executed = {} /\ gone = {}

-------------------------------------------------------------------------------
(* The life of a job before it is submitted.                               *)

TdeOsiListBeginJob(c) ==
    /\ c \in Submitters /\ pc[c] = "idle" /\ Len(owner) < MaxHandle
    /\ Cardinality({s \in allocated : ~job[s].bSubmitted}) < MaxOpen
    /\ \E s \in Slots \ allocated :
         /\ allocated' = allocated \cup {s}
         /\ job' = [job EXCEPT ![s] = NewJob(Len(owner) + 1)]
    /\ owner' = Append(owner, c)
    /\ UNCHANGED <<listVars, hwVars, taskletVars, fenceVars, clientVars>>

(* The thread may use the handle, and finds slot s behind it.              *)
Finds(c, h, s) ==
    /\ c \in Submitters /\ pc[c] = "idle"
    /\ h \in 1..Len(owner) /\ (SharedHandles \/ owner[h] = c)
    /\ s \in query_handle(h)

(* TdeOsiSetNodeFinish, the end of every drawing operation.                *)
TdeOsiSetNodeFinish(c, h) ==
    \E s \in Slots :
        /\ Finds(c, h, s) /\ ~job[s].bSubmitted
        /\ job' = [job EXCEPT ![s].cmd = TRUE]
        /\ UNCHANGED <<allocated, owner, listVars, hwVars, taskletVars,
                       fenceVars, clientVars>>

TdeOsiListCancelJob(c, h) ==
    \E s \in Slots :
        /\ LockFree /\ Finds(c, h, s) /\ ~job[s].bSubmitted
        /\ allocated' = allocated \ {s}
        /\ UNCHANGED <<job, owner, listVars, hwVars, taskletVars, fenceVars,
                       clientVars>>

-------------------------------------------------------------------------------
(* TdeOsiListSubmitJob.  Without the lock it finds the job and tests that  *)
(* it is not submitted; a job without a command is released.               *)
SubmitTest(c, h) ==
    \E s \in Slots :
        /\ Finds(c, h, s) /\ ~job[s].bSubmitted
        /\ \/ /\ job[s].cmd
              /\ cur' = [cur EXCEPT ![c] = s] /\ hdl' = [hdl EXCEPT ![c] = h]
              /\ Goto(c, "mark")
              /\ UNCHANGED allocated
           \/ /\ ~job[s].cmd
              /\ allocated' = allocated \ {s}
              /\ UNCHANGED <<pc, cur, hdl>>
        /\ UNCHANGED <<job, owner, listVars, hwVars, taskletVars, fenceVars,
                       noti, tmp, asleep, goal>>

(* It marks the job; short of node memory it makes any job a blocking one. *)
SubmitMark(c, mode) ==
    /\ pc[c] = "mark"
    /\ \E wake \in {TRUE, FALSE} :
         /\ mode = "block" => wake
         /\ wake => mode = "block" \/ "scarce" \in Faults
         /\ LET type == IF wake THEN "WAKE" ELSE "COMPL" IN
            /\ job' = [job EXCEPT ![cur[c]] =
                         [@ EXCEPT !.bSubmitted = TRUE,
                                   !.enNotiType = type,
                                   !.callback   = (mode = "callback")]]
            /\ noti' = [noti EXCEPT ![c] = type]
         /\ Goto(c, IF mode = "fence" /\ ~wake THEN "fence" ELSE "list")
    /\ UNCHANGED <<allocated, owner, listVars, hwVars, taskletVars, fenceVars,
                   cur, hdl, tmp, asleep, goal>>

(* TDE_FENCE_Create counts gs_u32FenceValue up without a lock.  When it    *)
(* fails the submit returns, and the job stays marked.                     *)
FenceFails(c) ==
    /\ "fence" \in Faults
    /\ Goto(c, "idle")
    /\ cur' = [cur EXCEPT ![c] = NULL] /\ hdl' = [hdl EXCEPT ![c] = 0]
    /\ noti' = [noti EXCEPT ![c] = "NONE"]
    /\ UNCHANGED <<job, fenceOf>>

TDE_FENCE_Create(c) ==
    /\ pc[c] = "fence"
    /\ \/ /\ tmp' = [tmp EXCEPT ![c] = fenceValue]
          /\ Goto(c, "fence_store")
          /\ UNCHANGED <<cur, hdl, noti, job, fenceOf>>
       \/ FenceFails(c) /\ UNCHANGED tmp
    /\ UNCHANGED <<allocated, owner, listVars, hwVars, taskletVars, fenceValue,
                   timeline, asleep, goal>>

(* sw_sync_pt_create failing takes the count back; sync_fence_create       *)
(* failing does not.                                                       *)
FenceStore(c) ==
    /\ pc[c] = "fence_store"
    /\ \/ /\ fenceValue' = tmp[c] + 1
          /\ job' = [job EXCEPT ![cur[c]].fence = tmp[c] + 1]
          /\ fenceOf' = [fenceOf EXCEPT ![hdl[c]] = tmp[c] + 1]
          /\ Goto(c, "list")
          /\ UNCHANGED <<cur, hdl, noti>>
       \/ fenceValue' \in {tmp[c], tmp[c] + 1} /\ FenceFails(c)
    /\ tmp' = [tmp EXCEPT ![c] = 0]
    /\ UNCHANGED <<allocated, owner, listVars, hwVars, taskletVars, timeline,
                   asleep, goal>>

(* TdeHalNodeExecute starts the chain of slot s if the hardware is idle;   *)
(* its callers then forget pstJobToCommit and pstJobFinished.              *)
TdeHalNodeExecute(s, h) ==
    \/ /\ hw = 0
       /\ hw' = h /\ curNode' = h
       /\ pstJobToCommit' = NULL /\ pstJobFinished' = 0
    \/ /\ hw # 0
       /\ pstJobToCommit' = s
       /\ UNCHANGED <<hw, curNode, pstJobFinished>>

(* Mutant: the chain is begun but not joined.                              *)
JoinChain_Lost(s) == next

(* The links of the hardware once the job in slot s is behind the last one *)
(* of the chain that waits.                                                *)
JoinChain(s) ==
    IF pstJobToCommit = NULL THEN next
    ELSE [next EXCEPT ![job[pstJobLast].s32Handle] = job[s].s32Handle]

(* Under the lock: join the chain or begin one, add the job, and start the *)
(* hardware if it is idle.                                                 *)
SubmitJob(c) ==
    LET s == cur[c]
        first == IF pstJobToCommit # NULL THEN pstJobToCommit ELSE s
    IN
    /\ pc[c] = "list" /\ LockFree
    /\ next' = JoinChain(s)
    /\ stList' = list_add_tail(s, stList)
    /\ s32HandleLast' = job[s].s32Handle /\ pstJobLast' = s
    /\ TdeHalNodeExecute(first, job[first].s32Handle)
    /\ \/ /\ noti[c] = "WAKE" /\ Goto(c, "blocked")
          /\ UNCHANGED <<cur, hdl, noti>>
       \/ /\ noti[c] # "WAKE" /\ Goto(c, "idle")
          /\ cur' = [cur EXCEPT ![c] = NULL] /\ hdl' = [hdl EXCEPT ![c] = 0]
          /\ noti' = [noti EXCEPT ![c] = "NONE"]
    /\ UNCHANGED <<memVars, irq, executed, gone, taskletVars, fenceVars, tmp,
                   asleep, goal>>

(* TdeOsiListDestroyJob: the slot is freed if its handle is still known.   *)
DestroyJob(s) == allocated \ query_handle(job[s].s32Handle)

(* The blocked submit goes on, woken, interrupted or after its timeout.    *)
SubmitWake(c) ==
    LET s == cur[c] IN
    /\ pc[c] = "blocked" /\ LockFree
    /\ \/ /\ job[s].enNotiType = "BUTT"
          /\ allocated' = IF job[s].u8WaitForDoneCount = 0
                          THEN DestroyJob(s) ELSE allocated
          /\ UNCHANGED job
       \/ /\ job[s].enNotiType # "BUTT"
          /\ job' = [job EXCEPT ![s].enNotiType = "COMPL"]
          /\ UNCHANGED allocated
    /\ Goto(c, "idle")
    /\ cur' = [cur EXCEPT ![c] = NULL] /\ hdl' = [hdl EXCEPT ![c] = 0]
    /\ noti' = [noti EXCEPT ![c] = "NONE"]
    /\ UNCHANGED <<owner, listVars, hwVars, taskletVars, fenceVars, tmp,
                   asleep, goal>>

-------------------------------------------------------------------------------
(* TdeOsiListWaitForDone counts the thread in; a handle that is released   *)
(* or not submitted is answered at once.                                   *)
U8 == 256

CountIn(c, s, place) ==
    /\ job' = [job EXCEPT ![s].u8WaitForDoneCount = (@ + 1) % U8]
    /\ cur' = [cur EXCEPT ![c] = s]
    /\ Goto(c, place)

TdeOsiListWaitForDone(c, h) ==
    /\ c \in Waiters /\ pc[c] = "idle" /\ LockFree /\ h \in 1..Len(owner)
    /\ \E s \in query_handle(h) :
         job[s].bSubmitted /\ CountIn(c, s, "wait")
    /\ hdl' = [hdl EXCEPT ![c] = h]
    /\ UNCHANGED <<allocated, owner, listVars, hwVars, taskletVars, fenceVars,
                   noti, tmp, asleep, goal>>

(* Mutant: the wait for all waits for the first job of the list.           *)
TdeOsiListWaitAllDone_First(c) ==
    /\ c \in Waiters /\ pc[c] = "idle" /\ LockFree
    /\ hdl' = [hdl EXCEPT ![c] = IF stList = <<>> THEN 0
                                 ELSE job[Head(stList)].s32Handle]
    /\ goal' = [goal EXCEPT ![c] = Listed]
    /\ Goto(c, "query_all")
    /\ UNCHANGED <<memVars, listVars, hwVars, taskletVars, fenceVars, cur,
                   noti, tmp, asleep>>

(* TdeOsiListWaitAllDone waits for the last handle, with no timeout.       *)
TdeOsiListWaitAllDone(c) ==
    /\ c \in Waiters /\ pc[c] = "idle" /\ LockFree
    /\ hdl' = [hdl EXCEPT ![c] = s32HandleLast]
    /\ goal' = [goal EXCEPT ![c] = Listed]
    /\ Goto(c, "query_all")
    /\ UNCHANGED <<memVars, listVars, hwVars, taskletVars, fenceVars, cur,
                   noti, tmp, asleep>>

QueryAll(c) ==
    /\ pc[c] = "query_all" /\ LockFree
    /\ \/ \E s \in query_handle(hdl[c]) :
            /\ CountIn(c, s, "wait_all")
            /\ asleep' = IF job[s].enNotiType = "BUTT" THEN asleep
                         ELSE asleep \cup {c}
            /\ UNCHANGED <<hdl, goal>>
       \/ /\ query_handle(hdl[c]) = {}
          /\ Goto(c, "idle")
          /\ hdl' = [hdl EXCEPT ![c] = 0] /\ goal' = [goal EXCEPT ![c] = {}]
          /\ UNCHANGED <<job, cur, asleep>>
    /\ UNCHANGED <<allocated, owner, listVars, hwVars, taskletVars, fenceVars,
                   noti, tmp>>

(* Mutant: the job is released by the first thread that stops waiting.     *)
CountOut_First(c) ==
    LET s == cur[c]
        left == (job[s].u8WaitForDoneCount - 1) % U8
    IN
    /\ job' = [job EXCEPT ![s].u8WaitForDoneCount = left]
    /\ allocated' = IF job[s].enNotiType = "BUTT"
                    THEN DestroyJob(s) ELSE allocated
    /\ Goto(c, "idle")
    /\ cur' = [cur EXCEPT ![c] = NULL] /\ hdl' = [hdl EXCEPT ![c] = 0]
    /\ asleep' = asleep \ {c} /\ goal' = [goal EXCEPT ![c] = {}]
    /\ UNCHANGED <<owner, listVars, hwVars, taskletVars, fenceVars, noti, tmp>>

(* Mutant: a thread that stops waiting never releases the job.             *)
CountOut_Never(c) ==
    LET s == cur[c]
        left == (job[s].u8WaitForDoneCount - 1) % U8
    IN
    /\ job' = [job EXCEPT ![s].u8WaitForDoneCount = left]
    /\ Goto(c, "idle")
    /\ cur' = [cur EXCEPT ![c] = NULL] /\ hdl' = [hdl EXCEPT ![c] = 0]
    /\ asleep' = asleep \ {c} /\ goal' = [goal EXCEPT ![c] = {}]
    /\ UNCHANGED <<allocated, owner, listVars, hwVars, taskletVars, fenceVars,
                   noti, tmp>>

(* The thread counts itself out, and the last one releases a job that is   *)
(* complete.                                                               *)
CountOut(c) ==
    LET s == cur[c]
        left == (job[s].u8WaitForDoneCount - 1) % U8
    IN
    /\ job' = [job EXCEPT ![s].u8WaitForDoneCount = left]
    /\ allocated' = IF job[s].enNotiType = "BUTT" /\ left = 0
                    THEN DestroyJob(s) ELSE allocated
    /\ Goto(c, "idle")
    /\ cur' = [cur EXCEPT ![c] = NULL] /\ hdl' = [hdl EXCEPT ![c] = 0]
    /\ asleep' = asleep \ {c} /\ goal' = [goal EXCEPT ![c] = {}]
    /\ UNCHANGED <<owner, listVars, hwVars, taskletVars, fenceVars, noti, tmp>>

(* A wait with a timeout ends at any time; the one without needs the job   *)
(* done and the thread woken.                                              *)
WaitEnds(c) == pc[c] = "wait" /\ LockFree /\ CountOut(c)

WaitAllEnds(c) ==
    /\ pc[c] = "wait_all" /\ c \notin asleep /\ LockFree
    /\ job[cur[c]].enNotiType = "BUTT"
    /\ CountOut(c)

(* A signal wakes the thread without the lock: wait_event_interruptible    *)
(* looks at the job again, and returns -ERESTARTSYS if it is not done.     *)
SignalArrives(c) ==
    /\ pc[c] = "wait_all"
    /\ \/ /\ job[cur[c]].enNotiType = "BUTT" /\ c \in asleep
          /\ UNCHANGED pc
       \/ /\ job[cur[c]].enNotiType # "BUTT"
          /\ Goto(c, "interrupted")
    /\ asleep' = asleep \ {c}
    /\ UNCHANGED <<memVars, listVars, hwVars, taskletVars, fenceVars, cur, hdl,
                   noti, tmp, goal>>

(* The interrupted thread takes the lock, by when the job may be done.     *)
WaitInterrupted(c) == pc[c] = "interrupted" /\ LockFree /\ CountOut(c)

-------------------------------------------------------------------------------
(* The hardware finishes a job, follows its link, and raises the interrupt *)
(* that TdeHalNodeEnableCompleteInt has asked for.                         *)
HwComplete ==
    /\ hw # 0
    /\ executed' = executed \cup {hw}
    /\ hw' = next[hw]
    /\ curNode' = IF next[hw] = 0 THEN curNode ELSE next[hw]
    /\ irq' = TRUE
    /\ UNCHANGED <<next, gone, memVars, listVars, taskletVars, fenceVars,
                   clientVars>>

(* TdeHalResumeInit sets the registers up again.                           *)
TdeHalResumeInit == irq' \in {irq, FALSE} /\ curNode' \in {curNode, 0}

tde_osr_isr ==
    /\ irq /\ irq' = FALSE
    /\ data' = TRUE /\ sched' = TRUE
    /\ UNCHANGED <<next, hw, curNode, executed, gone, memVars, listVars, tpc,
                   targ, twork, tfin, tjob, tdel, tkind, fenceVars,
                   clientVars>>

(* The jobs handed to the hardware that it has not run.                    *)
Handed == Listed \ {job[stList[i]].s32Handle :
                      i \in {k \in 1..Len(stList) :
                               \E l \in 1..k : stList[l] = pstJobToCommit}}

(* The error interrupt: the engine is reset and its work is lost.          *)
CoreDump ==
    /\ "dump" \in Faults /\ hw # 0
    /\ hw' = 0 /\ irq' = FALSE /\ curNode' \in {curNode, 0}
    /\ gone' = gone \cup (Handed \ executed)
    /\ UNCHANGED <<next, executed, memVars, listVars, taskletVars, fenceVars,
                   clientVars>>

(* The tasklet takes its data as argument, clears what it took, and calls  *)
(* TdeOsiListNodeComp for a completion.                                    *)
TaskletRun ==
    /\ sched /\ tpc = "idle"
    /\ sched' = FALSE /\ targ' = data /\ tpc' = "start"
    /\ UNCHANGED <<memVars, listVars, hwVars, data, twork, tfin, tjob, tdel,
                   tkind, fenceVars, clientVars>>

tde_tasklet_func ==
    /\ tpc = "start"
    /\ data' = (data /\ ~targ)
    /\ tpc' = IF targ THEN "comp" ELSE "idle"
    /\ targ' = FALSE
    /\ UNCHANGED <<memVars, listVars, hwVars, sched, twork, tfin, tjob, tdel,
                   tkind, fenceVars, clientVars>>

-------------------------------------------------------------------------------
(* The jobs in front of a handle's job in the list.                        *)
Before(h) == {i \in 1..Len(stList) :
                \A k \in 1..i : job[stList[k]].s32Handle # h}

(* Mutant: the job that the hardware runs is taken for finished.           *)
LastFinished_Running == curNode

(* The handle of the last job that is finished, 0 if there is none: the    *)
(* one the idle hardware ran last, or the one in front of what it runs.  A *)
(* job that list_del_init has taken off the list is in front of itself.    *)
LastFinished ==
    CASE hw = 0 -> curNode
      [] hw # 0 /\ query_handle(curNode) = {} -> 0
      [] hw # 0 /\ query_handle(curNode) # {} /\ curNode \notin Listed
           -> curNode
      [] OTHER -> IF Before(curNode) = {} THEN 0
                  ELSE job[stList[Cardinality(Before(curNode))]].s32Handle

(* TdeOsiListNodeComp looks at the hardware once and settles how far the   *)
(* list is finished.                                                       *)
TdeOsiListNodeComp ==
    /\ tpc = "comp"
    /\ \/ /\ curNode # 0 /\ curNode # pstJobFinished
          /\ LastFinished # 0
          /\ pstJobFinished' = IF hw = 0 THEN curNode ELSE 0
          /\ \/ /\ query_handle(LastFinished) # {}
                /\ tpc' = "loop" /\ twork' = (hw # 0) /\ tfin' = LastFinished
             \/ /\ query_handle(LastFinished) = {}
                /\ tpc' = "idle" /\ UNCHANGED <<twork, tfin>>
       \/ /\ curNode = 0 \/ curNode = pstJobFinished \/ LastFinished = 0
          /\ tpc' = "idle"
          /\ UNCHANGED <<pstJobFinished, twork, tfin>>
    /\ UNCHANGED <<memVars, stList, s32HandleLast, pstJobToCommit, pstJobLast,
                   hwVars, data, sched, targ, tjob, tdel, tkind, fenceVars,
                   clientVars>>

(* s32HandleLast once slot s is off the list.                              *)
LastAfter(s) ==
    IF job[s].s32Handle = s32HandleLast THEN -1 ELSE s32HandleLast

(* It takes the first job off the list; a blocking one is marked done at   *)
(* once.  For a callback it drops the lock.                                *)
NodeCompTake ==
    /\ tpc = "loop" /\ stList # <<>>
    /\ LET s == Head(stList) IN
       /\ stList' = Tail(stList)
       /\ s32HandleLast' = LastAfter(s)
       /\ tjob' = s /\ tdel' = job[s].s32Handle /\ tkind' = job[s].enNotiType
       /\ job' = IF job[s].enNotiType = "WAKE"
                 THEN [job EXCEPT ![s].enNotiType = "BUTT"] ELSE job
       /\ tpc' = IF job[s].callback /\ job[s].enNotiType \in {"WAKE", "COMPL"}
                 THEN "callback" ELSE "notify"
       /\ UNCHANGED <<allocated, owner, pstJobToCommit, pstJobFinished,
                      pstJobLast, hwVars, data, sched, targ, twork, tfin,
                      fenceVars, clientVars>>

NodeCompEmpty ==
    /\ tpc = "loop" /\ stList = <<>>
    /\ tpc' = "idle"
    /\ UNCHANGED <<memVars, listVars, hwVars, data, sched, targ, twork, tfin,
                   tjob, tdel, tkind, fenceVars, clientVars>>

(* Mutant: after the callback the job is forgotten.                        *)
CallbackReturns_Forget ==
    /\ tpc = "callback"
    /\ tpc' = "loop"
    /\ UNCHANGED <<memVars, listVars, hwVars, data, sched, targ, twork, tfin,
                   tjob, tdel, tkind, fenceVars, clientVars>>

CallbackReturns ==
    /\ tpc = "callback"
    /\ tpc' = "notify"
    /\ UNCHANGED <<memVars, listVars, hwVars, data, sched, targ, twork, tfin,
                   tjob, tdel, tkind, fenceVars, clientVars>>

(* Mutant: nobody is woken.                                                *)
Sleepers_None(s) == {}

(* The threads that sleep on the stQuery of slot s.                        *)
Sleepers(s) == {c \in asleep : cur[c] = s}

(* Mutant: the chain that waits is left to the next submit.                *)
TdeOsiListCompProc_Later ==
    UNCHANGED <<pstJobToCommit, pstJobFinished, hw, curNode>>

(* TdeOsiListCompProc starts the chain that waits.                         *)
TdeOsiListCompProc ==
    IF pstJobToCommit # NULL
    THEN TdeHalNodeExecute(pstJobToCommit, job[pstJobToCommit].s32Handle)
    ELSE UNCHANGED <<pstJobToCommit, pstJobFinished, hw, curNode>>

(* With the lock it tells the threads that wait, signals the fence, and    *)
(* releases a job nobody waits for (TdeOsiListSafeDestroyJob).  After the  *)
(* last finished job it starts the hardware again.                         *)
NodeCompNotify ==
    LET s == tjob
        waited == job[s].u8WaitForDoneCount # 0
    IN
    /\ tpc = "notify"
    /\ \/ /\ tkind = "WAKE"
          /\ asleep' = IF waited THEN asleep \ Sleepers(s) ELSE asleep
          /\ UNCHANGED <<job, allocated, timeline>>
       \/ /\ tkind = "COMPL"
          /\ timeline' = IF job[s].fence > 0 THEN timeline + 1 ELSE timeline
          /\ \/ /\ waited
                /\ job' = [job EXCEPT ![s].enNotiType = "BUTT"]
                /\ asleep' = asleep \ Sleepers(s)
                /\ UNCHANGED allocated
             \/ /\ ~waited
                /\ allocated' = DestroyJob(s)
                /\ UNCHANGED <<job, asleep>>
       \/ /\ tkind \notin {"WAKE", "COMPL"}
          /\ UNCHANGED <<job, allocated, timeline, asleep>>
    /\ \/ /\ tdel = tfin
          /\ tpc' = "idle"
          /\ IF ~twork /\ hw = 0
             THEN irq' = FALSE /\ TdeOsiListCompProc
             ELSE UNCHANGED <<irq, pstJobToCommit, pstJobFinished, hw,
                              curNode>>
       \/ /\ tdel # tfin
          /\ tpc' = "loop"
          /\ UNCHANGED <<irq, pstJobToCommit, pstJobFinished, hw, curNode>>
    /\ tjob' = NULL /\ tdel' = 0 /\ tkind' = "NONE"
    /\ UNCHANGED <<owner, stList, s32HandleLast, pstJobLast, next, executed,
                   gone, data, sched, targ, twork, tfin, fenceValue, fenceOf,
                   pc, cur, hdl, noti, tmp, goal>>

-------------------------------------------------------------------------------
(* TdeOsiListReset waits for the hardware to be idle, sets it up, and only *)
(* then takes the lock and throws the list away.  It does not wake the     *)
(* threads that query a blocking job.                                      *)
ResetHardware(c) ==
    /\ c \in Resetters /\ pc[c] = "idle" /\ hw = 0
    /\ TdeHalResumeInit
    /\ Goto(c, "reset")
    /\ UNCHANGED <<memVars, listVars, next, hw, executed, gone, taskletVars,
                   fenceVars, cur, hdl, noti, tmp, asleep, goal>>

TdeOsiListReset(c) ==
    LET all    == Entries(stList)
        compl  == {s \in all : job[s].enNotiType = "COMPL"}
        wake   == {s \in all : job[s].enNotiType = "WAKE"}
        waited == {s \in compl : job[s].u8WaitForDoneCount # 0}
    IN
    /\ pc[c] = "reset" /\ LockFree
    /\ job' = [s \in Slots |-> IF s \in wake \cup waited
                               THEN [job[s] EXCEPT !.enNotiType = "BUTT"]
                               ELSE job[s]]
    /\ allocated' = allocated \ (compl \ waited)
    /\ asleep' = asleep \ UNION {Sleepers(s) : s \in waited}
    /\ stList' = <<>>
    /\ gone' = gone \cup Listed
    /\ IF all = {}
       THEN UNCHANGED <<s32HandleLast, pstJobToCommit, pstJobLast>>
       ELSE s32HandleLast' = -1 /\ pstJobToCommit' = NULL /\ pstJobLast' = NULL
    /\ Goto(c, "idle")
    /\ UNCHANGED <<owner, pstJobFinished, next, hw, curNode, irq, executed,
                   taskletVars, fenceVars, cur, hdl, noti, tmp, goal>>

-------------------------------------------------------------------------------
Client(c) ==
    \/ TdeOsiListBeginJob(c)
    \/ \E h \in Handles :
         \/ TdeOsiSetNodeFinish(c, h) \/ TdeOsiListCancelJob(c, h)
         \/ SubmitTest(c, h) \/ TdeOsiListWaitForDone(c, h)
    \/ TdeOsiListWaitAllDone(c) \/ SignalArrives(c) \/ ResetHardware(c)

(* The rest of a call that a client has begun.                             *)
Proceed(c) ==
    \/ \E mode \in Modes : SubmitMark(c, mode)
    \/ TDE_FENCE_Create(c) \/ FenceStore(c) \/ SubmitJob(c) \/ SubmitWake(c)
    \/ QueryAll(c) \/ WaitEnds(c) \/ WaitAllEnds(c) \/ WaitInterrupted(c)
    \/ TdeOsiListReset(c)

(* The tasklet and the part of NodeComp it runs.                           *)
Tasklet ==
    \/ TaskletRun \/ tde_tasklet_func \/ TdeOsiListNodeComp
    \/ NodeCompTake \/ NodeCompEmpty \/ CallbackReturns \/ NodeCompNotify

Next ==
    \/ \E c \in Clients : Client(c) \/ Proceed(c)
    \/ HwComplete \/ tde_osr_isr \/ CoreDump \/ Tasklet

Spec == Init /\ [][Next]_vars

(* The hardware finishes its jobs, interrupts and tasklets are served, and *)
(* a thread in a call goes on when it can.  That a client calls at all, or *)
(* that a signal arrives, is not assumed.                                  *)
FairSpec ==
    /\ Spec
    /\ WF_vars(HwComplete) /\ WF_vars(tde_osr_isr) /\ WF_vars(Tasklet)
    /\ \A c \in Clients : WF_vars(Proceed(c))

-------------------------------------------------------------------------------
(* The variables have the values the code can give them, and the tasklet   *)
(* deletes a job only while it holds one.                                  *)
TypeOK ==
    /\ allocated \subseteq Slots
    /\ job \in [Slots -> [s32Handle : 0..MaxHandle, cmd : BOOLEAN,
                          bSubmitted : BOOLEAN,
                          enNotiType : {"NONE", "WAKE", "COMPL", "BUTT"},
                          callback : BOOLEAN, fence : 0..MaxHandle,
                          u8WaitForDoneCount : 0..(U8 - 1)]]
    /\ owner \in Seq(Submitters) /\ Len(owner) <= MaxHandle
    /\ stList \in Seq(Slots)
    /\ s32HandleLast \in -1..MaxHandle
    /\ pstJobToCommit \in Slots \cup {NULL} /\ pstJobLast \in Slots \cup {NULL}
    /\ pstJobFinished \in 0..MaxHandle
    /\ next \in [Handles -> 0..MaxHandle]
    /\ hw \in 0..MaxHandle /\ curNode \in 0..MaxHandle /\ irq \in BOOLEAN
    /\ data \in BOOLEAN /\ sched \in BOOLEAN
    /\ tpc \in {"idle", "start", "comp", "loop", "callback", "notify"}
    /\ tjob \in Slots \cup {NULL}
    /\ tjob = NULL <=> tpc \notin {"callback", "notify"}
    /\ asleep \subseteq Clients
    /\ fenceValue \in Nat /\ timeline \in Nat

(* The memory of a job stays while a thread waits for it: what             *)
(* u8WaitForDoneCount is for.                                              *)
WaitedJobIsKept ==
    \A c \in Clients : pc[c] \in {"wait", "wait_all", "interrupted"} =>
        cur[c] \in allocated /\ job[cur[c]].s32Handle = hdl[c]

(* What the hardware runs, and all it will run by its links, is in the     *)
(* list, so that its nodes are not freed under it.                         *)
HardwareRunsListed ==
    /\ hw # 0 => hw \in Listed
    /\ \A h \in Listed : next[h] # 0 => next[h] \in Listed

(* The places of the list from pstJobToCommit on.                          *)
ToCommit == {i \in 1..Len(stList) : \E k \in 1..i : stList[k] = pstJobToCommit}

(* From pstJobToCommit on, the links of the hardware and the list agree,   *)
(* and what was started before does not run into it: no job is left out of *)
(* the next chain, and none runs twice.                                    *)
ChainIsList ==
    /\ pstJobToCommit # NULL =>
         ToCommit # {} /\ pstJobLast = stList[Len(stList)]
    /\ \A i \in 1..Len(stList) :
         LET link == next[job[stList[i]].s32Handle] IN
         IF i \in ToCommit
         THEN link = IF i = Len(stList) THEN 0
                     ELSE job[stList[i + 1]].s32Handle
         ELSE i + 1 \in ToCommit => link = 0

(* A job that TdeOsiListSubmitJob has marked as submitted has somebody who *)
(* will release it: the list, the tasklet, or a thread that submits it or  *)
(* waits for it.  Checked without the fault "fence": a TDE_FENCE_Create    *)
(* that fails leaves the job marked, and with nobody.                      *)
SubmittedIsOwned ==
    \A s \in allocated : job[s].bSubmitted =>
        \/ s \in Entries(stList) \/ s = tjob
        \/ \E c \in Clients : cur[c] = s

(* A release fence is not signalled before its job is done, as those who   *)
(* wait for the fence take it.  It needs the fences numbered in the order  *)
(* in which TdeOsiListNodeComp counts the time line up; TDE_FENCE_Create   *)
(* numbers them before the job joins the list, without a lock, and with    *)
(* two threads that submit the property is violated.                       *)
FenceAfterJob ==
    \A h \in Handles : fenceOf[h] # 0 /\ timeline >= fenceOf[h] =>
        h \in executed \cup gone

(* TdeOsiListWaitAllDone waits for the last job only; when it returns      *)
(* success, woken or because the last job is released already, every job   *)
(* that was in the list when it was called is done.                        *)
WaitAllMeansDone ==
    [][\A c \in Clients :
         goal[c] # {} /\ goal'[c] = {} /\ pc[c] # "interrupted" =>
             goal[c] \subseteq executed' \cup gone']_vars

(* Every job in the list is completed by TdeOsiListNodeComp and taken off  *)
(* it, whatever was chained, started or interrupted meanwhile.             *)
JobsComplete == \A h \in Handles : h \in Listed ~> h \notin Listed

(* TdeOsiListWaitAllDone comes back: the completion of the last job wakes  *)
(* it, or it finds the job done.                                           *)
WaitAllReturns ==
    \A c \in Clients : pc[c] \in {"query_all", "wait_all"} ~> pc[c] = "idle"

(* TdeOsiListReset leaves the hardware idle and nothing for it to do.      *)
ResetIsComplete ==
    [][\A c \in Clients : pc[c] = "reset" /\ pc'[c] = "idle" =>
         hw' = 0 /\ pstJobToCommit' = NULL]_vars

(* A job is in the list once at most: TdeOsiListSubmitJob refuses a job    *)
(* that is submitted already.                                              *)
SubmittedOnce == LinkedOnce(stList)
===============================================================================
