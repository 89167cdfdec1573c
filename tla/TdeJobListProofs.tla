--------------------------- MODULE TdeJobListProofs ---------------------------
(***************************************************************************)
(* The proofs of TdeJobList: the memory of jobs, the chain of the hardware *)
(* and the wait for all jobs.                                              *)
(***************************************************************************)
EXTENDS TdeJobList, KernelListProofs, FiniteSetTheorems, TLAPS

(* What the theorems assume of the users of the driver: a thread ends only *)
(* the jobs it began, and a job has fewer waiting threads than its HI_U8   *)
(* can count.                                                              *)
ProperUse ==
    /\ SharedHandles = FALSE
    /\ IsFiniteSet(Waiters) /\ Cardinality(Waiters) < U8

-------------------------------------------------------------------------------
(* The places of a submit before the job is in the list, and of a wait.    *)
PreList == {"mark", "fence", "fence_store", "list"}
Waiting == {"wait", "wait_all", "interrupted"}
WaitersOf(s) == {c \in Waiters : pc[c] \in Waiting /\ cur[c] = s}

(* What TypeOK leaves out.                                                 *)
PlacesOK ==
    /\ pc \in [Clients -> {"idle", "blocked", "query_all", "reset"}
                            \cup PreList \cup Waiting]
    /\ cur \in [Clients -> Slots \cup {NULL}]
    /\ hdl \in [Clients -> -1..MaxHandle]
    /\ noti \in [Clients -> {"NONE", "WAKE", "COMPL"}]
    /\ tmp \in [Clients -> Nat] /\ fenceOf \in [Handles -> Nat]
    /\ tkind \in {"NONE", "WAKE", "COMPL"}
    /\ \A c \in Clients : pc[c] = "blocked" => cur[c] \in Slots
    /\ \A c \in Clients : pc[c] = "reset" => c \in Resetters

(* A handle is given out once: no two slots have it, not even freed ones.  *)
(* What is done, or was listed last, is submitted.                         *)
HandleInv ==
    /\ \A s \in Slots : job[s].s32Handle <= Len(owner)
    /\ \A s \in allocated :
         /\ job[s].s32Handle >= 1
         /\ job[s].enNotiType = "BUTT" => job[s].bSubmitted
    /\ \A s, t \in Slots :
         job[s].s32Handle = job[t].s32Handle /\ job[s].s32Handle # 0 => s = t
    /\ s32HandleLast <= Len(owner)
    /\ \A s \in query_handle(s32HandleLast) : job[s].bSubmitted

(* A submit that has not reached the list works on a job that is its own.  *)
SubmitInv(c) ==
    pc[c] \in PreList =>
        /\ cur[c] \in allocated /\ job[cur[c]].s32Handle = hdl[c]
        /\ owner[hdl[c]] = c
        /\ job[cur[c]].bSubmitted <=> pc[c] # "mark"
        /\ pc[c] # "mark" => job[cur[c]].enNotiType \in {"WAKE", "COMPL"}
        /\ cur[c] \notin Entries(stList)

(* A thread that waits is one of those its job counts.                     *)
WaitInv(c) ==
    /\ pc[c] \in Waiting =>
         /\ c \in Waiters /\ cur[c] \in allocated
         /\ job[cur[c]].s32Handle = hdl[c] /\ job[cur[c]].bSubmitted
    /\ pc[c] = "query_all" =>
         /\ c \in Waiters /\ hdl[c] <= Len(owner)
         /\ \A s \in query_handle(hdl[c]) : job[s].bSubmitted

CountInv ==
    \A s \in allocated :
        job[s].u8WaitForDoneCount = Cardinality(WaitersOf(s))

ListInv ==
    /\ LinkedOnce(stList)
    /\ \A s \in Entries(stList) :
         /\ s \in allocated /\ job[s].bSubmitted
         /\ job[s].enNotiType \in {"WAKE", "COMPL"}

(* The tasklet's job is its own, unless a submit blocks on it: then it may *)
(* be freed, and its slot given out again, while the callback runs.        *)
TaskletInv ==
    tpc \in {"callback", "notify"} =>
        /\ tkind \in {"WAKE", "COMPL"}
        /\ tkind = "COMPL" =>
             /\ tjob \in allocated /\ job[tjob].bSubmitted
             /\ job[tjob].enNotiType = "COMPL"
             /\ tjob \notin Entries(stList)
             /\ \A c \in Clients : pc[c] \in PreList => cur[c] # tjob

(* The handles whose submit is past TDE_FENCE_Create, or will not reach it.*)
Fenced ==
    {h \in 1..Len(owner) :
        /\ \A s \in query_handle(h) : job[s].bSubmitted
        /\ \A c \in Clients : pc[c] \in {"fence", "fence_store"} => hdl[c] # h}

FenceBound ==
    /\ fenceValue <= Cardinality(Fenced)
    /\ \A c \in Clients :
         pc[c] = "fence_store" => tmp[c] <= Cardinality(Fenced)

MemInv ==
    /\ TypeOK /\ PlacesOK /\ HandleInv /\ ListInv /\ TaskletInv
    /\ \A c \in Clients : SubmitInv(c)
    /\ \A c \in Clients : WaitInv(c)
    /\ CountInv /\ FenceBound

(* A submitted job is on its way through the list, or it is done and has   *)
(* somebody who will release it: a blocking job its submit, any other the  *)
(* threads that wait for it.                                               *)
OnItsWay(s) ==
    \/ s \in Entries(stList)
    \/ s = tjob /\ tkind = "COMPL"
    \/ \E c \in Clients : pc[c] \in PreList /\ cur[c] = s

HasSubmit(s) ==
    \E c \in Clients :
        /\ cur[c] = s
        /\ pc[c] = "blocked" \/ (pc[c] = "list" /\ noti[c] = "WAKE")

HasBlocked(s) == \E c \in Clients : cur[c] = s /\ pc[c] = "blocked"

Held(s) ==
    /\ job[s].bSubmitted /\ job[s].enNotiType # "BUTT" => OnItsWay(s)
    /\ job[s].enNotiType = "WAKE" => HasSubmit(s)
    /\ job[s].enNotiType = "BUTT" /\ job[s].u8WaitForDoneCount = 0 =>
         HasBlocked(s)

HeldInv == \A s \in allocated : Held(s)

-------------------------------------------------------------------------------
(* What the provers need to know of a job.                                 *)
JobType == [s32Handle : 0..MaxHandle, cmd : BOOLEAN, bSubmitted : BOOLEAN,
            enNotiType : {"NONE", "WAKE", "COMPL", "BUTT"},
            callback : BOOLEAN, fence : 0..MaxHandle,
            u8WaitForDoneCount : 0..(U8 - 1)]

LEMMA JobFacts ==
    ASSUME TypeOK
    PROVE  /\ job \in [Slots -> JobType]
           /\ \A s \in Slots :
                /\ job[s].s32Handle \in 0..MaxHandle
                /\ job[s].bSubmitted \in BOOLEAN
                /\ job[s].fence \in 0..MaxHandle
                /\ job[s].u8WaitForDoneCount \in 0..(U8 - 1)
BY DEF TypeOK, JobType

(* TdeOsiListDestroyJob frees the slot it is called for and no other, even *)
(* when it is called for a job that is released already.                   *)
LEMMA DestroyFacts ==
    ASSUME TypeOK, HandleInv, NEW s \in Slots
    PROVE  DestroyJob(s) = allocated \ {s}
BY JobFacts DEF TypeOK, HandleInv, DestroyJob, query_handle

(* The listed slots are slots.                                             *)
LEMMA EntryFacts ==
    ASSUME TypeOK
    PROVE  /\ Entries(stList) \subseteq Slots
           /\ \A i \in 1..Len(stList) : stList[i] \in Entries(stList)
           /\ stList # <<>> =>
                /\ Len(stList) \in Nat \ {0}
                /\ Head(stList) = stList[1]
                /\ Head(stList) \in Entries(stList)
<1>1. stList \in Seq(Slots)
  BY DEF TypeOK
<1> QED BY <1>1 DEF Entries

(* Nobody waits for a slot that is free.                                   *)
LEMMA FreeSlotFacts ==
    ASSUME MemInv, NEW s \in Slots \ allocated
    PROVE  WaitersOf(s) = {}
BY DEF MemInv, WaitInv, WaitersOf, Clients

LEMMA WaitersFacts ==
    ASSUME ProperUse, NEW s
    PROVE  /\ IsFiniteSet(WaitersOf(s))
           /\ Cardinality(WaitersOf(s)) \in 0..(U8 - 1)
           /\ Cardinality(WaitersOf(s)) = 0 <=> WaitersOf(s) = {}
<1>1. WaitersOf(s) \subseteq Waiters
  BY DEF WaitersOf
<1>2. /\ IsFiniteSet(WaitersOf(s))
      /\ Cardinality(WaitersOf(s)) <= Cardinality(Waiters)
  BY <1>1, FS_Subset DEF ProperUse
<1>3. Cardinality(WaitersOf(s)) \in Nat /\ Cardinality(Waiters) \in Nat
  BY <1>2, FS_CardinalityType DEF ProperUse
<1>4. Cardinality(WaitersOf(s)) = 0 <=> WaitersOf(s) = {}
  BY <1>2, FS_EmptySet
<1> QED BY <1>2, <1>3, <1>4 DEF ProperUse, U8

(* The counts stay right when nobody begins or ends to wait.               *)
LEMMA CountKept ==
    ASSUME MemInv,
           \A s \in allocated' :
               \/ /\ s \in allocated
                  /\ job'[s].u8WaitForDoneCount = job[s].u8WaitForDoneCount
               \/ /\ s \in Slots \ allocated
                  /\ job'[s].u8WaitForDoneCount = 0,
           \A d \in Waiters : /\ pc'[d] \in Waiting <=> pc[d] \in Waiting
                              /\ pc[d] \in Waiting => cur'[d] = cur[d]
    PROVE  CountInv'
<1>1. SUFFICES ASSUME NEW s \in allocated'
              PROVE  job'[s].u8WaitForDoneCount = Cardinality(WaitersOf(s)')
  BY DEF CountInv
<1>2. WaitersOf(s)' = WaitersOf(s)
  BY DEF WaitersOf
<1>3. CASE s \in allocated
  BY <1>2, <1>3 DEF MemInv, CountInv
<1>4. CASE s \notin allocated
  BY <1>2, <1>4, FreeSlotFacts, FS_EmptySet
<1> QED BY <1>3, <1>4

(* The fences stay below the count of jobs when no fence is created.       *)
LEMMA FenceKept ==
    ASSUME MemInv, Fenced \subseteq Fenced', Len(owner)' \in Nat,
           fenceValue' = fenceValue,
           \A d \in Clients : pc'[d] = "fence_store" =>
               \/ tmp'[d] = fenceValue
               \/ pc[d] = "fence_store" /\ tmp'[d] = tmp[d]
    PROVE  FenceBound'
<1>1. /\ IsFiniteSet(Fenced') /\ IsFiniteSet(Fenced)
      /\ Cardinality(Fenced) <= Cardinality(Fenced')
  <2>1. IsFiniteSet(1..Len(owner)')
    BY FS_Interval
  <2>2. Fenced' \subseteq 1..Len(owner)'
    BY DEF Fenced
  <2> QED BY <2>1, <2>2, FS_Subset
<1>2. Cardinality(Fenced) \in Nat /\ Cardinality(Fenced') \in Nat
  BY <1>1, FS_CardinalityType
<1>3. fenceValue <= Cardinality(Fenced')
  BY <1>1, <1>2 DEF MemInv, FenceBound, TypeOK
<1>4. ASSUME NEW d \in Clients, pc'[d] = "fence_store"
      PROVE  tmp'[d] <= Cardinality(Fenced')
  <2>1. CASE tmp'[d] = fenceValue
    BY <1>3, <2>1
  <2>2. CASE pc[d] = "fence_store" /\ tmp'[d] = tmp[d]
    <3>1. tmp[d] <= Cardinality(Fenced) /\ tmp[d] \in Nat
      BY <2>2 DEF MemInv, FenceBound, PlacesOK
    <3> QED BY <1>1, <1>2, <2>2, <3>1
  <2> QED BY <1>4, <2>1, <2>2
<1> QED BY <1>3, <1>4 DEF FenceBound
-------------------------------------------------------------------------------
(* The steps that leave the jobs, the list and the threads alone.          *)
LEMMA QuietStep ==
    ASSUME MemInv, TypeOK',
           UNCHANGED <<allocated, job, owner, stList, s32HandleLast, tjob,
                       tkind, fenceValue, fenceOf, pc, cur, hdl, noti, tmp>>,
           tpc' \in {"callback", "notify"} => tpc \in {"callback", "notify"}
    PROVE  MemInv'
<1>1. PlacesOK' /\ HandleInv' /\ ListInv' /\ TaskletInv'
  BY DEF MemInv, PlacesOK, HandleInv, ListInv, TaskletInv, query_handle
<1>2. \A c \in Clients : SubmitInv(c)' /\ WaitInv(c)'
  BY DEF MemInv, SubmitInv, WaitInv, query_handle
<1>3. CountInv' /\ FenceBound'
  BY DEF MemInv, CountInv, FenceBound, WaitersOf, Fenced, query_handle
<1> QED BY <1>1, <1>2, <1>3 DEF MemInv

LEMMA EngineInv ==
    ASSUME MemInv,
           \/ HwComplete \/ tde_osr_isr \/ CoreDump \/ TaskletRun
           \/ tde_tasklet_func \/ TdeOsiListNodeComp \/ NodeCompEmpty
           \/ CallbackReturns
    PROVE  MemInv'
<1> USE TdeAssumption DEF memVars, listVars, hwVars, taskletVars, fenceVars,
                         clientVars
<1>1. CASE HwComplete
  <2>1. hw' \in 0..MaxHandle /\ curNode' \in 0..MaxHandle
    BY <1>1 DEF MemInv, TypeOK, HwComplete, Handles
  <2>2. TypeOK'
    BY <1>1, <2>1 DEF MemInv, TypeOK, HwComplete
  <2> QED BY <1>1, <2>2, QuietStep DEF HwComplete
<1>2. CASE tde_osr_isr
  BY <1>2, QuietStep DEF MemInv, TypeOK, tde_osr_isr
<1>3. CASE CoreDump
  <2>1. hw' \in 0..MaxHandle /\ curNode' \in 0..MaxHandle
    BY <1>3 DEF MemInv, TypeOK, CoreDump
  <2>2. TypeOK'
    BY <1>3, <2>1 DEF MemInv, TypeOK, CoreDump
  <2> QED BY <1>3, <2>2, QuietStep DEF CoreDump
<1>4. CASE TaskletRun
  BY <1>4, QuietStep DEF MemInv, TypeOK, TaskletRun
<1>5. CASE tde_tasklet_func
  BY <1>5, QuietStep DEF MemInv, TypeOK, tde_tasklet_func
<1>6. CASE TdeOsiListNodeComp
  <2>1. /\ pstJobFinished' \in 0..MaxHandle /\ tpc' \in {"idle", "loop"}
        /\ tpc = "comp"
    BY <1>6 DEF MemInv, TypeOK, TdeOsiListNodeComp
  <2>2. TypeOK'
    BY <1>6, <2>1 DEF MemInv, TypeOK, TdeOsiListNodeComp
  <2> QED BY <1>6, <2>2, QuietStep DEF TdeOsiListNodeComp
<1>7. CASE NodeCompEmpty
  BY <1>7, QuietStep DEF MemInv, TypeOK, NodeCompEmpty
<1>8. CASE CallbackReturns
  BY <1>8, QuietStep DEF MemInv, TypeOK, CallbackReturns
<1> QED BY <1>1, <1>2, <1>3, <1>4, <1>5, <1>6, <1>7, <1>8

(* The steps of one thread that leave the jobs and the list alone.         *)
LEMMA ThreadStep ==
    ASSUME MemInv, TypeOK', PlacesOK', NEW c \in Clients,
           UNCHANGED <<allocated, job, owner, stList, s32HandleLast, tpc, tjob,
                       tkind, fenceValue, fenceOf>>,
           \A d \in Clients : d # c =>
               /\ pc'[d] = pc[d] /\ cur'[d] = cur[d]
               /\ hdl'[d] = hdl[d] /\ tmp'[d] = tmp[d],
           pc'[c] \in Waiting <=> pc[c] \in Waiting,
           pc[c] \in Waiting => cur'[c] = cur[c] /\ hdl'[c] = hdl[c],
           pc'[c] \in PreList =>
               /\ pc[c] \in PreList
               /\ pc'[c] = "mark" <=> pc[c] = "mark"
               /\ cur'[c] = cur[c] /\ hdl'[c] = hdl[c],
           pc'[c] \in {"fence", "fence_store"} =>
               pc[c] \in {"fence", "fence_store"},
           pc'[c] = "fence_store" => tmp'[c] = fenceValue,
           pc'[c] = "query_all" => c \in Waiters /\ hdl'[c] = s32HandleLast
    PROVE  MemInv'
<1>1. HandleInv' /\ ListInv'
  BY DEF MemInv, HandleInv, ListInv, query_handle
<1>2. TaskletInv'
  <2>1. \A d \in Clients : pc'[d] \in PreList =>
            pc[d] \in PreList /\ cur'[d] = cur[d] /\ hdl'[d] = hdl[d]
    OBVIOUS
  <2> QED BY <2>1 DEF MemInv, TaskletInv
<1>3. \A d \in Clients : SubmitInv(d)'
  <2> TAKE d \in Clients
  <2>1. CASE d # c
    BY <2>1 DEF MemInv, SubmitInv
  <2>2. CASE d = c
    BY <2>2 DEF MemInv, SubmitInv
  <2> QED BY <2>1, <2>2
<1>4. \A d \in Clients : WaitInv(d)'
  <2> TAKE d \in Clients
  <2>1. CASE d # c
    BY <2>1 DEF MemInv, WaitInv, query_handle
  <2>2. CASE d = c
    BY <2>2 DEF MemInv, HandleInv, WaitInv, query_handle
  <2> QED BY <2>1, <2>2
<1>5. CountInv'
  <2>1. \A d \in Waiters : /\ pc'[d] \in Waiting <=> pc[d] \in Waiting
                           /\ pc[d] \in Waiting => cur'[d] = cur[d]
    BY DEF Clients
  <2> QED BY <2>1, CountKept DEF MemInv
<1>6. FenceBound'
  <2>1. \A d \in Clients : pc'[d] \in {"fence", "fence_store"} =>
            pc[d] \in {"fence", "fence_store"} /\ hdl'[d] = hdl[d]
    BY DEF PreList
  <2>2. Fenced \subseteq Fenced'
    BY <2>1 DEF Fenced, query_handle
  <2>3. Len(owner)' \in Nat
    BY DEF MemInv, TypeOK
  <2>4. \A d \in Clients : pc'[d] = "fence_store" =>
            \/ tmp'[d] = fenceValue
            \/ pc[d] = "fence_store" /\ tmp'[d] = tmp[d]
    OBVIOUS
  <2> QED BY <2>2, <2>3, <2>4, FenceKept
<1> QED BY <1>1, <1>2, <1>3, <1>4, <1>5, <1>6 DEF MemInv

-------------------------------------------------------------------------------
(* The steps that leave the list and the tasklet alone: handles stay, a    *)
(* job stays submitted, and what is freed is in nobody's hands.            *)
LEMMA JobStep ==
    ASSUME MemInv, TypeOK', PlacesOK', NEW c \in Clients,
           UNCHANGED <<owner, stList, s32HandleLast, tpc, tjob, tkind,
                       fenceValue>>,
           allocated' \subseteq allocated,
           \A s \in Slots : /\ job'[s].s32Handle = job[s].s32Handle
                            /\ job'[s].bSubmitted <=> job[s].bSubmitted,
           \A s \in Slots : job'[s].enNotiType # job[s].enNotiType =>
               /\ job[s].enNotiType # "BUTT" /\ job'[s].enNotiType = "COMPL",
           \A s \in allocated \ allocated' :
               /\ job[s].bSubmitted => job[s].enNotiType = "BUTT"
               /\ ~job[s].bSubmitted =>
                    \A d \in Clients : pc[d] = "mark" => cur[d] # s
               /\ \A d \in Clients : pc'[d] \in Waiting => cur'[d] # s,
           \A d \in Clients : d # c =>
               /\ pc'[d] = pc[d] /\ cur'[d] = cur[d]
               /\ hdl'[d] = hdl[d] /\ tmp'[d] = tmp[d],
           pc'[c] \notin PreList, pc[c] \notin PreList,
           WaitInv(c)', CountInv'
    PROVE  MemInv'
<1>0. allocated \subseteq Slots /\ tjob \in Slots \cup {NULL}
  BY DEF MemInv, TypeOK
<1>1. HandleInv'
  <2>1. HandleInv
    BY DEF MemInv
  <2>2. \A s \in allocated' :
          job'[s].enNotiType = "BUTT" => job[s].enNotiType = "BUTT"
    BY <1>0
  <2> QED BY <1>0, <2>1, <2>2 DEF HandleInv, query_handle
<1>2. ListInv'
  BY EntryFacts DEF MemInv, ListInv
<1>3. TaskletInv'
  BY DEF MemInv, TaskletInv, TypeOK
<1>4. \A d \in Clients : SubmitInv(d)'
  <2> TAKE d \in Clients
  <2>1. d # c => pc'[d] = pc[d] /\ cur'[d] = cur[d] /\ hdl'[d] = hdl[d]
    OBVIOUS
  <2>2. SubmitInv(d)
    BY DEF MemInv
  <2>3. CASE d = c
    BY <2>3 DEF SubmitInv
  <2>4. CASE d # c /\ pc[d] \in PreList
    <3>1. cur[d] \in allocated'
      BY <2>2, <2>4, <1>0 DEF SubmitInv
    <3> QED BY <3>1, <2>1, <2>2, <2>4, <1>0 DEF SubmitInv
  <2> QED BY <2>1, <2>3, <2>4 DEF SubmitInv
<1>5. \A d \in Clients : WaitInv(d)'
  <2> TAKE d \in Clients
  <2>1. CASE d # c
    <3>1. WaitInv(d) /\ pc'[d] = pc[d] /\ cur'[d] = cur[d] /\ hdl'[d] = hdl[d]
      BY <2>1 DEF MemInv
    <3> QED BY <3>1, <1>0 DEF WaitInv, query_handle
  <2> QED BY <2>1
<1>6. FenceBound'
  <2>1. \A d \in Clients : pc'[d] \in {"fence", "fence_store"} =>
            pc[d] \in {"fence", "fence_store"} /\ hdl'[d] = hdl[d]
    BY DEF PreList
  <2>2. Fenced \subseteq Fenced'
    BY <2>1, <1>0 DEF Fenced, query_handle
  <2>3. Len(owner)' \in Nat
    BY DEF MemInv, TypeOK
  <2>4. \A d \in Clients : pc'[d] = "fence_store" =>
            \/ tmp'[d] = fenceValue
            \/ pc[d] = "fence_store" /\ tmp'[d] = tmp[d]
    BY DEF PreList
  <2> QED BY <2>2, <2>3, <2>4, FenceKept
<1> QED BY <1>1, <1>2, <1>3, <1>4, <1>5, <1>6 DEF MemInv

LEMMA SubmitWakeInv ==
    ASSUME ProperUse, MemInv, NEW c \in Clients, SubmitWake(c)
    PROVE  MemInv'
<1> USE TdeAssumption DEF listVars, hwVars, taskletVars, fenceVars
<1>1. PICK s \in Slots : s = cur[c]
  BY DEF MemInv, PlacesOK, SubmitWake
<1>2. /\ pc[c] = "blocked" /\ pc' = [pc EXCEPT ![c] = "idle"]
      /\ cur' = [cur EXCEPT ![c] = NULL] /\ hdl' = [hdl EXCEPT ![c] = 0]
      /\ noti' = [noti EXCEPT ![c] = "NONE"]
      /\ UNCHANGED <<owner, listVars, hwVars, taskletVars, fenceVars, tmp,
                     asleep>>
      /\ \/ /\ job[s].enNotiType = "BUTT" /\ job' = job
            /\ allocated' = IF job[s].u8WaitForDoneCount = 0
                            THEN allocated \ {s} ELSE allocated
         \/ /\ job[s].enNotiType # "BUTT" /\ allocated' = allocated
            /\ job' = [job EXCEPT ![s].enNotiType = "COMPL"]
  BY <1>1, DestroyFacts DEF SubmitWake, Goto, MemInv
<1>3. /\ job' \in [Slots -> JobType]
      /\ \A t \in Slots :
           /\ job'[t].s32Handle = job[t].s32Handle
           /\ job'[t].bSubmitted <=> job[t].bSubmitted
           /\ job'[t].u8WaitForDoneCount = job[t].u8WaitForDoneCount
           /\ job'[t].enNotiType # job[t].enNotiType =>
                /\ job[t].enNotiType # "BUTT" /\ job'[t].enNotiType = "COMPL"
  BY <1>2, JobFacts DEF MemInv, JobType
<1>4. TypeOK'
  BY <1>2, <1>3 DEF MemInv, TypeOK, JobType
<1>5. PlacesOK'
  BY <1>2 DEF MemInv, PlacesOK, Clients
<1>6. \A d \in Clients : d # c =>
          /\ pc'[d] = pc[d] /\ cur'[d] = cur[d]
          /\ hdl'[d] = hdl[d] /\ tmp'[d] = tmp[d]
  BY <1>2 DEF MemInv, PlacesOK
<1>7. pc'[c] = "idle"
  BY <1>2 DEF MemInv, PlacesOK
<1>8. \A t \in allocated \ allocated' :
          /\ job[t].bSubmitted => job[t].enNotiType = "BUTT"
          /\ ~job[t].bSubmitted =>
               \A d \in Clients : pc[d] = "mark" => cur[d] # t
          /\ \A d \in Clients : pc'[d] \in Waiting => cur'[d] # t
  <2> TAKE t \in allocated \ allocated'
  <2>1. /\ t = s /\ s \in allocated
        /\ job[s].u8WaitForDoneCount = 0 /\ job[s].enNotiType = "BUTT"
        /\ job[s].bSubmitted
    BY <1>2 DEF MemInv, HandleInv
  <2>2. WaitersOf(s) = {}
    BY <2>1, WaitersFacts DEF MemInv, CountInv
  <2>3. \A d \in Clients : pc'[d] \in Waiting => cur'[d] # t
    BY <2>1, <2>2, <1>6, <1>7 DEF MemInv, WaitInv, WaitersOf, Waiting
  <2> QED BY <2>1, <2>3
<1>9. WaitInv(c)'
  BY <1>7 DEF WaitInv, Waiting
<1>10. CountInv'
  <2>1. \A d \in Waiters : /\ pc'[d] \in Waiting <=> pc[d] \in Waiting
                           /\ pc[d] \in Waiting => cur'[d] = cur[d]
    BY <1>2, <1>6, <1>7 DEF Clients, Waiting
  <2> QED BY <2>1, <1>2, <1>3, CountKept DEF MemInv, TypeOK
<1>11. pc'[c] \notin PreList /\ pc[c] \notin PreList
  BY <1>2, <1>7 DEF PreList
<1> QED BY <1>2, <1>3, <1>4, <1>5, <1>6, <1>8, <1>9, <1>10, <1>11, JobStep

(* A thread that begins to wait is counted; the HI_U8 does not wrap.       *)
LEMMA CountInFacts ==
    ASSUME ProperUse, MemInv, NEW c \in Waiters, NEW s \in allocated,
           NEW place \in Waiting, pc[c] \notin Waiting, CountIn(c, s, place),
           allocated' = allocated
    PROVE  /\ job' \in [Slots -> JobType]
           /\ \A t \in Slots :
                /\ job'[t].s32Handle = job[t].s32Handle
                /\ job'[t].bSubmitted <=> job[t].bSubmitted
                /\ job'[t].enNotiType = job[t].enNotiType
                /\ job'[t].fence = job[t].fence
                /\ t # s => job'[t].u8WaitForDoneCount = job[t].u8WaitForDoneCount
           /\ job'[s].u8WaitForDoneCount # 0
           /\ CountInv'
<1>1. s \in Slots /\ c \in Clients
  BY DEF MemInv, TypeOK, Clients
<1>2. /\ job' = [job EXCEPT ![s].u8WaitForDoneCount = (@ + 1) % U8]
      /\ pc'[c] \in Waiting /\ cur'[c] = s
      /\ \A d \in Clients : d # c => pc'[d] = pc[d] /\ cur'[d] = cur[d]
  BY <1>1 DEF CountIn, Goto, MemInv, PlacesOK
<1>3. \A n \in 0..(U8 - 1) : (n + 1) % U8 \in 0..(U8 - 1)
  BY DEF U8
<1>4. /\ job' \in [Slots -> JobType]
      /\ \A t \in Slots :
           /\ job'[t].s32Handle = job[t].s32Handle
           /\ job'[t].bSubmitted <=> job[t].bSubmitted
           /\ job'[t].enNotiType = job[t].enNotiType
           /\ job'[t].fence = job[t].fence
           /\ job'[t].u8WaitForDoneCount =
                IF t = s THEN (job[t].u8WaitForDoneCount + 1) % U8
                ELSE job[t].u8WaitForDoneCount
  BY <1>1, <1>2, <1>3, JobFacts DEF MemInv, JobType
<1>5. ASSUME NEW t \in allocated
      PROVE  /\ job'[t].u8WaitForDoneCount = Cardinality(WaitersOf(t)')
             /\ t = s => job'[t].u8WaitForDoneCount # 0
  <2>1. t \in Slots
    BY DEF MemInv, TypeOK
  <2>2. job[t].u8WaitForDoneCount = Cardinality(WaitersOf(t))
    BY DEF MemInv, CountInv
  <2>3. CASE t # s
    <3>1. WaitersOf(t)' = WaitersOf(t)
      BY <1>1, <1>2, <2>3 DEF WaitersOf, Clients
    <3> QED BY <3>1, <2>1, <2>2, <2>3, <1>4
  <2>4. CASE t = s
    <3>1. WaitersOf(s)' = WaitersOf(s) \cup {c} /\ c \notin WaitersOf(s)
      BY <1>1, <1>2 DEF WaitersOf, Clients
    <3>2. IsFiniteSet(WaitersOf(s)) /\ Cardinality(WaitersOf(s)) \in Nat
      BY WaitersFacts
    <3>3. Cardinality(WaitersOf(s)') = Cardinality(WaitersOf(s)) + 1
      BY <3>1, <3>2, FS_AddElement
    <3>4. Cardinality(WaitersOf(s)') < U8
      <4>1. WaitersOf(s)' \subseteq Waiters
        BY DEF WaitersOf
      <4>2. Cardinality(WaitersOf(s)') <= Cardinality(Waiters)
        BY <4>1, FS_Subset DEF ProperUse
      <4>3. Cardinality(Waiters) \in Nat
        BY FS_CardinalityType DEF ProperUse
      <4> QED BY <4>2, <4>3, <3>2, <3>3 DEF ProperUse, U8
    <3>5. (Cardinality(WaitersOf(s)) + 1) % U8 = Cardinality(WaitersOf(s)) + 1
      BY <3>2, <3>3, <3>4 DEF U8
    <3> QED BY <3>2, <3>3, <3>5, <2>1, <2>2, <2>4, <1>4
  <2> QED BY <2>3, <2>4
<1> QED BY <1>4, <1>5 DEF CountInv

(* A thread that stops to wait is counted out.                             *)
LEMMA CountOutFacts ==
    ASSUME ProperUse, MemInv, NEW c \in Clients, pc[c] \in Waiting, CountOut(c),
           NEW s \in Slots, s = cur[c]
    PROVE  /\ job' \in [Slots -> JobType]
           /\ \A t \in Slots :
                /\ job'[t].s32Handle = job[t].s32Handle
                /\ job'[t].bSubmitted <=> job[t].bSubmitted
                /\ job'[t].enNotiType = job[t].enNotiType
                /\ job'[t].fence = job[t].fence
           /\ s \in allocated /\ c \in Waiters
           /\ allocated' = IF job[s].enNotiType = "BUTT" /\ WaitersOf(s)' = {}
                           THEN allocated \ {s} ELSE allocated
           /\ \A t \in allocated :
                job'[t].u8WaitForDoneCount = Cardinality(WaitersOf(t)')
           /\ job'[s].u8WaitForDoneCount = 0 <=> WaitersOf(s)' = {}
           /\ \A t \in Slots : t # s =>
                job'[t].u8WaitForDoneCount = job[t].u8WaitForDoneCount
<1>1. s \in allocated /\ s = cur[c]
  BY DEF MemInv, WaitInv
<1>2. s \in Slots /\ c \in Waiters /\ c \in Clients
  BY DEF MemInv, TypeOK, WaitInv
<1>3. /\ job' = [job EXCEPT ![s].u8WaitForDoneCount = (@ - 1) % U8]
      /\ allocated' = IF /\ job[s].enNotiType = "BUTT"
                         /\ (job[s].u8WaitForDoneCount - 1) % U8 = 0
                      THEN allocated \ {s} ELSE allocated
      /\ pc'[c] = "idle"
      /\ \A d \in Clients : d # c => pc'[d] = pc[d] /\ cur'[d] = cur[d]
  <2>1. DestroyJob(s) = allocated \ {s}
    BY <1>2, DestroyFacts DEF MemInv
  <2> QED BY <1>1, <1>2, <2>1 DEF CountOut, Goto, MemInv, PlacesOK
<1>4. \A n \in 0..(U8 - 1) : (n - 1) % U8 \in 0..(U8 - 1)
  BY DEF U8
<1>5. /\ job' \in [Slots -> JobType]
      /\ \A t \in Slots :
           /\ job'[t].s32Handle = job[t].s32Handle
           /\ job'[t].bSubmitted <=> job[t].bSubmitted
           /\ job'[t].enNotiType = job[t].enNotiType
           /\ job'[t].fence = job[t].fence
           /\ job'[t].u8WaitForDoneCount =
                IF t = s THEN (job[t].u8WaitForDoneCount - 1) % U8
                ELSE job[t].u8WaitForDoneCount
  BY <1>2, <1>3, <1>4, JobFacts DEF MemInv, JobType
<1>6. (job[s].u8WaitForDoneCount - 1) % U8 = Cardinality(WaitersOf(s)')
  <2>1. WaitersOf(s)' = WaitersOf(s) \ {c} /\ c \in WaitersOf(s)
    BY <1>1, <1>2, <1>3 DEF WaitersOf, Clients, Waiting
  <2>2. /\ IsFiniteSet(WaitersOf(s))
        /\ Cardinality(WaitersOf(s)) \in 0..(U8 - 1)
        /\ Cardinality(WaitersOf(s)) # 0
    BY <2>1, WaitersFacts
  <2>3. Cardinality(WaitersOf(s)') = Cardinality(WaitersOf(s)) - 1
    BY <2>1, <2>2, FS_RemoveElement
  <2>4. (Cardinality(WaitersOf(s)) - 1) % U8 = Cardinality(WaitersOf(s)) - 1
    BY <2>2 DEF U8
  <2> QED BY <1>1, <2>3, <2>4 DEF MemInv, CountInv
<1>7. IsFiniteSet(WaitersOf(s)')
  <2>1. WaitersOf(s)' \subseteq Waiters
    BY DEF WaitersOf
  <2> QED BY <2>1, FS_Subset DEF ProperUse
<1>8. Cardinality(WaitersOf(s)') = 0 <=> WaitersOf(s)' = {}
  BY <1>7, FS_EmptySet
<1>9. ASSUME NEW t \in allocated
      PROVE  job'[t].u8WaitForDoneCount = Cardinality(WaitersOf(t)')
  <2>1. t \in Slots
    BY DEF MemInv, TypeOK
  <2>2. CASE t # s
    <3>1. WaitersOf(t)' = WaitersOf(t)
      BY <1>1, <1>2, <1>3, <2>2 DEF WaitersOf, Clients, Waiting
    <3> QED BY <3>1, <2>1, <2>2, <1>5 DEF MemInv, CountInv
  <2>3. CASE t = s
    BY <2>1, <2>3, <1>5, <1>6
  <2> QED BY <2>2, <2>3
<1>10. allocated' = IF job[s].enNotiType = "BUTT" /\ WaitersOf(s)' = {}
                    THEN allocated \ {s} ELSE allocated
  BY <1>3, <1>6, <1>8
<1> QED BY <1>1, <1>2, <1>5, <1>6, <1>8, <1>9, <1>10

LEMMA WaitEndsInv ==
    ASSUME ProperUse, MemInv, NEW c \in Clients,
           WaitEnds(c) \/ WaitAllEnds(c) \/ WaitInterrupted(c)
    PROVE  MemInv'
<1> USE TdeAssumption DEF listVars, hwVars, taskletVars, fenceVars
<1>1. CountOut(c) /\ pc[c] \in Waiting
  BY DEF WaitEnds, WaitAllEnds, WaitInterrupted, Waiting
<1>2. PICK s \in Slots : s = cur[c]
  BY <1>1 DEF MemInv, WaitInv, TypeOK
<1>3. /\ job' \in [Slots -> JobType]
      /\ \A t \in Slots :
           /\ job'[t].s32Handle = job[t].s32Handle
           /\ job'[t].bSubmitted <=> job[t].bSubmitted
           /\ job'[t].enNotiType = job[t].enNotiType
      /\ s \in allocated /\ c \in Waiters
      /\ allocated' = IF job[s].enNotiType = "BUTT" /\ WaitersOf(s)' = {}
                      THEN allocated \ {s} ELSE allocated
      /\ \A t \in allocated :
           job'[t].u8WaitForDoneCount = Cardinality(WaitersOf(t)')
  BY <1>1, <1>2, CountOutFacts
<1>4. /\ pc' = [pc EXCEPT ![c] = "idle"] /\ cur' = [cur EXCEPT ![c] = NULL]
      /\ hdl' = [hdl EXCEPT ![c] = 0] /\ asleep' = asleep \ {c}
      /\ UNCHANGED <<owner, listVars, hwVars, taskletVars, fenceVars, noti, tmp>>
  BY <1>1 DEF CountOut, Goto
<1>5. TypeOK'
  BY <1>3, <1>4 DEF MemInv, TypeOK, JobType
<1>6. PlacesOK'
  BY <1>4 DEF MemInv, PlacesOK, Clients
<1>7. pc'[c] = "idle" /\ \A d \in Clients : d # c =>
          /\ pc'[d] = pc[d] /\ cur'[d] = cur[d]
          /\ hdl'[d] = hdl[d] /\ tmp'[d] = tmp[d]
  BY <1>4 DEF MemInv, PlacesOK
<1>8. WaitInv(c)' /\ pc'[c] \notin PreList /\ pc[c] \notin PreList
  BY <1>1, <1>7 DEF WaitInv, Waiting, PreList
<1>9. CountInv'
  BY <1>3 DEF CountInv
<1>10. \A t \in allocated \ allocated' :
          /\ job[t].bSubmitted /\ job[t].enNotiType = "BUTT"
          /\ \A d \in Clients : pc'[d] \in Waiting => cur'[d] # t
  <2> TAKE t \in allocated \ allocated'
  <2>1. t = s /\ job[s].enNotiType = "BUTT" /\ WaitersOf(s)' = {}
    BY <1>3
  <2>2. job[s].bSubmitted
    BY <1>3, <2>1 DEF MemInv, HandleInv
  <2>3. \A d \in Clients : pc'[d] \in Waiting => d \in Waiters
    BY <1>3, <1>7 DEF MemInv, WaitInv
  <2> QED BY <2>1, <2>2, <2>3 DEF WaitersOf
<1>11. allocated' \subseteq allocated
  BY <1>3
<1> QED BY <1>3, <1>4, <1>5, <1>6, <1>7, <1>8, <1>9, <1>10, <1>11, JobStep

LEMMA WaitForDoneInv ==
    ASSUME ProperUse, MemInv, NEW c \in Clients, NEW h \in Handles,
           TdeOsiListWaitForDone(c, h)
    PROVE  MemInv'
<1> USE TdeAssumption DEF listVars, hwVars, taskletVars, fenceVars
<1>1. PICK s \in query_handle(h) :
          job[s].bSubmitted /\ CountIn(c, s, "wait")
  BY DEF TdeOsiListWaitForDone
<1>2. /\ c \in Waiters /\ pc[c] = "idle"
      /\ hdl' = [hdl EXCEPT ![c] = h]
      /\ UNCHANGED <<allocated, owner, listVars, hwVars, taskletVars,
                     fenceVars, noti, tmp, asleep>>
  BY DEF TdeOsiListWaitForDone
<1>3. s \in allocated /\ s \in Slots /\ job[s].s32Handle = h
  BY DEF query_handle, MemInv, TypeOK
<1>4. "wait" \in Waiting /\ "idle" \notin Waiting
  BY DEF Waiting
<1>5. /\ job' \in [Slots -> JobType]
      /\ \A t \in Slots :
           /\ job'[t].s32Handle = job[t].s32Handle
           /\ job'[t].bSubmitted <=> job[t].bSubmitted
           /\ job'[t].enNotiType = job[t].enNotiType
      /\ CountInv'
  BY <1>1, <1>2, <1>3, <1>4, CountInFacts
<1>6. pc' = [pc EXCEPT ![c] = "wait"] /\ cur' = [cur EXCEPT ![c] = s]
  BY <1>1 DEF CountIn, Goto
<1>7. TypeOK'
  BY <1>2, <1>5 DEF MemInv, TypeOK, JobType
<1>8. PlacesOK'
  BY <1>2, <1>3, <1>6 DEF MemInv, PlacesOK, Clients, Waiting, Handles
<1>9. /\ pc'[c] = "wait" /\ cur'[c] = s /\ hdl'[c] = h
      /\ \A d \in Clients : d # c =>
          /\ pc'[d] = pc[d] /\ cur'[d] = cur[d]
          /\ hdl'[d] = hdl[d] /\ tmp'[d] = tmp[d]
  BY <1>2, <1>6 DEF MemInv, PlacesOK
<1>10. WaitInv(c)'
  BY <1>1, <1>2, <1>3, <1>5, <1>9 DEF WaitInv, Waiting
<1>11. pc'[c] \notin PreList /\ pc[c] \notin PreList
  BY <1>2, <1>9 DEF PreList
<1> QED BY <1>2, <1>5, <1>7, <1>8, <1>9, <1>10, <1>11, JobStep

LEMMA QueryAllInv ==
    ASSUME ProperUse, MemInv, NEW c \in Clients, QueryAll(c)
    PROVE  MemInv'
<1> USE TdeAssumption DEF listVars, hwVars, taskletVars, fenceVars
<1>1. /\ c \in Waiters /\ pc[c] = "query_all"
      /\ UNCHANGED <<allocated, owner, listVars, hwVars, taskletVars,
                     fenceVars, noti, tmp>>
  BY DEF QueryAll, MemInv, WaitInv
<1>2. CASE \E s \in query_handle(hdl[c]) :
             /\ CountIn(c, s, "wait_all")
             /\ asleep' = IF job[s].enNotiType = "BUTT" THEN asleep
                          ELSE asleep \cup {c}
             /\ UNCHANGED <<hdl, goal>>
  <2>1. PICK s \in query_handle(hdl[c]) :
             /\ CountIn(c, s, "wait_all")
             /\ asleep' = IF job[s].enNotiType = "BUTT" THEN asleep
                          ELSE asleep \cup {c}
             /\ UNCHANGED <<hdl, goal>>
    BY <1>2
  <2>2. s \in allocated /\ s \in Slots /\ job[s].s32Handle = hdl[c]
    BY DEF query_handle, MemInv, TypeOK
  <2>3. "wait_all" \in Waiting /\ "query_all" \notin Waiting
    BY DEF Waiting
  <2>4. /\ job' \in [Slots -> JobType]
        /\ \A t \in Slots :
             /\ job'[t].s32Handle = job[t].s32Handle
             /\ job'[t].bSubmitted <=> job[t].bSubmitted
             /\ job'[t].enNotiType = job[t].enNotiType
        /\ CountInv'
    BY <1>1, <2>1, <2>2, <2>3, CountInFacts
  <2>5. pc' = [pc EXCEPT ![c] = "wait_all"] /\ cur' = [cur EXCEPT ![c] = s]
    BY <2>1 DEF CountIn, Goto
  <2>6. TypeOK'
    BY <1>1, <2>1, <2>4 DEF MemInv, TypeOK, JobType
  <2>7. PlacesOK'
    BY <1>1, <2>1, <2>2, <2>5 DEF MemInv, PlacesOK, Clients, Waiting
  <2>8. /\ pc'[c] = "wait_all" /\ cur'[c] = s /\ hdl'[c] = hdl[c]
        /\ \A d \in Clients : d # c =>
            /\ pc'[d] = pc[d] /\ cur'[d] = cur[d]
            /\ hdl'[d] = hdl[d] /\ tmp'[d] = tmp[d]
    BY <1>1, <2>1, <2>5 DEF MemInv, PlacesOK
  <2>9. WaitInv(c)'
    BY <1>1, <2>2, <2>4, <2>8 DEF MemInv, WaitInv, Waiting
  <2>10. pc'[c] \notin PreList /\ pc[c] \notin PreList
    BY <1>1, <2>8 DEF PreList
  <2> QED BY <1>1, <2>4, <2>6, <2>7, <2>8, <2>9, <2>10, JobStep
<1>3. CASE /\ pc' = [pc EXCEPT ![c] = "idle"]
           /\ hdl' = [hdl EXCEPT ![c] = 0]
           /\ UNCHANGED <<job, cur, asleep>>
  <2>1. TypeOK'
    BY <1>1, <1>3 DEF MemInv, TypeOK
  <2>2. PlacesOK'
    BY <1>1, <1>3 DEF MemInv, PlacesOK, Clients
  <2>3. /\ pc'[c] = "idle"
        /\ \A d \in Clients : d # c =>
            /\ pc'[d] = pc[d] /\ cur'[d] = cur[d]
            /\ hdl'[d] = hdl[d] /\ tmp'[d] = tmp[d]
    BY <1>1, <1>3 DEF MemInv, PlacesOK
  <2>4. pc[c] \notin Waiting /\ pc'[c] \notin Waiting /\ pc'[c] \notin PreList
    BY <1>1, <2>3 DEF Waiting, PreList
  <2> QED BY <1>1, <1>3, <2>1, <2>2, <2>3, <2>4, ThreadStep
<1> QED BY <1>2, <1>3 DEF QueryAll, Goto

LEMMA WaitAllInv ==
    ASSUME MemInv, NEW c \in Clients, TdeOsiListWaitAllDone(c)
    PROVE  MemInv'
<1> USE TdeAssumption DEF memVars, listVars, hwVars, taskletVars, fenceVars
<1>1. /\ c \in Waiters /\ pc[c] = "idle"
      /\ pc' = [pc EXCEPT ![c] = "query_all"]
      /\ hdl' = [hdl EXCEPT ![c] = s32HandleLast]
      /\ UNCHANGED <<memVars, listVars, hwVars, taskletVars, fenceVars, cur,
                     noti, tmp, asleep>>
  BY DEF TdeOsiListWaitAllDone, Goto
<1>2. TypeOK'
  BY <1>1 DEF MemInv, TypeOK
<1>3. PlacesOK'
  BY <1>1 DEF MemInv, PlacesOK, TypeOK, Clients
<1>4. /\ pc'[c] = "query_all" /\ hdl'[c] = s32HandleLast
      /\ \A d \in Clients : d # c =>
          /\ pc'[d] = pc[d] /\ cur'[d] = cur[d]
          /\ hdl'[d] = hdl[d] /\ tmp'[d] = tmp[d]
  BY <1>1 DEF MemInv, PlacesOK
<1>5. pc[c] \notin Waiting /\ pc'[c] \notin Waiting /\ pc'[c] \notin PreList
  BY <1>1, <1>4 DEF Waiting, PreList
<1> QED BY <1>1, <1>2, <1>3, <1>4, <1>5, ThreadStep

LEMMA SignalInv ==
    ASSUME MemInv, NEW c \in Clients, SignalArrives(c)
    PROVE  MemInv'
<1> USE TdeAssumption DEF memVars, listVars, hwVars, taskletVars, fenceVars
<1>1. /\ pc[c] = "wait_all" /\ asleep' = asleep \ {c}
      /\ pc' = pc \/ pc' = [pc EXCEPT ![c] = "interrupted"]
      /\ UNCHANGED <<memVars, listVars, hwVars, taskletVars, fenceVars, cur,
                     hdl, noti, tmp>>
  BY DEF SignalArrives, Goto
<1>2. TypeOK'
  BY <1>1 DEF MemInv, TypeOK
<1>3. PlacesOK'
  BY <1>1 DEF MemInv, PlacesOK, Waiting
<1>4. /\ pc'[c] \in {"wait_all", "interrupted"}
      /\ \A d \in Clients : d # c => pc'[d] = pc[d]
  BY <1>1 DEF MemInv, PlacesOK
<1>5. pc[c] \in Waiting /\ pc'[c] \in Waiting /\ pc'[c] \notin PreList
  BY <1>1, <1>4 DEF Waiting, PreList
<1> QED BY <1>1, <1>2, <1>3, <1>4, <1>5, ThreadStep

LEMMA ResetHardwareInv ==
    ASSUME MemInv, NEW c \in Clients, ResetHardware(c)
    PROVE  MemInv'
<1> USE TdeAssumption DEF memVars, listVars, hwVars, taskletVars, fenceVars
<1>1. /\ c \in Resetters /\ pc[c] = "idle"
      /\ pc' = [pc EXCEPT ![c] = "reset"]
      /\ irq' \in {irq, FALSE} /\ curNode' \in {curNode, 0}
      /\ UNCHANGED <<memVars, listVars, next, hw, taskletVars, fenceVars, cur,
                     hdl, noti, tmp, asleep>>
  BY DEF ResetHardware, TdeHalResumeInit, Goto
<1>2. TypeOK'
  <2>1. irq' \in BOOLEAN
    BY <1>1 DEF MemInv, TypeOK
  <2>2. curNode' \in 0..MaxHandle
    BY <1>1 DEF MemInv, TypeOK
  <2> QED BY <1>1, <2>1, <2>2 DEF MemInv, TypeOK
<1>3. PlacesOK'
  BY <1>1 DEF MemInv, PlacesOK, Clients
<1>4. /\ pc'[c] = "reset"
      /\ \A d \in Clients : d # c =>
          /\ pc'[d] = pc[d] /\ cur'[d] = cur[d]
          /\ hdl'[d] = hdl[d] /\ tmp'[d] = tmp[d]
  BY <1>1 DEF MemInv, PlacesOK
<1>5. pc[c] \notin Waiting /\ pc'[c] \notin Waiting /\ pc'[c] \notin PreList
  BY <1>1, <1>4 DEF Waiting, PreList
<1> QED BY <1>1, <1>2, <1>3, <1>4, <1>5, ThreadStep

LEMMA FenceCreateInv ==
    ASSUME MemInv, NEW c \in Clients, TDE_FENCE_Create(c)
    PROVE  MemInv'
<1> USE TdeAssumption DEF listVars, hwVars, taskletVars, fenceVars
<1>1. /\ pc[c] = "fence"
      /\ UNCHANGED <<allocated, job, owner, listVars, hwVars, taskletVars,
                     fenceVars, asleep>>
  BY DEF TDE_FENCE_Create, FenceFails
<1>2. TypeOK'
  BY <1>1 DEF MemInv, TypeOK
<1>3. CASE /\ tmp' = [tmp EXCEPT ![c] = fenceValue]
           /\ pc' = [pc EXCEPT ![c] = "fence_store"]
           /\ UNCHANGED <<cur, hdl, noti>>
  <2>1. PlacesOK'
    BY <1>1, <1>3 DEF MemInv, PlacesOK, TypeOK, PreList
  <2>2. /\ pc'[c] = "fence_store" /\ tmp'[c] = fenceValue
        /\ \A d \in Clients : d # c =>
            /\ pc'[d] = pc[d] /\ cur'[d] = cur[d]
            /\ hdl'[d] = hdl[d] /\ tmp'[d] = tmp[d]
    BY <1>1, <1>3 DEF MemInv, PlacesOK
  <2>3. /\ pc[c] \notin Waiting /\ pc'[c] \notin Waiting /\ pc[c] \in PreList
        /\ cur'[c] = cur[c] /\ hdl'[c] = hdl[c]
    BY <1>1, <1>3, <2>2 DEF Waiting, PreList
  <2> QED BY <1>1, <1>2, <2>1, <2>2, <2>3, ThreadStep
<1>4. CASE /\ pc' = [pc EXCEPT ![c] = "idle"]
           /\ cur' = [cur EXCEPT ![c] = NULL] /\ hdl' = [hdl EXCEPT ![c] = 0]
           /\ noti' = [noti EXCEPT ![c] = "NONE"] /\ tmp' = tmp
  <2>1. PlacesOK'
    BY <1>1, <1>4 DEF MemInv, PlacesOK, TypeOK
  <2>2. /\ pc'[c] = "idle"
        /\ \A d \in Clients : d # c =>
            /\ pc'[d] = pc[d] /\ cur'[d] = cur[d]
            /\ hdl'[d] = hdl[d] /\ tmp'[d] = tmp[d]
    BY <1>1, <1>4 DEF MemInv, PlacesOK
  <2>3. pc[c] \notin Waiting /\ pc'[c] \notin Waiting /\ pc'[c] \notin PreList
    BY <1>1, <2>2 DEF Waiting, PreList
  <2> QED BY <1>1, <1>2, <2>1, <2>2, <2>3, ThreadStep
<1> QED BY <1>3, <1>4 DEF TDE_FENCE_Create, FenceFails, Goto

(* A job that its thread has not submitted is drawn into or given up.      *)
LEMMA OpenJobInv ==
    ASSUME MemInv, NEW c \in Clients, NEW h \in Handles,
           \/ TdeOsiSetNodeFinish(c, h) \/ TdeOsiListCancelJob(c, h)
           \/ SubmitTest(c, h) /\ pc' = pc,
           ProperUse
    PROVE  MemInv'
<1> USE TdeAssumption DEF listVars, hwVars, taskletVars, fenceVars, clientVars
<1>1. PICK s \in Slots :
        /\ Finds(c, h, s) /\ ~job[s].bSubmitted
        /\ \/ /\ job' = [job EXCEPT ![s].cmd = TRUE]
              /\ allocated' = allocated
           \/ job' = job /\ allocated' = allocated \ {s}
        /\ UNCHANGED <<owner, listVars, hwVars, taskletVars, fenceVars,
                       clientVars>>
  <2>1. CASE TdeOsiSetNodeFinish(c, h)
    BY <2>1 DEF TdeOsiSetNodeFinish
  <2>2. CASE TdeOsiListCancelJob(c, h)
    BY <2>2 DEF TdeOsiListCancelJob
  <2>3. CASE SubmitTest(c, h) /\ pc' = pc
    <3>1. PICK s \in Slots : SubmitTest(c, h)!(s)
      BY <2>3 DEF SubmitTest
    <3>2. pc[c] = "idle"
      BY <3>1 DEF Finds
    <3>3. ~Goto(c, "mark")
      BY <2>3, <3>2 DEF Goto, MemInv, PlacesOK
    <3> QED BY <3>1, <3>3
  <2> QED BY <2>1, <2>2, <2>3
<1>2. /\ c \in Submitters /\ pc[c] = "idle" /\ owner[h] = c
      /\ s \in allocated /\ job[s].s32Handle = h
  BY <1>1 DEF Finds, query_handle, ProperUse
<1>3. /\ job' \in [Slots -> JobType]
      /\ \A t \in Slots :
           /\ job'[t].s32Handle = job[t].s32Handle
           /\ job'[t].bSubmitted <=> job[t].bSubmitted
           /\ job'[t].u8WaitForDoneCount = job[t].u8WaitForDoneCount
           /\ job'[t].enNotiType = job[t].enNotiType
  <2>1. CASE job' = job
    BY <2>1, JobFacts DEF MemInv
  <2>2. CASE job' = [job EXCEPT ![s].cmd = TRUE]
    <3>1. job \in [Slots -> JobType] /\ job[s] \in JobType
      BY JobFacts DEF MemInv
    <3>2. PICK r : r = [job[s] EXCEPT !.cmd = TRUE]
      OBVIOUS
    <3>3. r \in JobType
      BY <3>1, <3>2 DEF JobType
    <3>4. /\ r.s32Handle = job[s].s32Handle
          /\ r.bSubmitted <=> job[s].bSubmitted
          /\ r.u8WaitForDoneCount = job[s].u8WaitForDoneCount
          /\ r.enNotiType = job[s].enNotiType
      BY <3>1, <3>2 DEF JobType
    <3>5. job' = [job EXCEPT ![s] = r]
      BY <2>2, <3>2
    <3> QED BY <3>1, <3>3, <3>4, <3>5
  <2> QED BY <1>1, <2>1, <2>2
<1>4. TypeOK'
  BY <1>1, <1>3 DEF MemInv, TypeOK, JobType
<1>5. PlacesOK'
  BY <1>1 DEF MemInv, PlacesOK
<1>6. \A t \in allocated \ allocated' :
          /\ ~job[t].bSubmitted
          /\ \A d \in Clients : pc[d] = "mark" => cur[d] # t
          /\ \A d \in Clients : pc'[d] \in Waiting => cur'[d] # t
  <2> TAKE t \in allocated \ allocated'
  <2>1. t = s
    BY <1>1
  <2>2. ASSUME NEW d \in Clients, pc[d] = "mark", cur[d] = s
        PROVE  FALSE
    <3>1. owner[h] = d
      BY <1>2, <2>2 DEF MemInv, SubmitInv, PreList
    <3> QED BY <3>1, <1>2, <2>2
  <2>3. ASSUME NEW d \in Clients, pc[d] \in Waiting, cur[d] = s
        PROVE  FALSE
    BY <1>1, <2>3 DEF MemInv, WaitInv
  <2> QED BY <1>1, <2>1, <2>2, <2>3
<1>7. WaitInv(c)' /\ pc'[c] \notin PreList /\ pc[c] \notin PreList
  BY <1>1, <1>2 DEF WaitInv, PreList, Waiting
<1>8. CountInv'
  <2>1. allocated' \subseteq allocated /\ allocated \subseteq Slots
    BY <1>1 DEF MemInv, TypeOK
  <2> QED BY <1>1, <1>3, <2>1, CountKept
<1>9. allocated' \subseteq allocated
  BY <1>1
<1> QED BY <1>1, <1>3, <1>4, <1>5, <1>6, <1>7, <1>8, <1>9, JobStep

LEMMA BeginInv ==
    ASSUME MemInv, NEW c \in Clients, TdeOsiListBeginJob(c)
    PROVE  MemInv'
<1> USE TdeAssumption DEF listVars, hwVars, taskletVars, fenceVars, clientVars
<1>1. PICK s \in Slots \ allocated :
        /\ allocated' = allocated \cup {s}
        /\ job' = [job EXCEPT ![s] = NewJob(Len(owner) + 1)]
  BY DEF TdeOsiListBeginJob
<1>2. /\ c \in Submitters /\ Len(owner) < MaxHandle
      /\ owner' = Append(owner, c)
      /\ UNCHANGED <<listVars, hwVars, taskletVars, fenceVars, clientVars>>
  BY DEF TdeOsiListBeginJob
<1>3. /\ owner' \in Seq(Submitters) /\ Len(owner') = Len(owner) + 1
      /\ Len(owner) \in Nat
      /\ \A h \in 1..Len(owner) : owner'[h] = owner[h]
  BY <1>2 DEF MemInv, TypeOK
<1>4. /\ job' \in [Slots -> JobType]
      /\ job'[s].s32Handle = Len(owner) + 1 /\ ~job'[s].bSubmitted
      /\ job'[s].u8WaitForDoneCount = 0 /\ job'[s].enNotiType = "NONE"
      /\ \A t \in Slots : t # s => job'[t] = job[t]
  <2>1. NewJob(Len(owner) + 1) \in JobType
    BY <1>2, <1>3 DEF NewJob, JobType, U8
  <2> QED BY <1>1, <2>1, JobFacts DEF MemInv, NewJob
<1>5. TypeOK'
  <2>1. Len(owner') <= MaxHandle /\ allocated' \subseteq Slots
    <3>1. Len(owner') <= MaxHandle
      BY <1>2, <1>3
    <3>2. allocated \subseteq Slots
      BY DEF MemInv, TypeOK
    <3> QED BY <1>1, <3>1, <3>2
  <2> QED BY <1>2, <1>3, <1>4, <2>1 DEF MemInv, TypeOK, JobType
<1>6. PlacesOK'
  BY <1>2 DEF MemInv, PlacesOK
<1>7. allocated \subseteq Slots /\ \A t \in allocated : t # s /\ job'[t] = job[t]
  BY <1>4 DEF MemInv, TypeOK
<1>8. HandleInv'
  <2>1. \A t \in Slots : job[t].s32Handle \in Nat /\ job[t].s32Handle <= Len(owner)
    BY JobFacts DEF MemInv, HandleInv
  <2>2. s32HandleLast \in Int /\ s32HandleLast <= Len(owner)
    BY DEF MemInv, HandleInv, TypeOK
  <2> QED BY <1>1, <1>2, <1>3, <1>4, <1>7, <2>1, <2>2
          DEF MemInv, HandleInv, query_handle
<1>9. ListInv'
  BY <1>1, <1>2, <1>7 DEF MemInv, ListInv
<1>10. TaskletInv'
  BY <1>1, <1>2, <1>7 DEF MemInv, TaskletInv
<1>11. \A d \in Clients : SubmitInv(d)'
  <2> TAKE d \in Clients
  <2>1. pc[d] \in PreList => hdl[d] \in 1..Len(owner)
    BY JobFacts, <1>7 DEF MemInv, SubmitInv, HandleInv
  <2> QED BY <1>1, <1>2, <1>3, <1>7, <2>1 DEF MemInv, SubmitInv
<1>12. \A d \in Clients : WaitInv(d)'
  <2> TAKE d \in Clients
  <2>1. hdl[d] \in Int
    BY DEF MemInv, PlacesOK
  <2> QED BY <1>1, <1>2, <1>3, <1>4, <1>7, <2>1 DEF MemInv, WaitInv, query_handle
<1>13. CountInv'
  BY <1>1, <1>2, <1>4, <1>7, CountKept
<1>14. FenceBound'
  <2>1. Fenced \subseteq Fenced'
    BY <1>1, <1>2, <1>3, <1>4, <1>7 DEF Fenced, query_handle
  <2> QED BY <1>2, <1>3, <2>1, FenceKept
<1> QED BY <1>5, <1>6, <1>8, <1>9, <1>10, <1>11, <1>12, <1>13, <1>14 DEF MemInv

LEMMA SubmitTestInv ==
    ASSUME ProperUse, MemInv, NEW c \in Clients, NEW h \in Handles,
           SubmitTest(c, h), pc' # pc
    PROVE  MemInv'
<1> USE TdeAssumption DEF listVars, hwVars, taskletVars, fenceVars
<1>1. PICK s \in Slots :
        /\ Finds(c, h, s) /\ ~job[s].bSubmitted
        /\ cur' = [cur EXCEPT ![c] = s] /\ hdl' = [hdl EXCEPT ![c] = h]
        /\ pc' = [pc EXCEPT ![c] = "mark"]
        /\ UNCHANGED <<allocated, job, owner, listVars, hwVars, taskletVars,
                       fenceVars, noti, tmp, asleep>>
  BY DEF SubmitTest, Goto
<1>2. /\ c \in Submitters /\ pc[c] = "idle" /\ owner[h] = c
      /\ s \in allocated /\ job[s].s32Handle = h
  BY <1>1 DEF Finds, query_handle, ProperUse
<1>3. TypeOK'
  BY <1>1 DEF MemInv, TypeOK
<1>4. PlacesOK'
  BY <1>1 DEF MemInv, PlacesOK, PreList, Handles
<1>5. /\ pc'[c] = "mark" /\ cur'[c] = s /\ hdl'[c] = h
      /\ \A d \in Clients : d # c =>
          /\ pc'[d] = pc[d] /\ cur'[d] = cur[d]
          /\ hdl'[d] = hdl[d] /\ tmp'[d] = tmp[d]
  BY <1>1 DEF MemInv, PlacesOK
<1>6. HandleInv' /\ ListInv'
  BY <1>1 DEF MemInv, HandleInv, ListInv, query_handle
<1>7. TaskletInv'
  BY <1>1, <1>5 DEF MemInv, TaskletInv
<1>8. \A d \in Clients : SubmitInv(d)'
  <2> TAKE d \in Clients
  <2>1. CASE d = c
    BY <1>1, <1>2, <1>5, <2>1 DEF MemInv, SubmitInv, ListInv
  <2>2. CASE d # c
    BY <1>1, <1>5, <2>2 DEF MemInv, SubmitInv
  <2> QED BY <2>1, <2>2
<1>9. \A d \in Clients : WaitInv(d)'
  BY <1>1, <1>5 DEF MemInv, WaitInv, query_handle, Waiting
<1>10. CountInv'
  <2>1. \A d \in Waiters : /\ pc'[d] \in Waiting <=> pc[d] \in Waiting
                           /\ pc[d] \in Waiting => cur'[d] = cur[d]
    BY <1>2, <1>5 DEF Clients, Waiting
  <2> QED BY <1>1, <2>1, CountKept
<1>11. FenceBound'
  <2>1. Fenced \subseteq Fenced'
    BY <1>1, <1>5 DEF Fenced, query_handle
  <2>2. Len(owner)' \in Nat
    BY <1>1 DEF MemInv, TypeOK
  <2> QED BY <1>1, <1>5, <2>1, <2>2, FenceKept
<1> QED BY <1>3, <1>4, <1>6, <1>7, <1>8, <1>9, <1>10, <1>11 DEF MemInv

LEMMA SubmitMarkInv ==
    ASSUME MemInv, NEW c \in Clients, NEW mode \in Modes, SubmitMark(c, mode)
    PROVE  MemInv'
<1> USE TdeAssumption DEF listVars, hwVars, taskletVars, fenceVars
<1>1. PICK type \in {"WAKE", "COMPL"}, place \in {"fence", "list"} :
        /\ job' = [job EXCEPT ![cur[c]] =
                     [@ EXCEPT !.bSubmitted = TRUE, !.enNotiType = type,
                               !.callback = (mode = "callback")]]
        /\ noti' = [noti EXCEPT ![c] = type]
        /\ pc' = [pc EXCEPT ![c] = place]
  BY DEF SubmitMark, Goto
<1>2. /\ pc[c] = "mark"
      /\ UNCHANGED <<allocated, owner, listVars, hwVars, taskletVars,
                     fenceVars, cur, hdl, tmp, asleep>>
  BY DEF SubmitMark
<1>3. PICK s \in allocated : s = cur[c]
  BY <1>2 DEF MemInv, SubmitInv, PreList
<1>4. /\ s \in Slots /\ job[s].s32Handle = hdl[c] /\ owner[hdl[c]] = c
      /\ ~job[s].bSubmitted /\ s \notin Entries(stList)
  BY <1>2, <1>3 DEF MemInv, SubmitInv, TypeOK, PreList
<1>5. /\ job' \in [Slots -> JobType]
      /\ job'[s].bSubmitted /\ job'[s].enNotiType = type
      /\ \A t \in Slots :
           /\ job'[t].s32Handle = job[t].s32Handle
           /\ job'[t].u8WaitForDoneCount = job[t].u8WaitForDoneCount
           /\ t # s => job'[t] = job[t]
  <2>1. job \in [Slots -> JobType] /\ job[s] \in JobType
    BY <1>4, JobFacts DEF MemInv
  <2>2. PICK r : r = [job[s] EXCEPT !.bSubmitted = TRUE, !.enNotiType = type,
                                    !.callback = (mode = "callback")]
    OBVIOUS
  <2>3. (mode = "callback") \in BOOLEAN
    OBVIOUS
  <2>4. r \in JobType
    BY <2>1, <2>2, <2>3 DEF JobType
  <2>5. /\ r.bSubmitted /\ r.enNotiType = type
        /\ r.s32Handle = job[s].s32Handle
        /\ r.u8WaitForDoneCount = job[s].u8WaitForDoneCount
    BY <2>1, <2>2 DEF JobType
  <2>6. job' = [job EXCEPT ![s] = r]
    BY <1>1, <1>3, <2>2
  <2> QED BY <1>4, <2>1, <2>4, <2>5, <2>6
<1>6. TypeOK'
  BY <1>2, <1>5 DEF MemInv, TypeOK, JobType
<1>7. PlacesOK'
  BY <1>1, <1>2 DEF MemInv, PlacesOK, PreList
<1>8. /\ pc'[c] = place
      /\ \A d \in Clients : d # c => pc'[d] = pc[d]
  BY <1>1 DEF MemInv, PlacesOK
<1>9. allocated \subseteq Slots
  BY DEF MemInv, TypeOK
<1>10. HandleInv'
  BY <1>2, <1>5, <1>9 DEF MemInv, HandleInv, query_handle
<1>11. ListInv'
  BY <1>2, <1>4, <1>5, <1>9, EntryFacts DEF MemInv, ListInv
<1>12. TaskletInv'
  <2>1. \A d \in Clients : pc'[d] \in PreList => pc[d] \in PreList
    BY <1>2, <1>8 DEF PreList
  <2>2. tpc \in {"callback", "notify"} /\ tkind = "COMPL" =>
          tjob # s /\ tjob \in Slots
    BY <1>2, <1>3, <1>9 DEF MemInv, TaskletInv, PreList
  <2> QED BY <1>2, <1>5, <2>1, <2>2 DEF MemInv, TaskletInv
<1>13. \A d \in Clients : SubmitInv(d)'
  <2> TAKE d \in Clients
  <2>1. CASE d = c
    BY <1>2, <1>3, <1>4, <1>5, <1>8, <2>1 DEF SubmitInv
  <2>2. CASE d # c
    <3>1. pc[d] \in PreList => cur[d] # s
      BY <1>4, <2>2 DEF MemInv, SubmitInv
    <3> QED BY <1>2, <1>5, <1>8, <1>9, <2>2, <3>1 DEF MemInv, SubmitInv
  <2> QED BY <2>1, <2>2
<1>14. \A d \in Clients : WaitInv(d)'
  BY <1>1, <1>2, <1>5, <1>8, <1>9 DEF MemInv, WaitInv, query_handle, Waiting
<1>15. CountInv'
  <2>1. \A d \in Waiters : /\ pc'[d] \in Waiting <=> pc[d] \in Waiting
                           /\ pc[d] \in Waiting => cur'[d] = cur[d]
    BY <1>2, <1>8 DEF Clients, Waiting
  <2> QED BY <1>2, <1>5, <1>9, <2>1, CountKept
<1>16. FenceBound'
  <2>1. ASSUME NEW h \in Fenced PROVE h \in Fenced'
    <3>1. h # hdl[c]
      BY <1>3, <1>4, <2>1 DEF Fenced, query_handle
    <3> QED BY <1>2, <1>4, <1>5, <1>8, <1>9, <2>1, <3>1 DEF Fenced, query_handle
  <2>2. Len(owner)' \in Nat
    BY <1>2 DEF MemInv, TypeOK
  <2> QED BY <1>2, <1>8, <2>1, <2>2, FenceKept
<1> QED BY <1>6, <1>7, <1>10, <1>11, <1>12, <1>13, <1>14, <1>15, <1>16 DEF MemInv

(* A submit whose TDE_FENCE_Create ends, with or without a fence, is one   *)
(* more that is past it: the value it has read leaves room for one more.   *)
LEMMA FenceStoreFacts ==
    ASSUME MemInv, NEW c \in Clients, pc[c] = "fence_store",
           UNCHANGED <<allocated, owner>>,
           \A s \in Slots : /\ job'[s].s32Handle = job[s].s32Handle
                            /\ job'[s].bSubmitted <=> job[s].bSubmitted,
           pc'[c] \in {"list", "idle"},
           \A d \in Clients : d # c => /\ pc'[d] = pc[d] /\ hdl'[d] = hdl[d]
    PROVE  /\ tmp[c] + 1 <= Cardinality(Fenced') /\ tmp[c] \in Nat
           /\ Cardinality(Fenced') \in Nat /\ Cardinality(Fenced') <= MaxHandle
           /\ Cardinality(Fenced) \in Nat
           /\ Cardinality(Fenced) <= Cardinality(Fenced')
<1> USE TdeAssumption
<1>1. /\ cur[c] \in allocated /\ job[cur[c]].s32Handle = hdl[c]
      /\ owner[hdl[c]] = c /\ job[cur[c]].bSubmitted /\ allocated \subseteq Slots
  BY DEF MemInv, SubmitInv, PreList, TypeOK
<1>2. hdl[c] \in 1..Len(owner)
  BY <1>1, JobFacts DEF MemInv, HandleInv
<1>3. hdl[c] \notin Fenced
  BY DEF Fenced
<1>4. hdl[c] \in Fenced'
  <2>1. \A s \in allocated : job[s].s32Handle = hdl[c] => s = cur[c]
    BY <1>1, <1>2 DEF MemInv, HandleInv
  <2>2. \A d \in Clients : d # c /\ pc[d] \in PreList => hdl[d] # hdl[c]
    BY <1>1 DEF MemInv, SubmitInv
  <2> QED BY <1>1, <1>2, <2>1, <2>2 DEF Fenced, query_handle, PreList
<1>5. Fenced \subseteq Fenced'
  BY <1>1 DEF Fenced, query_handle
<1>6. /\ IsFiniteSet(1..Len(owner)) /\ Cardinality(1..Len(owner)) = Len(owner)
      /\ Len(owner) \in Nat /\ Len(owner) <= MaxHandle
  <2>1. Len(owner) \in Nat /\ Len(owner) <= MaxHandle
    BY DEF MemInv, TypeOK
  <2>2. PICK n \in Nat : n = Len(owner)
    BY <2>1
  <2>3. /\ IsFiniteSet(1..n)
        /\ Cardinality(1..n) = IF 1 > n THEN 0 ELSE n - 1 + 1
    BY FS_Interval
  <2>4. Cardinality(1..n) = n
    BY <2>3
  <2> QED BY <2>1, <2>2, <2>3, <2>4
<1>7. /\ IsFiniteSet(Fenced) /\ IsFiniteSet(Fenced')
      /\ Cardinality(Fenced') <= Len(owner)
  <2>1. Fenced \subseteq 1..Len(owner) /\ Fenced' \subseteq 1..Len(owner)
    BY DEF Fenced
  <2>2. /\ IsFiniteSet(Fenced) /\ IsFiniteSet(Fenced')
        /\ Cardinality(Fenced') <= Cardinality(1..Len(owner))
    BY <2>1, <1>6, FS_Subset
  <2> QED BY <2>2, <1>6
<1>8. Cardinality(Fenced) \in Nat /\ Cardinality(Fenced') \in Nat
  BY <1>7, FS_CardinalityType
<1>9. Cardinality(Fenced \cup {hdl[c]}) = Cardinality(Fenced) + 1
  BY <1>3, <1>7, FS_AddElement
<1>10. Cardinality(Fenced \cup {hdl[c]}) <= Cardinality(Fenced')
  <2>1. Fenced \cup {hdl[c]} \subseteq Fenced'
    BY <1>4, <1>5
  <2> QED BY <2>1, <1>7, FS_Subset
<1>11. tmp[c] <= Cardinality(Fenced) /\ tmp[c] \in Nat
  BY DEF MemInv, FenceBound, PlacesOK
<1> QED BY <1>6, <1>7, <1>8, <1>9, <1>10, <1>11

LEMMA FenceStoreInv ==
    ASSUME MemInv, NEW c \in Clients, FenceStore(c)
    PROVE  MemInv'
<1> USE TdeAssumption DEF listVars, hwVars, taskletVars
<1>1. PICK s \in allocated : s = cur[c]
  BY DEF MemInv, SubmitInv, PreList, FenceStore
<1>2. /\ pc[c] = "fence_store" /\ s \in Slots /\ job[s].s32Handle = hdl[c]
      /\ owner[hdl[c]] = c /\ job[s].bSubmitted /\ s \notin Entries(stList)
      /\ job[s].enNotiType \in {"WAKE", "COMPL"} /\ allocated \subseteq Slots
  BY <1>1 DEF MemInv, SubmitInv, PreList, TypeOK, FenceStore
<1>3. /\ tmp' = [tmp EXCEPT ![c] = 0] /\ fenceValue' \in {tmp[c], tmp[c] + 1}
      /\ UNCHANGED <<allocated, owner, listVars, hwVars, taskletVars, timeline,
                     asleep>>
      /\ \/ /\ job' = [job EXCEPT ![s].fence = tmp[c] + 1]
            /\ fenceOf' = [fenceOf EXCEPT ![hdl[c]] = tmp[c] + 1]
            /\ pc' = [pc EXCEPT ![c] = "list"]
            /\ UNCHANGED <<cur, hdl, noti>>
         \/ /\ pc' = [pc EXCEPT ![c] = "idle"]
            /\ cur' = [cur EXCEPT ![c] = NULL]
            /\ hdl' = [hdl EXCEPT ![c] = 0]
            /\ noti' = [noti EXCEPT ![c] = "NONE"]
            /\ UNCHANGED <<job, fenceOf>>
  BY <1>1 DEF FenceStore, FenceFails, Goto
<1>4. /\ pc'[c] \in {"list", "idle"}
      /\ pc'[c] = "list" => cur'[c] = s /\ hdl'[c] = hdl[c]
      /\ \A d \in Clients : d # c =>
          /\ pc'[d] = pc[d] /\ cur'[d] = cur[d]
          /\ hdl'[d] = hdl[d] /\ tmp'[d] = tmp[d]
  BY <1>1, <1>3 DEF MemInv, PlacesOK
<1>5. \A t \in Slots :
           /\ job'[t].s32Handle = job[t].s32Handle
           /\ job'[t].bSubmitted <=> job[t].bSubmitted
           /\ job'[t].u8WaitForDoneCount = job[t].u8WaitForDoneCount
           /\ job'[t].enNotiType = job[t].enNotiType
  BY <1>2, <1>3, JobFacts DEF MemInv, JobType
<1>6. /\ tmp[c] + 1 <= Cardinality(Fenced') /\ tmp[c] \in Nat
      /\ Cardinality(Fenced') \in Nat /\ Cardinality(Fenced') <= MaxHandle
      /\ Cardinality(Fenced) \in Nat
      /\ Cardinality(Fenced) <= Cardinality(Fenced')
  BY <1>2, <1>3, <1>4, <1>5, FenceStoreFacts
<1>7. job' \in [Slots -> JobType]
  <2>1. tmp[c] + 1 \in 0..MaxHandle
    BY <1>6
  <2> QED BY <1>2, <1>3, <2>1, JobFacts DEF MemInv, JobType
<1>8. TypeOK'
  <2>1. fenceValue' \in Nat
    BY <1>3, <1>6
  <2> QED BY <1>3, <1>7, <2>1 DEF MemInv, TypeOK, JobType
<1>9. PlacesOK'
  <2>1. fenceOf' \in [Handles -> Nat] /\ tmp' \in [Clients -> Nat]
    BY <1>3, <1>6 DEF MemInv, PlacesOK
  <2> QED BY <1>3, <1>4, <2>1 DEF MemInv, PlacesOK, PreList
<1>10. HandleInv' /\ ListInv'
  <2>1. HandleInv'
    BY <1>2, <1>3, <1>5 DEF MemInv, HandleInv, query_handle
  <2>2. ListInv'
    BY <1>3, <1>5, EntryFacts DEF MemInv, ListInv
  <2> QED BY <2>1, <2>2
<1>11. \A d \in Clients : pc'[d] \in PreList =>
          /\ pc[d] \in PreList
          /\ pc[d] = "mark" <=> pc'[d] = "mark"
          /\ cur'[d] = cur[d] /\ hdl'[d] = hdl[d]
  BY <1>1, <1>2, <1>4 DEF PreList
<1>12. TaskletInv'
  <2>1. tpc \in {"callback", "notify"} /\ tkind = "COMPL" => tjob \in Slots
    BY <1>2 DEF MemInv, TaskletInv
  <2> QED BY <1>3, <1>5, <1>11, <2>1 DEF MemInv, TaskletInv
<1>13. \A d \in Clients : SubmitInv(d)'
  <2> TAKE d \in Clients
  <2>1. SubmitInv(d)
    BY DEF MemInv
  <2> QED BY <1>2, <1>3, <1>5, <1>11, <2>1 DEF SubmitInv
<1>14. \A d \in Clients : WaitInv(d)'
  <2> TAKE d \in Clients
  <2>1. WaitInv(d) /\ (pc'[d] \in Waiting \cup {"query_all"} => d # c)
    BY <1>4 DEF MemInv, Waiting
  <2> QED BY <1>2, <1>3, <1>4, <1>5, <2>1 DEF WaitInv, query_handle
<1>15. CountInv'
  <2>1. \A d \in Waiters : /\ pc'[d] \in Waiting <=> pc[d] \in Waiting
                           /\ pc[d] \in Waiting => cur'[d] = cur[d]
    BY <1>2, <1>4 DEF Clients, Waiting
  <2> QED BY <1>2, <1>3, <1>5, <2>1, CountKept
<1>16. FenceBound'
  <2>1. fenceValue' <= Cardinality(Fenced')
    BY <1>3, <1>6
  <2>2. ASSUME NEW d \in Clients, pc'[d] = "fence_store"
        PROVE  tmp'[d] <= Cardinality(Fenced')
    <3>1. tmp'[d] <= Cardinality(Fenced) /\ tmp'[d] \in Nat
      BY <1>4, <2>2 DEF MemInv, FenceBound, PlacesOK
    <3> QED BY <1>6, <3>1
  <2> QED BY <2>1, <2>2 DEF FenceBound
<1> QED BY <1>8, <1>9, <1>10, <1>12, <1>13, <1>14, <1>15, <1>16 DEF MemInv

LEMMA SubmitJobInv ==
    ASSUME MemInv, NEW c \in Clients, SubmitJob(c)
    PROVE  MemInv'
<1> USE TdeAssumption DEF memVars, taskletVars, fenceVars
<1>1. PICK s \in allocated : s = cur[c]
  BY DEF MemInv, SubmitInv, PreList, SubmitJob
<1>2. /\ pc[c] = "list" /\ s \in Slots /\ job[s].s32Handle = hdl[c]
      /\ owner[hdl[c]] = c /\ job[s].bSubmitted /\ s \notin Entries(stList)
      /\ job[s].enNotiType \in {"WAKE", "COMPL"} /\ allocated \subseteq Slots
      /\ job[s].s32Handle \in 0..MaxHandle
  BY <1>1, JobFacts DEF MemInv, SubmitInv, PreList, TypeOK, SubmitJob
<1>3. /\ next' = JoinChain(s) /\ stList' = list_add_tail(s, stList)
      /\ s32HandleLast' = job[s].s32Handle /\ pstJobLast' = s
      /\ UNCHANGED <<memVars, irq, executed, gone, taskletVars, fenceVars, tmp,
                     asleep, goal>>
      /\ \/ /\ pc' = [pc EXCEPT ![c] = "blocked"]
            /\ UNCHANGED <<cur, hdl, noti>>
         \/ /\ pc' = [pc EXCEPT ![c] = "idle"]
            /\ cur' = [cur EXCEPT ![c] = NULL]
            /\ hdl' = [hdl EXCEPT ![c] = 0]
            /\ noti' = [noti EXCEPT ![c] = "NONE"]
  BY <1>1 DEF SubmitJob, Goto
<1>4. /\ stList' \in Seq(Slots) /\ Entries(stList)' = Entries(stList) \cup {s}
      /\ LinkedOnce(stList')
  <2>1. stList \in Seq(Slots) /\ LinkedOnce(stList)
    BY DEF MemInv, TypeOK, ListInv
  <2>2. /\ list_add_tail(s, stList) \in Seq(Slots)
        /\ Entries(list_add_tail(s, stList)) = Entries(stList) \cup {s}
        /\ LinkedOnce(list_add_tail(s, stList))
    BY <1>2, <2>1, ListAddTail
  <2>3. Entries(stList)' = Entries(stList')
    BY DEF Entries
  <2> QED BY <1>3, <2>2, <2>3
<1>5. TypeOK'
  <2>1. next' \in [Handles -> 0..MaxHandle]
    BY <1>2, <1>3 DEF MemInv, TypeOK, JoinChain
  <2>2. PICK first \in Slots : TdeHalNodeExecute(first, job[first].s32Handle)
    BY <1>1, <1>2 DEF SubmitJob, MemInv, TypeOK
  <2>3. job[first].s32Handle \in 0..MaxHandle
    BY JobFacts DEF MemInv
  <2>4. /\ hw' \in 0..MaxHandle /\ curNode' \in 0..MaxHandle
        /\ pstJobToCommit' \in Slots \cup {NULL}
        /\ pstJobFinished' \in 0..MaxHandle
    BY <2>2, <2>3 DEF TdeHalNodeExecute, MemInv, TypeOK
  <2>5. s32HandleLast' \in -1..MaxHandle
    BY <1>2, <1>3
  <2> QED BY <1>2, <1>3, <1>4, <2>1, <2>4, <2>5 DEF MemInv, TypeOK
<1>6. /\ pc'[c] \in {"blocked", "idle"}
      /\ pc'[c] = "blocked" => cur'[c] = s
      /\ \A d \in Clients : d # c =>
          /\ pc'[d] = pc[d] /\ cur'[d] = cur[d]
          /\ hdl'[d] = hdl[d] /\ tmp'[d] = tmp[d]
  BY <1>1, <1>3 DEF MemInv, PlacesOK
<1>7. PlacesOK'
  BY <1>2, <1>3, <1>6 DEF MemInv, PlacesOK
<1>8. HandleInv'
  <2>1. job[s].s32Handle # 0 /\ job[s].s32Handle <= Len(owner)
    BY <1>2, JobFacts DEF MemInv, HandleInv
  <2> QED BY <1>2, <1>3, <2>1 DEF MemInv, HandleInv, query_handle
<1>9. ListInv'
  BY <1>2, <1>3, <1>4 DEF MemInv, ListInv
<1>10. \A d \in Clients : pc'[d] \in PreList =>
          /\ pc[d] \in PreList /\ d # c /\ cur[d] # s
  BY <1>2, <1>6 DEF MemInv, SubmitInv, PreList
<1>11. TaskletInv'
  <2>1. tpc \in {"callback", "notify"} /\ tkind = "COMPL" => tjob # s
    BY <1>1, <1>2 DEF MemInv, TaskletInv, PreList
  <2> QED BY <1>3, <1>4, <1>6, <1>10, <2>1 DEF MemInv, TaskletInv
<1>12. \A d \in Clients : SubmitInv(d)'
  BY <1>3, <1>4, <1>6, <1>10 DEF MemInv, SubmitInv
<1>13. \A d \in Clients : WaitInv(d)'
  <2> TAKE d \in Clients
  <2>1. WaitInv(d) /\ (pc'[d] \in Waiting \cup {"query_all"} => d # c)
    BY <1>6 DEF MemInv, Waiting
  <2> QED BY <1>3, <1>6, <2>1 DEF WaitInv, query_handle
<1>14. CountInv'
  <2>1. \A d \in Waiters : /\ pc'[d] \in Waiting <=> pc[d] \in Waiting
                           /\ pc[d] \in Waiting => cur'[d] = cur[d]
    BY <1>2, <1>6 DEF Clients, Waiting
  <2> QED BY <1>3, <2>1, CountKept
<1>15. FenceBound'
  <2>1. Fenced \subseteq Fenced'
    BY <1>3, <1>6 DEF Fenced, query_handle
  <2>2. Len(owner)' \in Nat
    BY <1>3 DEF MemInv, TypeOK
  <2> QED BY <1>3, <1>6, <2>1, <2>2, FenceKept
<1> QED BY <1>5, <1>7, <1>8, <1>9, <1>11, <1>12, <1>13, <1>14, <1>15 DEF MemInv

(* The first job of the list, in the hands of the tasklet.                 *)
LEMMA TakeInv ==
    ASSUME MemInv, NodeCompTake
    PROVE  MemInv'
<1> USE TdeAssumption DEF hwVars, fenceVars, clientVars
<1>1. PICK s \in Slots : s = Head(stList) /\ s \in Entries(stList)
  BY EntryFacts DEF NodeCompTake, MemInv
<1>2. /\ s \in allocated /\ job[s].bSubmitted /\ allocated \subseteq Slots
      /\ job[s].enNotiType \in {"WAKE", "COMPL"}
  BY <1>1 DEF MemInv, ListInv, TypeOK
<1>3. /\ stList' = Tail(stList) /\ stList # <<>>
      /\ s32HandleLast' \in {-1, s32HandleLast}
      /\ tjob' = s /\ tdel' = job[s].s32Handle /\ tkind' = job[s].enNotiType
      /\ job' = IF job[s].enNotiType = "WAKE"
                THEN [job EXCEPT ![s].enNotiType = "BUTT"] ELSE job
      /\ tpc' \in {"callback", "notify"}
      /\ UNCHANGED <<allocated, owner, pstJobToCommit, pstJobFinished,
                     pstJobLast, hwVars, data, sched, targ, twork, tfin,
                     fenceVars, clientVars>>
  BY <1>1 DEF NodeCompTake, LastAfter
<1>4. /\ stList' \in Seq(Slots) /\ Entries(stList)' = Entries(stList) \ {s}
      /\ LinkedOnce(stList')
  <2>1. stList \in Seq(Slots) /\ LinkedOnce(stList)
    BY DEF MemInv, TypeOK, ListInv
  <2>2. /\ Tail(stList) \in Seq(Slots) /\ LinkedOnce(Tail(stList))
        /\ Entries(Tail(stList)) = Entries(stList) \ {Head(stList)}
    BY <1>3, <2>1, ListTail
  <2>3. Entries(stList)' = Entries(stList')
    BY DEF Entries
  <2> QED BY <1>1, <1>3, <2>2, <2>3
<1>5. /\ job' \in [Slots -> JobType]
      /\ \A t \in Slots :
           /\ job'[t].s32Handle = job[t].s32Handle
           /\ job'[t].bSubmitted <=> job[t].bSubmitted
           /\ job'[t].u8WaitForDoneCount = job[t].u8WaitForDoneCount
           /\ t # s => job'[t].enNotiType = job[t].enNotiType
      /\ job[s].enNotiType # "WAKE" => job' = job
  <2>1. CASE job[s].enNotiType # "WAKE"
    BY <1>3, <2>1, JobFacts DEF MemInv
  <2>2. CASE job[s].enNotiType = "WAKE"
    <3>1. job' = [job EXCEPT ![s].enNotiType = "BUTT"]
      BY <1>3, <2>2
    <3>2. job \in [Slots -> JobType]
      BY JobFacts DEF MemInv
    <3> QED BY <3>1, <3>2, <2>2 DEF JobType
  <2> QED BY <2>1, <2>2
<1>6. TypeOK'
  <2>1. s32HandleLast' \in -1..MaxHandle
    <3>1. s32HandleLast \in -1..MaxHandle /\ MaxHandle \in Nat
      BY DEF MemInv, TypeOK, TdeAssumption
    <3> QED BY <1>3, <3>1
  <2>2. tjob' \in Slots /\ tjob' # NULL
    BY <1>3
  <2> QED BY <1>3, <1>4, <1>5, <2>1, <2>2 DEF MemInv, TypeOK, JobType
<1>7. PlacesOK'
  BY <1>2, <1>3 DEF MemInv, PlacesOK
<1>8. HandleInv'
  <2>1. Len(owner) \in Nat
    BY DEF MemInv, TypeOK
  <2>2. \A t \in allocated : job[t].s32Handle \in Nat
    BY <1>2, JobFacts DEF MemInv
  <2> QED BY <1>2, <1>3, <1>5, <2>1, <2>2 DEF MemInv, HandleInv, query_handle
<1>9. ListInv'
  BY <1>2, <1>3, <1>4, <1>5 DEF MemInv, ListInv
<1>10. \A d \in Clients : pc[d] \in PreList => cur[d] # s
  BY <1>1 DEF MemInv, SubmitInv
<1>11. TaskletInv'
  BY <1>2, <1>3, <1>4, <1>5, <1>10 DEF TaskletInv
<1>12. \A d \in Clients : SubmitInv(d)'
  BY <1>2, <1>3, <1>4, <1>5, <1>10 DEF MemInv, SubmitInv
<1>13. \A d \in Clients : WaitInv(d)'
  BY <1>2, <1>3, <1>5 DEF MemInv, WaitInv, query_handle
<1>14. CountInv'
  BY <1>2, <1>3, <1>5, CountKept
<1>15. FenceBound'
  <2>1. Fenced \subseteq Fenced'
    BY <1>2, <1>3, <1>5 DEF Fenced, query_handle
  <2>2. Len(owner)' \in Nat
    BY <1>3 DEF MemInv, TypeOK
  <2> QED BY <1>3, <2>1, <2>2, FenceKept
<1> QED BY <1>6, <1>7, <1>8, <1>9, <1>11, <1>12, <1>13, <1>14, <1>15 DEF MemInv

LEMMA NotifyInv ==
    ASSUME ProperUse, MemInv, NodeCompNotify
    PROVE  MemInv'
<1> USE TdeAssumption
<1>1. PICK s \in Slots : s = tjob
  BY DEF NodeCompNotify, MemInv, TypeOK
<1>2. /\ tpc = "notify" /\ allocated \subseteq Slots
      /\ tpc' \in {"idle", "loop"} /\ tjob' = NULL /\ tkind' = "NONE"
      /\ UNCHANGED <<owner, stList, s32HandleLast, pstJobLast, next, data,
                     sched, fenceValue, fenceOf, pc, cur, hdl, noti, tmp>>
  BY DEF NodeCompNotify, MemInv, TypeOK
<1>3. /\ \/ /\ job' = job /\ allocated' = allocated
         \/ /\ tkind = "COMPL" /\ allocated' = allocated
            /\ job[s].u8WaitForDoneCount # 0
            /\ job' = [job EXCEPT ![s].enNotiType = "BUTT"]
         \/ /\ tkind = "COMPL" /\ job' = job /\ allocated' = allocated \ {s}
            /\ job[s].u8WaitForDoneCount = 0
      /\ asleep' \subseteq asleep /\ timeline' \in Nat
  <2>1. DestroyJob(s) = allocated \ {s}
    BY DestroyFacts DEF MemInv
  <2>2. timeline \in Nat /\ asleep' \subseteq asleep
    BY DEF NodeCompNotify, MemInv, TypeOK
  <2>3. timeline' \in Nat
    BY <2>2 DEF NodeCompNotify
  <2> QED BY <1>1, <2>1, <2>2, <2>3 DEF NodeCompNotify
<1>4. tkind = "COMPL" =>
          /\ s \in allocated /\ job[s].bSubmitted
          /\ s \notin Entries(stList)
          /\ \A d \in Clients : pc[d] \in PreList => cur[d] # s
  BY <1>1, <1>2 DEF MemInv, TaskletInv
<1>5. /\ job' \in [Slots -> JobType]
      /\ \A t \in Slots :
           /\ job'[t].s32Handle = job[t].s32Handle
           /\ job'[t].bSubmitted <=> job[t].bSubmitted
           /\ job'[t].u8WaitForDoneCount = job[t].u8WaitForDoneCount
           /\ t # s \/ tkind # "COMPL" => job'[t].enNotiType = job[t].enNotiType
  BY <1>3, JobFacts DEF MemInv, JobType
<1>6. /\ allocated' \subseteq allocated
      /\ \A t \in allocated \ allocated' :
           t = s /\ WaitersOf(s) = {} /\ tkind = "COMPL"
  <2>1. CASE allocated' = allocated
    BY <2>1
  <2>2. CASE /\ tkind = "COMPL" /\ allocated' = allocated \ {s}
             /\ job[s].u8WaitForDoneCount = 0
    <3>1. Cardinality(WaitersOf(s)) = 0
      BY <1>4, <2>2 DEF MemInv, CountInv
    <3> QED BY <2>2, <3>1, WaitersFacts
  <2> QED BY <1>3, <2>1, <2>2
<1>7. TypeOK'
  <2>1. /\ hw' \in 0..MaxHandle /\ curNode' \in 0..MaxHandle /\ irq' \in BOOLEAN
        /\ pstJobToCommit' \in Slots \cup {NULL}
        /\ pstJobFinished' \in 0..MaxHandle
    <3>1. CASE UNCHANGED <<irq, pstJobToCommit, pstJobFinished, hw, curNode>>
      BY <3>1 DEF MemInv, TypeOK
    <3>2. CASE irq' = FALSE /\ TdeOsiListCompProc
      <4>1. CASE pstJobToCommit = NULL
        BY <3>2, <4>1 DEF TdeOsiListCompProc, MemInv, TypeOK
      <4>2. CASE pstJobToCommit # NULL
        <5>1. /\ pstJobToCommit \in Slots
              /\ job[pstJobToCommit].s32Handle \in 0..MaxHandle
          BY <4>2, JobFacts DEF MemInv, TypeOK
        <5> QED BY <3>2, <4>2, <5>1
                DEF TdeOsiListCompProc, TdeHalNodeExecute, MemInv, TypeOK
      <4> QED BY <4>1, <4>2
    <3> QED BY <3>1, <3>2 DEF NodeCompNotify
  <2>2. asleep' \subseteq Clients /\ allocated' \subseteq Slots
    BY <1>2, <1>3, <1>6 DEF MemInv, TypeOK
  <2> QED BY <1>2, <1>3, <1>5, <2>1, <2>2 DEF MemInv, TypeOK, JobType
<1>8. PlacesOK'
  BY <1>2 DEF MemInv, PlacesOK
<1>9. HandleInv'
  BY <1>2, <1>4, <1>5, <1>6 DEF MemInv, HandleInv, query_handle
<1>10. ListInv'
  BY <1>2, <1>4, <1>5, <1>6, EntryFacts DEF MemInv, ListInv
<1>11. TaskletInv'
  BY <1>2 DEF TaskletInv
<1>12. \A d \in Clients : SubmitInv(d)'
  BY <1>2, <1>4, <1>5, <1>6 DEF MemInv, SubmitInv
<1>13. \A d \in Clients : WaitInv(d)'
  <2> TAKE d \in Clients
  <2>1. WaitInv(d) /\ (pc[d] \in Waiting => cur[d] \in allocated')
    BY <1>6 DEF MemInv, WaitInv, WaitersOf
  <2> QED BY <1>2, <1>5, <1>6, <2>1 DEF WaitInv, query_handle
<1>14. CountInv'
  BY <1>2, <1>5, <1>6, CountKept
<1>15. FenceBound'
  <2>1. Fenced \subseteq Fenced'
    BY <1>2, <1>5, <1>6 DEF Fenced, query_handle
  <2>2. Len(owner)' \in Nat
    BY <1>2 DEF MemInv, TypeOK
  <2> QED BY <1>2, <2>1, <2>2, FenceKept
<1> QED BY <1>7, <1>8, <1>9, <1>10, <1>11, <1>12, <1>13, <1>14, <1>15 DEF MemInv

LEMMA ResetInv ==
    ASSUME ProperUse, MemInv, NEW c \in Clients, TdeOsiListReset(c)
    PROVE  MemInv'
<1> USE TdeAssumption DEF taskletVars, fenceVars
<1>1. /\ pc[c] = "reset" /\ pc' = [pc EXCEPT ![c] = "idle"]
      /\ stList' = <<>> /\ asleep' \subseteq asleep
      /\ s32HandleLast' \in {-1, s32HandleLast}
      /\ pstJobToCommit' \in {NULL, pstJobToCommit}
      /\ pstJobLast' \in {NULL, pstJobLast}
      /\ UNCHANGED <<owner, pstJobFinished, next, hw, curNode, irq,
                     taskletVars, fenceVars, cur, hdl, noti, tmp>>
  BY DEF TdeOsiListReset, Goto
<1>2. Entries(stList) \subseteq allocated /\ allocated \subseteq Slots
  BY DEF MemInv, ListInv, TypeOK
<1>3. /\ job' \in [Slots -> JobType]
      /\ \A t \in Slots :
           /\ job'[t].s32Handle = job[t].s32Handle
           /\ job'[t].bSubmitted <=> job[t].bSubmitted
           /\ job'[t].u8WaitForDoneCount = job[t].u8WaitForDoneCount
           /\ t \notin Entries(stList) => job'[t].enNotiType = job[t].enNotiType
  <2>1. /\ job' = [s \in Slots |-> job'[s]]
        /\ \A t \in Slots : \/ job'[t] = job[t]
                            \/ /\ t \in Entries(stList)
                               /\ job'[t] = [job[t] EXCEPT !.enNotiType = "BUTT"]
    BY DEF TdeOsiListReset
  <2>2. \A t \in Slots : job[t] \in JobType
    BY JobFacts DEF MemInv
  <2>3. \A r \in JobType :
          /\ [r EXCEPT !.enNotiType = "BUTT"] \in JobType
          /\ [r EXCEPT !.enNotiType = "BUTT"].s32Handle = r.s32Handle
          /\ [r EXCEPT !.enNotiType = "BUTT"].bSubmitted <=> r.bSubmitted
          /\ [r EXCEPT !.enNotiType = "BUTT"].u8WaitForDoneCount
               = r.u8WaitForDoneCount
    BY DEF JobType
  <2>4. ASSUME NEW t \in Slots
        PROVE  /\ job'[t] \in JobType
               /\ job'[t].s32Handle = job[t].s32Handle
               /\ job'[t].bSubmitted <=> job[t].bSubmitted
               /\ job'[t].u8WaitForDoneCount = job[t].u8WaitForDoneCount
               /\ t \notin Entries(stList) =>
                    job'[t].enNotiType = job[t].enNotiType
    <3>1. CASE job'[t] = job[t]
      BY <2>2, <3>1
    <3>2. CASE /\ t \in Entries(stList)
               /\ job'[t] = [job[t] EXCEPT !.enNotiType = "BUTT"]
      BY <2>2, <2>3, <3>2
    <3> QED BY <2>1, <3>1, <3>2
  <2> QED BY <2>1, <2>4
<1>4. /\ allocated' \subseteq allocated
      /\ \A t \in allocated \ allocated' :
           /\ t \in Entries(stList) /\ job[t].u8WaitForDoneCount = 0
  BY DEF TdeOsiListReset
<1>5. \A t \in allocated \ allocated' : WaitersOf(t) = {}
  BY <1>4, WaitersFacts DEF MemInv, CountInv
<1>6. TypeOK'
  <2>1. s32HandleLast' \in -1..MaxHandle
    <3>1. s32HandleLast \in -1..MaxHandle /\ MaxHandle \in Nat
      BY DEF MemInv, TypeOK, TdeAssumption
    <3> QED BY <1>1, <3>1
  <2>2. /\ stList' \in Seq(Slots) /\ asleep' \subseteq Clients
        /\ allocated' \subseteq Slots
        /\ pstJobToCommit' \in Slots \cup {NULL}
        /\ pstJobLast' \in Slots \cup {NULL}
    BY <1>1, <1>2, <1>4 DEF MemInv, TypeOK
  <2> QED BY <1>1, <1>3, <2>1, <2>2 DEF MemInv, TypeOK, JobType
<1>7. PlacesOK'
  BY <1>1 DEF MemInv, PlacesOK
<1>8. pc'[c] = "idle" /\ \A d \in Clients : d # c => pc'[d] = pc[d]
  BY <1>1 DEF MemInv, PlacesOK
<1>9. HandleInv'
  <2>1. Len(owner) \in Nat
    BY DEF MemInv, TypeOK
  <2>2. \A t \in allocated : job[t].s32Handle \in Nat
    BY <1>2, JobFacts DEF MemInv
  <2> QED BY <1>1, <1>2, <1>3, <1>4, <2>1, <2>2
          DEF MemInv, HandleInv, ListInv, query_handle
<1>10. ListInv' /\ Entries(stList)' = {}
  BY <1>1 DEF ListInv, LinkedOnce, Entries
<1>11. \A d \in Clients : pc'[d] \in PreList =>
          pc[d] \in PreList /\ pc'[d] = pc[d] /\ cur[d] \in Slots
  BY <1>1, <1>2, <1>8 DEF MemInv, SubmitInv, PreList
<1>12. TaskletInv'
  <2>1. tpc \in {"callback", "notify"} /\ tkind = "COMPL" =>
          tjob \in Slots /\ tjob \in allocated'
    BY <1>2, <1>4 DEF MemInv, TaskletInv
  <2> QED BY <1>1, <1>3, <1>10, <1>11, <2>1 DEF MemInv, TaskletInv
<1>13. \A d \in Clients : SubmitInv(d)'
  <2> TAKE d \in Clients
  <2>1. SubmitInv(d)
    BY DEF MemInv
  <2>2. pc'[d] \in PreList => cur[d] \in allocated'
    BY <1>4, <1>11, <2>1 DEF SubmitInv
  <2> QED BY <1>1, <1>3, <1>10, <1>11, <2>1, <2>2 DEF SubmitInv
<1>14. \A d \in Clients : WaitInv(d)'
  <2> TAKE d \in Clients
  <2>1. WaitInv(d) /\ (pc'[d] \in Waiting \cup {"query_all"} => d # c)
    BY <1>8 DEF MemInv, Waiting
  <2>2. pc[d] \in Waiting => cur[d] \in allocated'
    BY <1>5, <2>1 DEF WaitInv, WaitersOf
  <2> QED BY <1>1, <1>2, <1>3, <1>4, <1>8, <2>1, <2>2 DEF WaitInv, query_handle
<1>15. CountInv'
  <2>1. \A d \in Waiters : /\ pc'[d] \in Waiting <=> pc[d] \in Waiting
                           /\ pc[d] \in Waiting => cur'[d] = cur[d]
    BY <1>1, <1>8 DEF Clients, Waiting
  <2> QED BY <1>2, <1>3, <1>4, <2>1, CountKept
<1>16. FenceBound'
  <2>1. Fenced \subseteq Fenced'
    BY <1>1, <1>2, <1>3, <1>4, <1>8 DEF Fenced, query_handle
  <2>2. Len(owner)' \in Nat
    BY <1>1 DEF MemInv, TypeOK
  <2> QED BY <1>1, <1>8, <2>1, <2>2, FenceKept
<1> QED BY <1>6, <1>7, <1>9, <1>10, <1>12, <1>13, <1>14, <1>15, <1>16 DEF MemInv

LEMMA InitMem == Init => MemInv
<1> SUFFICES ASSUME Init PROVE MemInv
  OBVIOUS
<1> USE TdeAssumption DEF Init
<1>1. TypeOK
  <2>1. NewJob(0) \in JobType
    BY DEF NewJob, JobType, U8
  <2>2. job \in [Slots -> JobType]
    BY <2>1
  <2>3. /\ next \in [Handles -> 0..MaxHandle]
        /\ s32HandleLast \in -1..MaxHandle /\ Len(owner) <= MaxHandle
    BY DEF TdeAssumption
  <2>4. /\ allocated \subseteq Slots /\ asleep \subseteq Clients
        /\ owner \in Seq(Submitters) /\ stList \in Seq(Slots)
        /\ pstJobToCommit \in Slots \cup {NULL}
        /\ pstJobLast \in Slots \cup {NULL} /\ tjob \in Slots \cup {NULL}
    OBVIOUS
  <2>5. /\ pstJobFinished \in 0..MaxHandle /\ hw \in 0..MaxHandle
        /\ curNode \in 0..MaxHandle /\ fenceValue \in Nat /\ timeline \in Nat
    OBVIOUS
  <2>6. irq \in BOOLEAN /\ data \in BOOLEAN /\ sched \in BOOLEAN
    BY Zenon
  <2>7. /\ tpc \in {"idle", "start", "comp", "loop", "callback", "notify"}
        /\ tjob = NULL <=> tpc \notin {"callback", "notify"}
    OBVIOUS
  <2> QED BY <2>2, <2>3, <2>4, <2>5, <2>6, <2>7, Zenon DEF TypeOK, JobType
<1>2. PlacesOK
  BY DEF PlacesOK, Handles
<1>3. HandleInv
  BY DEF HandleInv, query_handle, NewJob
<1>4. ListInv /\ TaskletInv /\ CountInv
  BY DEF ListInv, TaskletInv, CountInv, LinkedOnce, Entries
<1>5. \A c \in Clients : SubmitInv(c) /\ WaitInv(c)
  BY DEF SubmitInv, WaitInv, PreList, Waiting
<1>6. FenceBound
  <2>1. Fenced = {}
    BY DEF Fenced
  <2> QED BY <2>1, FS_EmptySet DEF FenceBound
<1> QED BY <1>1, <1>2, <1>3, <1>4, <1>5, <1>6 DEF MemInv

LEMMA NextMem ==
    ASSUME ProperUse, MemInv, [Next]_vars
    PROVE  MemInv'
<1>1. ASSUME NEW c \in Clients, Client(c)
      PROVE  MemInv'
  <2>1. ASSUME NEW h \in Handles, SubmitTest(c, h)
        PROVE  MemInv'
    BY <2>1, OpenJobInv, SubmitTestInv
  <2>2. ASSUME NEW h \in Handles,
               \/ TdeOsiSetNodeFinish(c, h) \/ TdeOsiListCancelJob(c, h)
               \/ TdeOsiListWaitForDone(c, h)
        PROVE  MemInv'
    BY <2>2, OpenJobInv, WaitForDoneInv
  <2>3. CASE \/ TdeOsiListBeginJob(c) \/ TdeOsiListWaitAllDone(c)
             \/ SignalArrives(c) \/ ResetHardware(c)
    BY <2>3, BeginInv, WaitAllInv, SignalInv, ResetHardwareInv
  <2> QED BY <1>1, <2>1, <2>2, <2>3 DEF Client
<1>2. ASSUME NEW c \in Clients, Proceed(c)
      PROVE  MemInv'
  BY <1>2, SubmitMarkInv, FenceCreateInv, FenceStoreInv, SubmitJobInv,
     SubmitWakeInv, QueryAllInv, WaitEndsInv, ResetInv DEF Proceed
<1>3. CASE HwComplete \/ tde_osr_isr \/ CoreDump \/ Tasklet
  BY <1>3, EngineInv, TakeInv, NotifyInv DEF Tasklet
<1>4. CASE UNCHANGED vars
  <2>1. UNCHANGED <<allocated, job, owner, stList, s32HandleLast,
                    pstJobToCommit, pstJobFinished, pstJobLast, next, hw,
                    curNode, irq, data, sched, tpc, tjob, tkind, fenceValue,
                    timeline, fenceOf, pc, cur, hdl, noti, tmp, asleep>>
    BY <1>4 DEF vars, memVars, listVars, hwVars, taskletVars, fenceVars,
                clientVars
  <2>2. TypeOK'
    BY <2>1 DEF MemInv, TypeOK
  <2> QED BY <2>1, <2>2, QuietStep
<1> QED BY <1>1, <1>2, <1>3, <1>4 DEF Next

(* MemInv holds in every reachable state of the job list, whatever resets, *)
(* faults and completions come in between.                                 *)
THEOREM JobMemoryInvariance ==
    ASSUME ProperUse
    PROVE  Spec => []MemInv
<1>1. Init => MemInv
  BY InitMem
<1>2. MemInv /\ [Next]_vars => MemInv'
  BY NextMem
<1> QED BY <1>1, <1>2, PTL DEF Spec

(* The fields of the list, of its jobs and of the tasklet stay within      *)
(* their types: no fence is numbered beyond the jobs that were begun, and  *)
(* the tasklet has a job exactly from NodeCompTake to NodeCompNotify.      *)
THEOREM TdeTypeCorrect ==
    ASSUME ProperUse
    PROVE  Spec => []TypeOK
<1>1. MemInv => TypeOK
  BY DEF MemInv
<1> QED BY <1>1, JobMemoryInvariance, PTL

(* u8WaitForDoneCount does what it is for: no blocked submit, waiting      *)
(* thread, completion or reset frees a job that a thread waits for.        *)
THEOREM WaitedJobsAreKept ==
    ASSUME ProperUse
    PROVE  Spec => []WaitedJobIsKept
<1>1. MemInv => WaitedJobIsKept
  BY DEF MemInv, WaitInv, WaitedJobIsKept, Waiting
<1> QED BY <1>1, JobMemoryInvariance, PTL
-------------------------------------------------------------------------------
(* A slot that a step leaves alone is held as before.                      *)
LEMMA HeldKept ==
    ASSUME NEW s, Held(s),
           job'[s].bSubmitted <=> job[s].bSubmitted,
           job'[s].enNotiType = job[s].enNotiType,
           job'[s].u8WaitForDoneCount = 0 => job[s].u8WaitForDoneCount = 0,
           OnItsWay(s) => OnItsWay(s)',
           \A d \in Clients : cur[d] = s =>
               /\ pc[d] = "blocked" => cur'[d] = s /\ pc'[d] = "blocked"
               /\ pc[d] = "list" /\ noti[d] = "WAKE" =>
                    /\ cur'[d] = s
                    /\ pc'[d] = "blocked" \/ (pc'[d] = "list" /\ noti'[d] = "WAKE")
    PROVE  Held(s)'
<1>1. HasBlocked(s) => HasBlocked(s)'
  BY DEF HasBlocked
<1>2. HasSubmit(s) => HasSubmit(s)'
  BY DEF HasSubmit
<1> QED BY <1>1, <1>2 DEF Held

(* The steps of a thread that is in no submit and of the hardware.         *)
LEMMA HeldQuiet ==
    ASSUME MemInv, HeldInv, allocated' \subseteq allocated,
           \A s \in allocated' :
               /\ job'[s].bSubmitted <=> job[s].bSubmitted
               /\ job'[s].enNotiType = job[s].enNotiType
               /\ \/ job'[s].u8WaitForDoneCount = 0 =>
                       job[s].u8WaitForDoneCount = 0
                  \/ job[s].enNotiType # "BUTT",
           UNCHANGED <<stList, tjob, tkind>>,
           \A d \in Clients : pc[d] \in PreList \cup {"blocked"} =>
               UNCHANGED <<pc[d], cur[d], noti[d]>>
    PROVE  HeldInv'
<1> SUFFICES ASSUME NEW s \in allocated' PROVE Held(s)'
  BY DEF HeldInv
<1>1. Held(s)
  BY DEF HeldInv
<1>2. OnItsWay(s) => OnItsWay(s)'
  BY DEF OnItsWay, Entries
<1>3. HasBlocked(s) => HasBlocked(s)'
  BY DEF HasBlocked
<1>4. HasSubmit(s) => HasSubmit(s)'
  BY DEF HasSubmit, PreList
<1> QED BY <1>1, <1>2, <1>3, <1>4 DEF Held

(* The steps that touch no submit: the engine, the begin and the end of a  *)
(* wait, a job that is not submitted.                                      *)
LEMMA HeldOther ==
    ASSUME ProperUse, MemInv, HeldInv,
           \/ HwComplete \/ tde_osr_isr \/ CoreDump \/ TaskletRun
           \/ tde_tasklet_func \/ TdeOsiListNodeComp \/ NodeCompEmpty
           \/ CallbackReturns \/ UNCHANGED vars
           \/ \E c \in Clients :
                \/ TdeOsiListWaitAllDone(c) \/ SignalArrives(c)
                \/ ResetHardware(c)
                \/ \E h \in Handles : \/ TdeOsiSetNodeFinish(c, h)
                                      \/ TdeOsiListCancelJob(c, h)
                                      \/ SubmitTest(c, h)
    PROVE  HeldInv'
<1> USE DEF memVars, listVars, hwVars, taskletVars, fenceVars, clientVars
<1>1. ASSUME UNCHANGED <<allocated, job, stList, tjob, tkind, pc, cur, noti>>
      PROVE  HeldInv'
  BY <1>1, HeldQuiet
<1>2. CASE \/ HwComplete \/ tde_osr_isr \/ CoreDump \/ TaskletRun
           \/ tde_tasklet_func \/ TdeOsiListNodeComp \/ NodeCompEmpty
           \/ CallbackReturns \/ UNCHANGED vars
  <2>1. UNCHANGED <<allocated, job, stList, tjob, tkind, pc, cur, noti>>
    BY <1>2 DEF HwComplete, tde_osr_isr, CoreDump, TaskletRun,
                tde_tasklet_func, TdeOsiListNodeComp, NodeCompEmpty,
                CallbackReturns, vars
  <2> QED BY <2>1, <1>1
<1>3. ASSUME NEW c \in Clients,
             TdeOsiListWaitAllDone(c) \/ SignalArrives(c) \/ ResetHardware(c)
      PROVE  HeldInv'
  <2>1. /\ pc[c] \in {"idle", "wait_all"}
        /\ \A d \in Clients : d # c => pc'[d] = pc[d]
        /\ UNCHANGED <<allocated, job, stList, tjob, tkind, cur, noti>>
    BY <1>3 DEF TdeOsiListWaitAllDone, SignalArrives, ResetHardware, Goto,
                MemInv, PlacesOK
  <2>2. \A d \in Clients : pc[d] \in PreList \cup {"blocked"} =>
            UNCHANGED <<pc[d], cur[d], noti[d]>>
    BY <2>1 DEF PreList
  <2> QED BY <2>1, <2>2, HeldQuiet
<1>4. ASSUME NEW c \in Clients, NEW h \in Handles,
             \/ TdeOsiSetNodeFinish(c, h) \/ TdeOsiListCancelJob(c, h)
             \/ SubmitTest(c, h)
      PROVE  HeldInv'
  <2>1. PICK s \in Slots :
          /\ pc[c] = "idle"
          /\ allocated' \subseteq allocated
          /\ job' = job \/ job' = [job EXCEPT ![s].cmd = TRUE]
          /\ \A d \in Clients : d # c => pc'[d] = pc[d] /\ cur'[d] = cur[d]
          /\ UNCHANGED <<stList, tjob, tkind, noti>>
    <3>1. CASE TdeOsiSetNodeFinish(c, h)
      BY <3>1 DEF TdeOsiSetNodeFinish, Finds
    <3>2. CASE TdeOsiListCancelJob(c, h)
      BY <3>2 DEF TdeOsiListCancelJob, Finds
    <3>3. CASE SubmitTest(c, h)
      <4>1. PICK s \in Slots : Finds(c, h, s)
        BY <3>3 DEF SubmitTest
      <4>2. /\ allocated' \subseteq allocated /\ job' = job
            /\ UNCHANGED <<stList, tjob, tkind, noti>>
            /\ pc' = [pc EXCEPT ![c] = "mark"] \/ pc' = pc
            /\ cur' = cur \/ \E t \in Slots : cur' = [cur EXCEPT ![c] = t]
        BY <3>3 DEF SubmitTest, Goto
      <4>3. \A d \in Clients : d # c => pc'[d] = pc[d] /\ cur'[d] = cur[d]
        BY <4>2 DEF MemInv, PlacesOK
      <4> QED BY <4>1, <4>2, <4>3 DEF Finds
    <3> QED BY <1>4, <3>1, <3>2, <3>3
  <2>2. \A t \in Slots :
           /\ job'[t].bSubmitted <=> job[t].bSubmitted
           /\ job'[t].u8WaitForDoneCount = job[t].u8WaitForDoneCount
           /\ job'[t].enNotiType = job[t].enNotiType
    BY <2>1, JobFacts DEF MemInv, JobType
  <2>3. \A d \in Clients : pc[d] \in PreList \cup {"blocked"} =>
            UNCHANGED <<pc[d], cur[d], noti[d]>>
    BY <2>1 DEF PreList
  <2>4. allocated \subseteq Slots
    BY DEF MemInv, TypeOK
  <2> QED BY <2>1, <2>2, <2>3, <2>4, HeldQuiet
<1> QED BY <1>2, <1>3, <1>4

LEMMA HeldBegin ==
    ASSUME MemInv, HeldInv, NEW c \in Clients, TdeOsiListBeginJob(c)
    PROVE  HeldInv'
<1> USE DEF listVars, hwVars, taskletVars, fenceVars, clientVars
<1>1. PICK s \in Slots \ allocated :
        /\ allocated' = allocated \cup {s}
        /\ job' = [job EXCEPT ![s] = NewJob(Len(owner) + 1)]
  BY DEF TdeOsiListBeginJob
<1>2. UNCHANGED <<stList, tjob, tkind, pc, cur, noti>>
  BY DEF TdeOsiListBeginJob
<1>3. /\ ~job'[s].bSubmitted /\ job'[s].enNotiType = "NONE"
      /\ \A t \in Slots : t # s => job'[t] = job[t]
  BY <1>1, JobFacts DEF MemInv, NewJob
<1>4. Held(s)'
  BY <1>3 DEF Held
<1>5. ASSUME NEW t \in allocated PROVE Held(t)'
  <2>1. job'[t] = job[t] /\ Held(t)
    BY <1>1, <1>3 DEF HeldInv, MemInv, TypeOK
  <2>2. OnItsWay(t) => OnItsWay(t)'
    BY <1>2 DEF OnItsWay, Entries
  <2> QED BY <1>2, <2>1, <2>2, HeldKept
<1> QED BY <1>1, <1>4, <1>5 DEF HeldInv

(* A thread that waits is not one that submits.                            *)
LEMMA HeldWait ==
    ASSUME ProperUse, MemInv, HeldInv, NEW c \in Clients,
           \/ \E h \in Handles : TdeOsiListWaitForDone(c, h)
           \/ QueryAll(c) \/ WaitEnds(c) \/ WaitAllEnds(c) \/ WaitInterrupted(c)
    PROVE  HeldInv'
<1> USE DEF listVars, taskletVars
<1>1. /\ pc[c] \notin PreList \cup {"blocked"}
      /\ \A d \in Clients : d # c => pc'[d] = pc[d] /\ cur'[d] = cur[d]
      /\ UNCHANGED <<stList, tjob, tkind, noti>>
  BY DEF TdeOsiListWaitForDone, QueryAll, WaitEnds, WaitAllEnds,
         WaitInterrupted, CountIn, CountOut, Goto, MemInv, PlacesOK, PreList
<1>2. \A d \in Clients : pc[d] \in PreList \cup {"blocked"} =>
          UNCHANGED <<pc[d], cur[d], noti[d]>>
  BY <1>1
<1>3. allocated \subseteq Slots
  BY DEF MemInv, TypeOK
<1>4. ASSUME NEW s \in allocated, NEW place \in Waiting, pc[c] \notin Waiting,
             CountIn(c, s, place), allocated' = allocated, c \in Waiters
      PROVE  HeldInv'
  <2>1. /\ \A t \in Slots :
             /\ job'[t].bSubmitted <=> job[t].bSubmitted
             /\ job'[t].enNotiType = job[t].enNotiType
             /\ t # s => job'[t].u8WaitForDoneCount = job[t].u8WaitForDoneCount
        /\ job'[s].u8WaitForDoneCount # 0
    BY <1>4, CountInFacts
  <2> QED BY <1>1, <1>2, <1>3, <1>4, <2>1, HeldQuiet
<1>5. ASSUME NEW h \in Handles, TdeOsiListWaitForDone(c, h)
      PROVE  HeldInv'
  <2>1. PICK s \in query_handle(h) : CountIn(c, s, "wait")
    BY <1>5 DEF TdeOsiListWaitForDone
  <2>2. /\ c \in Waiters /\ pc[c] = "idle" /\ allocated' = allocated
        /\ s \in allocated
    BY <1>5 DEF TdeOsiListWaitForDone, query_handle
  <2> QED BY <1>4, <2>1, <2>2 DEF Waiting
<1>6. CASE QueryAll(c)
  <2>1. c \in Waiters /\ pc[c] = "query_all" /\ allocated' = allocated
    BY <1>6 DEF QueryAll, MemInv, WaitInv
  <2>2. CASE \E s \in query_handle(hdl[c]) : CountIn(c, s, "wait_all")
    <3>1. PICK s \in allocated : CountIn(c, s, "wait_all")
      BY <2>2 DEF query_handle
    <3> QED BY <1>4, <2>1, <3>1 DEF Waiting
  <2>3. CASE job' = job
    BY <1>1, <1>2, <2>1, <2>3, HeldQuiet
  <2> QED BY <1>6, <2>2, <2>3 DEF QueryAll
<1>7. CASE WaitEnds(c) \/ WaitAllEnds(c) \/ WaitInterrupted(c)
  <2>1. CountOut(c) /\ pc[c] \in Waiting
    BY <1>7 DEF WaitEnds, WaitAllEnds, WaitInterrupted, Waiting
  <2>2. PICK s \in Slots : s = cur[c]
    BY <2>1 DEF MemInv, WaitInv, TypeOK
  <2>3. /\ \A t \in Slots :
             /\ job'[t].bSubmitted <=> job[t].bSubmitted
             /\ job'[t].enNotiType = job[t].enNotiType
             /\ t # s => job'[t].u8WaitForDoneCount = job[t].u8WaitForDoneCount
        /\ job'[s].u8WaitForDoneCount = 0 <=> WaitersOf(s)' = {}
        /\ allocated' = IF job[s].enNotiType = "BUTT" /\ WaitersOf(s)' = {}
                        THEN allocated \ {s} ELSE allocated
    BY <2>1, <2>2, CountOutFacts
  <2>4. /\ allocated' \subseteq allocated
        /\ s \in allocated' => \/ job'[s].u8WaitForDoneCount # 0
                               \/ job[s].enNotiType # "BUTT"
    BY <2>3
  <2> QED BY <1>1, <1>2, <1>3, <2>3, <2>4, HeldQuiet
<1> QED BY <1>5, <1>6, <1>7

(* The job that a submit marks is in its hands until it is in the list.    *)
LEMMA HeldMark ==
    ASSUME MemInv, HeldInv, NEW c \in Clients, NEW mode \in Modes,
           SubmitMark(c, mode)
    PROVE  HeldInv'
<1> USE DEF listVars, taskletVars
<1>1. PICK type \in {"WAKE", "COMPL"}, place \in {"fence", "list"} :
        /\ job' = [job EXCEPT ![cur[c]] =
                     [@ EXCEPT !.bSubmitted = TRUE, !.enNotiType = type,
                               !.callback = (mode = "callback")]]
        /\ noti' = [noti EXCEPT ![c] = type]
        /\ pc' = [pc EXCEPT ![c] = place]
        /\ type = "WAKE" => place = "list"
  BY DEF SubmitMark, Goto
<1>2. pc[c] = "mark" /\ UNCHANGED <<allocated, stList, tjob, tkind, cur>>
  BY DEF SubmitMark
<1>3. PICK s \in allocated : s = cur[c]
  BY <1>2 DEF MemInv, SubmitInv, PreList
<1>4. allocated \subseteq Slots
  BY DEF MemInv, TypeOK
<1>5. /\ pc'[c] = place /\ noti'[c] = type
      /\ \A d \in Clients : d # c => pc'[d] = pc[d] /\ noti'[d] = noti[d]
  BY <1>1 DEF MemInv, PlacesOK
<1>6. /\ job'[s].enNotiType = type
      /\ \A t \in Slots : t # s => job'[t] = job[t]
  <2>1. job \in [Slots -> JobType] /\ job[s] \in JobType
    BY <1>4, JobFacts DEF MemInv
  <2>2. PICK r : r = [job[s] EXCEPT !.bSubmitted = TRUE, !.enNotiType = type,
                                    !.callback = (mode = "callback")]
    OBVIOUS
  <2>3. r.enNotiType = type
    BY <2>1, <2>2 DEF JobType
  <2>4. job' = [job EXCEPT ![s] = r]
    BY <1>1, <1>3, <2>2
  <2> QED BY <1>4, <2>1, <2>3, <2>4
<1>7. Held(s)'
  <2>1. OnItsWay(s)'
    BY <1>2, <1>3, <1>5 DEF OnItsWay, PreList
  <2>2. type = "WAKE" => HasSubmit(s)'
    BY <1>1, <1>2, <1>3, <1>5 DEF HasSubmit
  <2> QED BY <1>6, <2>1, <2>2 DEF Held
<1>8. ASSUME NEW t \in allocated, t # s PROVE Held(t)'
  <2>1. Held(t) /\ job'[t] = job[t]
    BY <1>4, <1>6, <1>8 DEF HeldInv
  <2>2. OnItsWay(t) => OnItsWay(t)'
    BY <1>2, <1>3, <1>5, <1>8 DEF OnItsWay, Entries
  <2>3. \A d \in Clients : cur[d] = t =>
            UNCHANGED <<cur[d], pc[d], noti[d]>>
    BY <1>2, <1>3, <1>5, <1>8
  <2> QED BY <2>1, <2>2, <2>3, HeldKept
<1> QED BY <1>2, <1>7, <1>8 DEF HeldInv

(* A fence that is created leaves the job with its submit.                 *)
LEMMA HeldFence ==
    ASSUME MemInv, HeldInv, NEW c \in Clients, "fence" \notin Faults,
           TDE_FENCE_Create(c) \/ FenceStore(c)
    PROVE  HeldInv'
<1> USE DEF listVars, taskletVars
<1>1. /\ pc[c] \in {"fence", "fence_store"} /\ cur[c] \in Slots
      /\ allocated \subseteq Slots
  BY DEF TDE_FENCE_Create, FenceStore, MemInv, SubmitInv, PreList, TypeOK
<1>2. PICK s \in Slots : s = cur[c]
  BY <1>1
<1>3. /\ UNCHANGED <<allocated, stList, tjob, tkind, cur, noti>>
      /\ job' = job \/ job' = [job EXCEPT ![s].fence = tmp[c] + 1]
      /\ pc'[c] \in {"fence_store", "list"}
      /\ \A d \in Clients : d # c => pc'[d] = pc[d]
  BY <1>2 DEF TDE_FENCE_Create, FenceStore, FenceFails, Goto, MemInv, PlacesOK
<1>4. \A t \in Slots :
         /\ job'[t].bSubmitted <=> job[t].bSubmitted
         /\ job'[t].enNotiType = job[t].enNotiType
         /\ job'[t].u8WaitForDoneCount = job[t].u8WaitForDoneCount
  BY <1>3, JobFacts DEF MemInv, JobType
<1> SUFFICES ASSUME NEW t \in allocated PROVE Held(t)'
  BY <1>3 DEF HeldInv
<1>5. Held(t) /\ t \in Slots
  BY <1>1 DEF HeldInv
<1>6. OnItsWay(t) => OnItsWay(t)'
  BY <1>3 DEF OnItsWay, Entries, PreList
<1>7. \A d \in Clients : pc[d] \in {"blocked", "list"} =>
          UNCHANGED <<cur[d], pc[d], noti[d]>>
  BY <1>1, <1>3
<1> QED BY <1>4, <1>5, <1>6, <1>7, HeldKept

(* A submit hands its job to the list, and stays if it blocks.             *)
LEMMA HeldSubmit ==
    ASSUME MemInv, HeldInv, NEW c \in Clients, SubmitJob(c)
    PROVE  HeldInv'
<1> USE DEF memVars, taskletVars
<1>1. PICK s \in allocated : s = cur[c]
  BY DEF MemInv, SubmitInv, PreList, SubmitJob
<1>2. /\ pc[c] = "list" /\ allocated \subseteq Slots
      /\ stList' = list_add_tail(s, stList)
      /\ UNCHANGED <<allocated, job, tjob, tkind>>
  BY <1>1 DEF SubmitJob, MemInv, TypeOK
<1>3. /\ noti[c] = "WAKE" => pc'[c] = "blocked" /\ cur'[c] = s
      /\ \A d \in Clients : d # c =>
           UNCHANGED <<cur[d], pc[d], noti[d]>>
  <2>1. \/ /\ noti[c] = "WAKE" /\ pc' = [pc EXCEPT ![c] = "blocked"]
           /\ UNCHANGED <<cur, noti>>
        \/ /\ noti[c] # "WAKE" /\ pc' = [pc EXCEPT ![c] = "idle"]
           /\ cur' = [cur EXCEPT ![c] = NULL]
           /\ noti' = [noti EXCEPT ![c] = "NONE"]
    BY DEF SubmitJob, Goto
  <2>2. /\ pc \in [Clients -> {"idle", "blocked", "query_all", "reset"}
                                \cup PreList \cup Waiting]
        /\ cur \in [Clients -> Slots \cup {NULL}]
        /\ noti \in [Clients -> {"NONE", "WAKE", "COMPL"}]
    BY DEF MemInv, PlacesOK
  <2>3. noti[c] = "WAKE" => pc'[c] = "blocked" /\ cur'[c] = s
    BY <1>1, <2>1, <2>2
  <2>4. ASSUME NEW d \in Clients, d # c
        PROVE  UNCHANGED <<cur[d], pc[d], noti[d]>>
    BY <2>1, <2>2, <2>4
  <2> QED BY <2>3, <2>4
<1>4. Entries(stList)' = Entries(stList) \cup {s}
  <2>1. stList \in Seq(Slots) /\ LinkedOnce(stList)
    BY DEF MemInv, TypeOK, ListInv
  <2>2. s \in Slots
    BY <1>2
  <2>3. Entries(list_add_tail(s, stList)) = Entries(stList) \cup {s}
    BY <2>1, <2>2, ListAddTail
  <2>4. Entries(stList)' = Entries(stList')
    BY DEF Entries
  <2> QED BY <1>2, <2>3, <2>4
<1> SUFFICES ASSUME NEW t \in allocated PROVE Held(t)'
  BY <1>2 DEF HeldInv
<1>5. Held(t)
  BY DEF HeldInv
<1>6. OnItsWay(t) => OnItsWay(t)'
  BY <1>1, <1>2, <1>3, <1>4 DEF OnItsWay
<1>7. \A d \in Clients : cur[d] = t =>
        /\ pc[d] = "blocked" => cur'[d] = t /\ pc'[d] = "blocked"
        /\ pc[d] = "list" /\ noti[d] = "WAKE" =>
             /\ cur'[d] = t
             /\ pc'[d] = "blocked" \/ (pc'[d] = "list" /\ noti'[d] = "WAKE")
  BY <1>1, <1>2, <1>3
<1> QED BY <1>2, <1>5, <1>6, <1>7, HeldKept

(* The submit that blocked frees its job when it is done and nobody waits  *)
(* for it; else it leaves the job to the tasklet or to those who wait.     *)
LEMMA HeldWake ==
    ASSUME MemInv, HeldInv, NEW c \in Clients, SubmitWake(c)
    PROVE  HeldInv'
<1> USE DEF listVars, taskletVars
<1>1. PICK s \in Slots : s = cur[c]
  BY DEF MemInv, PlacesOK, SubmitWake
<1>2. /\ pc[c] = "blocked" /\ allocated \subseteq Slots
      /\ UNCHANGED <<stList, tjob, tkind>>
      /\ \/ /\ job[s].enNotiType = "BUTT" /\ job' = job
            /\ allocated' = IF job[s].u8WaitForDoneCount = 0
                            THEN allocated \ {s} ELSE allocated
         \/ /\ job[s].enNotiType # "BUTT" /\ allocated' = allocated
            /\ job' = [job EXCEPT ![s].enNotiType = "COMPL"]
  BY <1>1, DestroyFacts DEF SubmitWake, MemInv, TypeOK
<1>3. \A d \in Clients : d # c => UNCHANGED <<cur[d], pc[d], noti[d]>>
  BY DEF SubmitWake, Goto, MemInv, PlacesOK
<1>4. \A t \in Slots :
         /\ job'[t].bSubmitted <=> job[t].bSubmitted
         /\ job'[t].u8WaitForDoneCount = job[t].u8WaitForDoneCount
         /\ t # s => job'[t].enNotiType = job[t].enNotiType
         /\ t = s /\ job[s].enNotiType # "BUTT" =>
              job'[s].enNotiType = "COMPL"
  BY <1>2, JobFacts DEF MemInv, JobType
<1> SUFFICES ASSUME NEW t \in allocated' PROVE Held(t)'
  BY DEF HeldInv
<1>5. Held(t) /\ t \in Slots
  BY <1>2 DEF HeldInv
<1>6. OnItsWay(t) => OnItsWay(t)'
  BY <1>2, <1>3 DEF OnItsWay, Entries, PreList
<1>7. CASE t # s
  BY <1>1, <1>3, <1>4, <1>5, <1>6, <1>7, HeldKept
<1>8. CASE t = s
  BY <1>2, <1>4, <1>5, <1>6, <1>8 DEF Held
<1> QED BY <1>7, <1>8

(* A blocking job that the tasklet takes off the list is left to its       *)
(* submit; any other is in the tasklet's hands.                            *)
LEMMA HeldTake ==
    ASSUME MemInv, HeldInv, NodeCompTake
    PROVE  HeldInv'
<1> USE DEF clientVars
<1>1. PICK s \in Slots : s = Head(stList) /\ s \in Entries(stList)
  BY EntryFacts DEF NodeCompTake, MemInv
<1>2. /\ s \in allocated /\ allocated \subseteq Slots
      /\ job[s].enNotiType \in {"WAKE", "COMPL"}
  BY <1>1 DEF MemInv, ListInv, TypeOK
<1>3. /\ stList' = Tail(stList) /\ stList # <<>> /\ tjob = NULL
      /\ tjob' = s /\ tkind' = job[s].enNotiType
      /\ job' = IF job[s].enNotiType = "WAKE"
                THEN [job EXCEPT ![s].enNotiType = "BUTT"] ELSE job
      /\ UNCHANGED <<allocated, pc, cur, noti>>
  BY <1>1 DEF NodeCompTake, MemInv, TypeOK
<1>4. Entries(stList)' = Entries(stList) \ {s}
  <2>1. stList \in Seq(Slots) /\ LinkedOnce(stList)
    BY DEF MemInv, TypeOK, ListInv
  <2>2. Entries(Tail(stList)) = Entries(stList) \ {Head(stList)}
    BY <1>3, <2>1, ListTail
  <2>3. Entries(stList)' = Entries(stList')
    BY DEF Entries
  <2> QED BY <1>1, <1>3, <2>2, <2>3
<1>5. \A t \in Slots : t # s => job'[t] = job[t]
  BY <1>3, JobFacts DEF MemInv
<1>6. ASSUME job[s].enNotiType = "WAKE" PROVE Held(s)'
  <2>1. job'[s].enNotiType = "BUTT"
    BY <1>3, <1>6, JobFacts DEF MemInv, JobType
  <2>2. HasBlocked(s)
    BY <1>1, <1>2, <1>6
       DEF MemInv, HeldInv, Held, HasSubmit, HasBlocked, SubmitInv, PreList
  <2>3. HasBlocked(s)'
    BY <1>3, <2>2 DEF HasBlocked
  <2> QED BY <2>1, <2>3 DEF Held
<1>7. ASSUME job[s].enNotiType = "COMPL" PROVE Held(s)'
  <2>1. job' = job /\ OnItsWay(s)'
    BY <1>3, <1>7 DEF OnItsWay
  <2> QED BY <1>7, <2>1 DEF Held
<1>8. ASSUME NEW t \in allocated, t # s PROVE Held(t)'
  <2>1. Held(t) /\ job'[t] = job[t] /\ t # NULL
    BY <1>2, <1>5, <1>8, TdeAssumption DEF HeldInv
  <2>2. OnItsWay(t) => OnItsWay(t)'
    BY <1>3, <1>4, <1>8, <2>1 DEF OnItsWay
  <2> QED BY <1>3, <2>1, <2>2, HeldKept
<1> QED BY <1>2, <1>3, <1>6, <1>7, <1>8 DEF HeldInv

(* The tasklet leaves its job to those who wait for it, or frees it.       *)
LEMMA HeldNotify ==
    ASSUME MemInv, HeldInv, NodeCompNotify
    PROVE  HeldInv'
<1>1. PICK s \in Slots : s = tjob
  BY DEF NodeCompNotify, MemInv, TypeOK
<1>2. /\ tpc = "notify" /\ allocated \subseteq Slots
      /\ UNCHANGED <<stList, pc, cur, noti>>
  BY DEF NodeCompNotify, MemInv, TypeOK
<1>3. \/ /\ tkind # "COMPL" /\ job' = job /\ allocated' = allocated
      \/ /\ tkind = "COMPL" /\ allocated' = allocated
         /\ job[s].u8WaitForDoneCount # 0
         /\ job' = [job EXCEPT ![s].enNotiType = "BUTT"]
      \/ /\ tkind = "COMPL" /\ job' = job /\ allocated' = allocated \ {s}
  <2>1. DestroyJob(s) = allocated \ {s}
    BY DestroyFacts DEF MemInv
  <2> QED BY <1>1, <2>1 DEF NodeCompNotify
<1>4. \A t \in Slots :
         /\ job'[t].bSubmitted <=> job[t].bSubmitted
         /\ job'[t].u8WaitForDoneCount = job[t].u8WaitForDoneCount
         /\ t # s \/ tkind # "COMPL" => job'[t].enNotiType = job[t].enNotiType
  BY <1>3, JobFacts DEF MemInv, JobType
<1> SUFFICES ASSUME NEW t \in allocated' PROVE Held(t)'
  BY DEF HeldInv
<1>5. Held(t) /\ t \in Slots
  BY <1>2, <1>3 DEF HeldInv
<1>6. CASE t # s \/ tkind # "COMPL"
  <2>1. OnItsWay(t) => OnItsWay(t)'
    BY <1>1, <1>2, <1>6 DEF OnItsWay, Entries
  <2> QED BY <1>2, <1>4, <1>5, <1>6, <2>1, HeldKept
<1>7. CASE t = s /\ tkind = "COMPL"
  <2>1. /\ job[s].u8WaitForDoneCount # 0
        /\ job' = [job EXCEPT ![s].enNotiType = "BUTT"]
    BY <1>3, <1>7
  <2>2. job'[s].enNotiType = "BUTT" /\ job'[s].u8WaitForDoneCount # 0
    BY <2>1, JobFacts DEF MemInv, JobType
  <2> QED BY <1>7, <2>2 DEF Held
<1> QED BY <1>6, <1>7

(* A reset leaves a blocking job to its submit and a job that is waited    *)
(* for to those who wait, and frees any other.                             *)
LEMMA HeldReset ==
    ASSUME MemInv, HeldInv, NEW c \in Clients, TdeOsiListReset(c)
    PROVE  HeldInv'
<1> USE DEF taskletVars
<1>1. /\ pc[c] = "reset" /\ pc' = [pc EXCEPT ![c] = "idle"]
      /\ UNCHANGED <<tjob, tkind, cur, noti>>
      /\ allocated' \subseteq allocated
  BY DEF TdeOsiListReset, Goto
<1>2. /\ pc'[c] = "idle" /\ \A d \in Clients : d # c => pc'[d] = pc[d]
      /\ allocated \subseteq Slots
  BY <1>1 DEF MemInv, PlacesOK, TypeOK
<1> SUFFICES ASSUME NEW s \in allocated' PROVE Held(s)'
  BY DEF HeldInv
<1>3. Held(s) /\ s \in Slots
  BY <1>1, <1>2 DEF HeldInv
<1>4. CASE s \notin Entries(stList)
  <2>1. job'[s] = job[s]
    BY <1>3, <1>4 DEF TdeOsiListReset
  <2>2. OnItsWay(s) => OnItsWay(s)'
    BY <1>1, <1>2, <1>4 DEF OnItsWay, PreList
  <2>3. \A d \in Clients : pc[d] \in {"blocked", "list"} =>
            UNCHANGED <<cur[d], pc[d], noti[d]>>
    BY <1>1, <1>2
  <2> QED BY <1>3, <2>1, <2>2, <2>3, HeldKept
<1>5. CASE s \in Entries(stList)
  <2>1. job[s].enNotiType \in {"WAKE", "COMPL"}
    BY <1>5 DEF MemInv, ListInv
  <2>2. /\ job'[s] = [job[s] EXCEPT !.enNotiType = "BUTT"]
        /\ job[s].enNotiType = "COMPL" => job[s].u8WaitForDoneCount # 0
    BY <1>3, <1>5, <2>1 DEF TdeOsiListReset
  <2>3. /\ job'[s].enNotiType = "BUTT"
        /\ job'[s].u8WaitForDoneCount = job[s].u8WaitForDoneCount
    BY <1>3, <2>2, JobFacts DEF MemInv, JobType
  <2>4. ASSUME job[s].enNotiType = "WAKE" PROVE HasBlocked(s)'
    <3>1. HasBlocked(s)
      BY <1>3, <1>5, <2>4
         DEF MemInv, Held, HasSubmit, HasBlocked, SubmitInv, PreList
    <3> QED BY <1>1, <1>2, <3>1 DEF HasBlocked
  <2> QED BY <2>1, <2>2, <2>3, <2>4 DEF Held
<1> QED BY <1>4, <1>5

LEMMA NextHeld ==
    ASSUME ProperUse, "fence" \notin Faults, MemInv, HeldInv, [Next]_vars
    PROVE  HeldInv'
<1>1. ASSUME NEW c \in Clients, Client(c)
      PROVE  HeldInv'
  <2>1. ASSUME NEW h \in Handles,
               \/ TdeOsiSetNodeFinish(c, h) \/ TdeOsiListCancelJob(c, h)
               \/ SubmitTest(c, h) \/ TdeOsiListWaitForDone(c, h)
        PROVE  HeldInv'
    BY <2>1, HeldOther, HeldWait
  <2>2. CASE \/ TdeOsiListBeginJob(c) \/ TdeOsiListWaitAllDone(c)
             \/ SignalArrives(c) \/ ResetHardware(c)
    BY <2>2, HeldBegin, HeldOther, HeldWait
  <2> QED BY <1>1, <2>1, <2>2 DEF Client
<1>2. ASSUME NEW c \in Clients, Proceed(c)
      PROVE  HeldInv'
  BY <1>2, HeldMark, HeldFence, HeldSubmit, HeldWake, HeldWait, HeldReset
     DEF Proceed
<1>3. CASE HwComplete \/ tde_osr_isr \/ CoreDump \/ Tasklet
  BY <1>3, HeldOther, HeldTake, HeldNotify DEF Tasklet
<1>4. CASE UNCHANGED vars
  BY <1>4, HeldOther
<1> QED BY <1>1, <1>2, <1>3, <1>4 DEF Next

(* No job is lost: while TDE_FENCE_Create does not fail, every job that    *)
(* TdeOsiListSubmitJob has marked is in the list, in the hands of the      *)
(* tasklet, or has a thread that will release it, resets included.         *)
THEOREM SubmittedJobsAreOwned ==
    ASSUME ProperUse, "fence" \notin Faults
    PROVE  Spec => []SubmittedIsOwned
<1>1. Init => HeldInv
  BY DEF Init, HeldInv
<1>2. MemInv /\ HeldInv /\ [Next]_vars => HeldInv'
  BY NextHeld
<1>3. MemInv /\ HeldInv => SubmittedIsOwned
  <2> SUFFICES ASSUME MemInv, HeldInv, NEW s \in allocated, job[s].bSubmitted
               PROVE  \/ s \in Entries(stList) \/ s = tjob
                      \/ \E c \in Clients : cur[c] = s
    BY DEF SubmittedIsOwned
  <2>1. CASE job[s].enNotiType # "BUTT"
    BY <2>1 DEF HeldInv, Held, OnItsWay
  <2>2. CASE job[s].enNotiType = "BUTT" /\ job[s].u8WaitForDoneCount = 0
    BY <2>2 DEF HeldInv, Held, HasBlocked
  <2>3. CASE job[s].u8WaitForDoneCount # 0
    <3>1. WaitersOf(s) # {}
      BY <2>3, WaitersFacts DEF MemInv, CountInv
    <3> QED BY <3>1 DEF WaitersOf, Clients
  <2> QED BY <2>1, <2>2, <2>3
<1> QED BY <1>1, <1>2, <1>3, JobMemoryInvariance, PTL DEF Spec
-------------------------------------------------------------------------------
(* The engine is never reset: no thread resets it and no error interrupt   *)
(* does.                                                                   *)
NoReset == Resetters = {} /\ "dump" \notin Faults

(* The handle of the job at a place of the list, and whether it has run.   *)
HandleAt(i) == job[stList[i]].s32Handle
Ran(i) == HandleAt(i) \in executed

(* The links of the listed jobs: each leads to the next job or nowhere, and*)
(* to the next job if the hardware still has to go there.                  *)
LinkInv ==
    \A i \in 1..Len(stList) :
        /\ i = Len(stList) => next[HandleAt(i)] = 0
        /\ i < Len(stList) =>
             /\ next[HandleAt(i)] \in {0, HandleAt(i + 1)}
             /\ i \in ToCommit => next[HandleAt(i)] = HandleAt(i + 1)
             /\ i \notin ToCommit /\ i + 1 \in ToCommit => next[HandleAt(i)] = 0
             /\ i + 1 \notin ToCommit /\ ~Ran(i) =>
                  next[HandleAt(i)] = HandleAt(i + 1)

(* The list is what has run, what the hardware is running, and what it is  *)
(* still to be given, in this order.                                       *)
RunInv ==
    /\ pstJobToCommit # NULL =>
         ToCommit # {} /\ pstJobLast = stList[Len(stList)]
    /\ \A i \in ToCommit : ~Ran(i)
    /\ \A i, j \in 1..Len(stList) : i < j /\ Ran(j) => Ran(i)
    /\ hw = 0 => \A i \in 1..Len(stList) : i \notin ToCommit => Ran(i)
    /\ hw # 0 => \E k \in 1..Len(stList) :
         /\ HandleAt(k) = hw /\ k \notin ToCommit /\ ~Ran(k)
         /\ \A i \in 1..(k - 1) : Ran(i)

(* What TdeHalCurNode tells: the job that runs, or the last one that ran,  *)
(* which is in the list until the tasklet has settled on it.               *)
CurInv ==
    /\ hw # 0 => hw = curNode
    /\ hw = 0 /\ curNode # 0 => curNode \in executed
    /\ hw = 0 => \A i, k \in 1..Len(stList) :
                     HandleAt(k) = curNode /\ k < i => ~Ran(i)
    /\ curNode \notin Listed => curNode \in {0, pstJobFinished}

(* The tasklet takes jobs off the list up to one that is there and has run.*)
FinishInv ==
    tpc \in {"loop", "callback", "notify"} =>
        /\ tfin \in executed
        /\ tfin \in Listed \/ (tpc # "loop" /\ tdel = tfin)
        /\ tfin = curNode => pstJobFinished = curNode

(* A job that is not yet in the list has not run and has no link.          *)
FreshInv ==
    /\ executed \subseteq 1..Len(owner)
    /\ \A h \in Handles : next[h] # 0 => h \in Listed \cup executed
    /\ \A s \in allocated : ~job[s].bSubmitted =>
         job[s].s32Handle \notin executed
    /\ \A c \in Clients : pc[c] \in PreList => hdl[c] \notin executed

(* A wait for all waits for the last of the jobs it was called for.        *)
GoalInv ==
    /\ goal \in [Clients -> SUBSET Handles]
    /\ stList # <<>> => s32HandleLast = HandleAt(Len(stList))
    /\ \A c \in Clients :
         /\ goal[c] # {} => pc[c] \in {"query_all", "wait_all", "interrupted"}
         /\ \A h \in goal[c] : h \in executed \/
              \E i, j \in 1..Len(stList) :
                 i <= j /\ HandleAt(i) = h /\ HandleAt(j) = hdl[c]

ChainInv ==
    LinkInv /\ RunInv /\ CurInv /\ FinishInv /\ FreshInv /\ GoalInv

(* The jobs of the list have handles of their own.                         *)
LEMMA PlaceFacts ==
    ASSUME MemInv
    PROVE  /\ Len(stList) \in Nat
           /\ Listed = {HandleAt(i) : i \in 1..Len(stList)}
           /\ Listed \subseteq Handles
           /\ \A i \in 1..Len(stList) :
                /\ stList[i] \in allocated /\ stList[i] \in Slots
                /\ stList[i] \in Entries(stList)
                /\ HandleAt(i) \in 1..Len(owner) /\ HandleAt(i) \in Handles
                /\ HandleAt(i) \in Listed /\ HandleAt(i) # 0
                /\ \A s \in Slots :
                     job[s].s32Handle = HandleAt(i) => s = stList[i]
           /\ \A i, j \in 1..Len(stList) : HandleAt(i) = HandleAt(j) => i = j
<1>1. stList \in Seq(Slots) /\ Len(stList) \in Nat
  BY DEF MemInv, TypeOK
<1>2. /\ Entries(stList) \subseteq allocated /\ allocated \subseteq Slots
      /\ LinkedOnce(stList)
  BY DEF MemInv, TypeOK, ListInv
<1>3. \A i \in 1..Len(stList) :
         /\ stList[i] \in allocated /\ stList[i] \in Slots
         /\ stList[i] \in Entries(stList)
  BY <1>1, <1>2 DEF Entries
<1>4. \A s \in allocated : /\ job[s].s32Handle \in 1..Len(owner)
                           /\ job[s].s32Handle \in Handles
  BY <1>2, JobFacts, TdeAssumption DEF MemInv, HandleInv, Handles
<1>5. \A s, t \in Slots :
         job[s].s32Handle = job[t].s32Handle /\ job[s].s32Handle # 0 => s = t
  BY DEF MemInv, HandleInv
<1>6. Listed = {HandleAt(i) : i \in 1..Len(stList)}
  BY DEF Listed, Entries, HandleAt
<1>7. \A i \in 1..Len(stList) :
         HandleAt(i) \in 1..Len(owner) /\ HandleAt(i) \in Handles
  BY <1>3, <1>4 DEF HandleAt
<1>8. \A i \in 1..Len(stList) : HandleAt(i) # 0
  BY <1>7 DEF Handles
<1>9. \A i \in 1..Len(stList) : \A s \in Slots :
         job[s].s32Handle = HandleAt(i) => s = stList[i]
  BY <1>3, <1>5, <1>8 DEF HandleAt
<1>10. \A i, j \in 1..Len(stList) : HandleAt(i) = HandleAt(j) => i = j
  BY <1>2, <1>3, <1>9 DEF LinkedOnce, HandleAt
<1> QED BY <1>1, <1>3, <1>6, <1>7, <1>8, <1>9, <1>10

(* What waits to be given to the hardware is the end of the list, from     *)
(* pstJobToCommit on.                                                      *)
LEMMA CommitFacts ==
    ASSUME MemInv
    PROVE  /\ ToCommit \subseteq 1..Len(stList)
           /\ \A i \in ToCommit : \A j \in 1..Len(stList) :
                i <= j => j \in ToCommit
           /\ pstJobToCommit = NULL => ToCommit = {}
           /\ ToCommit # {} => \E k \in ToCommit :
                /\ stList[k] = pstJobToCommit
                /\ \A i \in ToCommit : k <= i
<1>1. Len(stList) \in Nat /\ \A i \in 1..Len(stList) : stList[i] \in Slots
  BY PlaceFacts
<1>2. /\ ToCommit \subseteq 1..Len(stList)
      /\ \A i \in ToCommit : \A j \in 1..Len(stList) : i <= j => j \in ToCommit
  BY <1>1 DEF ToCommit
<1>3. pstJobToCommit = NULL => ToCommit = {}
  BY <1>1, TdeAssumption DEF ToCommit
<1>4. ASSUME NEW l \in ToCommit
      PROVE  \E k \in ToCommit : /\ stList[k] = pstJobToCommit
                                 /\ \A i \in ToCommit : k <= i
  <2>1. PICK k \in 1..l : stList[k] = pstJobToCommit
    BY DEF ToCommit
  <2>2. k \in 1..Len(stList) /\ k \in ToCommit
    BY <1>1, <2>1 DEF ToCommit
  <2>3. ASSUME NEW i \in ToCommit PROVE k <= i
    <3>1. PICK n \in 1..i : stList[n] = pstJobToCommit
      BY DEF ToCommit
    <3>2. n \in 1..Len(stList)
      BY <1>1, <3>1 DEF ToCommit
    <3>3. n = k
      BY <2>1, <2>2, <3>1, <3>2 DEF MemInv, ListInv, LinkedOnce
    <3> QED BY <1>2, <3>1, <3>3
  <2> QED BY <2>1, <2>2, <2>3
<1> QED BY <1>2, <1>3, <1>4

(* A step that leaves the list and the handles of its jobs alone.          *)
LEMMA SameList ==
    ASSUME MemInv, stList' = stList,
           \A s \in Entries(stList) : job'[s].s32Handle = job[s].s32Handle
    PROVE  /\ Len(stList)' = Len(stList)
           /\ \A i \in 1..Len(stList) : HandleAt(i)' = HandleAt(i)
           /\ Listed' = Listed
           /\ pstJobToCommit' = pstJobToCommit => ToCommit' = ToCommit
<1>1. \A i \in 1..Len(stList) : HandleAt(i)' = HandleAt(i)
  BY PlaceFacts DEF HandleAt
<1>2. Listed' = Listed
  BY DEF Listed, Entries
<1> QED BY <1>1, <1>2 DEF ToCommit

(* The steps that leave the chain and the hardware alone.                  *)
LEMMA ChainQuiet ==
    ASSUME MemInv, ChainInv,
           \A s \in Entries(stList) : job'[s].s32Handle = job[s].s32Handle,
           UNCHANGED <<stList, pstJobToCommit, pstJobFinished, pstJobLast, next,
                       hw, curNode, executed>>
    PROVE  LinkInv' /\ RunInv' /\ CurInv'
<1>1. /\ Len(stList)' = Len(stList) /\ Len(stList) \in Nat
      /\ \A i \in 1..Len(stList) : HandleAt(i)' = HandleAt(i)
      /\ Listed' = Listed /\ ToCommit' = ToCommit
  BY SameList, PlaceFacts
<1>2. \A i \in 1..Len(stList) : Ran(i)' <=> Ran(i)
  BY <1>1 DEF Ran
<1>3. ToCommit \subseteq 1..Len(stList)
  BY CommitFacts
<1>4. LinkInv'
  BY <1>1, <1>2 DEF ChainInv, LinkInv
<1>5. RunInv'
  <2>1. RunInv
    BY DEF ChainInv
  <2>2. hw' # 0 => \E k \in 1..Len(stList) :
          /\ HandleAt(k)' = hw' /\ k \notin ToCommit' /\ ~Ran(k)'
          /\ \A i \in 1..(k - 1) : Ran(i)'
    <3> SUFFICES ASSUME hw' # 0
                 PROVE  \E k \in 1..Len(stList) :
                          /\ HandleAt(k)' = hw' /\ k \notin ToCommit' /\ ~Ran(k)'
                          /\ \A i \in 1..(k - 1) : Ran(i)'
      OBVIOUS
    <3>1. PICK k \in 1..Len(stList) :
            /\ HandleAt(k) = hw /\ k \notin ToCommit /\ ~Ran(k)
            /\ \A i \in 1..(k - 1) : Ran(i)
      BY <2>1 DEF RunInv
    <3>2. \A i \in 1..(k - 1) : i \in 1..Len(stList)
      BY <1>1
    <3> WITNESS k \in 1..Len(stList)
    <3> QED BY <1>1, <1>2, <3>1, <3>2
  <2> QED BY <1>1, <1>2, <1>3, <2>1, <2>2 DEF RunInv
<1>6. CurInv'
  BY <1>1, <1>2 DEF ChainInv, CurInv
<1> QED BY <1>4, <1>5, <1>6

(* The same for the steps of threads: what they begin is new to the        *)
(* hardware, and only a wait for all has jobs that it was called for.      *)
LEMMA ChainStep ==
    ASSUME MemInv, ChainInv,
           \A s \in Entries(stList) : job'[s].s32Handle = job[s].s32Handle,
           UNCHANGED <<stList, s32HandleLast, pstJobToCommit, pstJobFinished,
                       pstJobLast, next, hw, curNode, executed, tfin, tdel>>,
           tpc' \in {"loop", "callback", "notify"} =>
               tpc \in {"loop", "callback", "notify"} /\ (tpc = "loop" \/ tpc' # "loop"),
           1..Len(owner) \subseteq 1..Len(owner)',
           \A s \in allocated' : ~job'[s].bSubmitted =>
               \/ job'[s].s32Handle \notin 1..Len(owner)
               \/ /\ s \in allocated /\ ~job[s].bSubmitted
                  /\ job'[s].s32Handle = job[s].s32Handle,
           \A d \in Clients : pc'[d] \in PreList => hdl'[d] \notin executed,
           goal' \in [Clients -> SUBSET Handles],
           \A d \in Clients : goal'[d] # {} =>
               /\ pc'[d] \in {"query_all", "wait_all", "interrupted"}
               /\ \/ goal'[d] = goal[d] /\ hdl'[d] = hdl[d]
                  \/ goal'[d] = Listed /\ hdl'[d] = s32HandleLast
    PROVE  ChainInv'
<1>1. LinkInv' /\ RunInv' /\ CurInv'
  BY ChainQuiet
<1>2. /\ Len(stList)' = Len(stList) /\ Len(stList) \in Nat
      /\ \A i \in 1..Len(stList) : HandleAt(i)' = HandleAt(i)
      /\ Listed' = Listed
  BY SameList, PlaceFacts
<1>3. FreshInv'
  <2>1. FreshInv
    BY DEF ChainInv
  <2>2. \A s \in allocated' : ~job'[s].bSubmitted => job'[s].s32Handle \notin executed
    BY <2>1 DEF FreshInv
  <2> QED BY <1>2, <2>1, <2>2 DEF FreshInv
<1>4. GoalInv'
  <2>1. GoalInv
    BY DEF ChainInv
  <2>2. stList' # <<>> => s32HandleLast' = HandleAt(Len(stList))'
    <3> SUFFICES ASSUME stList # <<>> PROVE s32HandleLast = HandleAt(Len(stList))'
      BY <1>2
    <3>1. Len(stList) \in 1..Len(stList)
      BY EntryFacts DEF MemInv
    <3> QED BY <1>2, <2>1, <3>1 DEF GoalInv, HandleAt
  <2>3. ASSUME NEW d \in Clients, NEW h \in goal'[d]
        PROVE  h \in executed \/
                 \E i, j \in 1..Len(stList) :
                    i <= j /\ HandleAt(i)' = h /\ HandleAt(j)' = hdl'[d]
    <3>1. CASE goal'[d] = goal[d] /\ hdl'[d] = hdl[d]
      BY <1>2, <2>1, <2>3, <3>1 DEF GoalInv
    <3>2. CASE goal'[d] = Listed /\ hdl'[d] = s32HandleLast
      <4>1. PICK i \in 1..Len(stList) : h = HandleAt(i)
        BY <2>3, <3>2, PlaceFacts
      <4>2. Len(stList) \in 1..Len(stList) /\ i <= Len(stList) /\ stList # <<>>
        BY <1>2, <4>1
      <4>3. HandleAt(Len(stList)) = s32HandleLast
        BY <2>1, <4>2 DEF GoalInv
      <4> QED BY <1>2, <3>2, <4>1, <4>2, <4>3
    <3> QED BY <2>3, <3>1, <3>2
  <2> QED BY <1>2, <2>2, <2>3 DEF GoalInv
<1>5. FinishInv'
  BY <1>2 DEF ChainInv, FinishInv
<1> QED BY <1>1, <1>3, <1>4, <1>5 DEF ChainInv

(* The hardware completes a job: the link of the job that runs leads to    *)
(* the next one that was started with it, or ends in front of pstJobToCommit. *)
LEMMA ChainHw ==
    ASSUME MemInv, ChainInv, HwComplete
    PROVE  ChainInv'
<1> USE DEF memVars, listVars, taskletVars, clientVars
<1>1. /\ hw # 0 /\ executed' = executed \cup {hw} /\ hw' = next[hw]
      /\ curNode' = IF next[hw] = 0 THEN curNode ELSE next[hw]
      /\ UNCHANGED <<next, allocated, job, owner, stList, s32HandleLast,
                     pstJobToCommit, pstJobFinished, pstJobLast, tpc, tfin,
                     tdel, pc, hdl, goal>>
  BY DEF HwComplete
<1>2. PICK k \in 1..Len(stList) :
        /\ HandleAt(k) = hw /\ k \notin ToCommit /\ ~Ran(k)
        /\ \A i \in 1..(k - 1) : Ran(i)
  BY <1>1 DEF ChainInv, RunInv
<1>3. /\ Len(stList)' = Len(stList) /\ Len(stList) \in Nat
      /\ \A i \in 1..Len(stList) : HandleAt(i)' = HandleAt(i)
      /\ Listed' = Listed /\ ToCommit' = ToCommit
  BY <1>1, SameList, PlaceFacts
<1>4. \A i \in 1..Len(stList) : Ran(i)' <=> (Ran(i) \/ i = k)
  <2>1. \A i \in 1..Len(stList) : HandleAt(i) = hw <=> i = k
    BY <1>2, PlaceFacts
  <2> QED BY <1>1, <1>3, <2>1 DEF Ran
<1>5. \A i \in 1..Len(stList) : k < i => ~Ran(i)
  BY <1>2 DEF ChainInv, RunInv
<1>6. \/ /\ next[hw] = 0
         /\ \A i \in 1..Len(stList) : k < i => i \in ToCommit
      \/ /\ k + 1 \in 1..Len(stList) /\ k + 1 \notin ToCommit
         /\ next[hw] = HandleAt(k + 1) /\ next[hw] # 0
  <2>1. CASE k = Len(stList)
    BY <1>2, <1>3, <2>1 DEF ChainInv, LinkInv
  <2>2. CASE k < Len(stList) /\ k + 1 \in ToCommit
    <3>1. next[hw] = 0
      BY <1>2, <2>2 DEF ChainInv, LinkInv
    <3>2. \A i \in 1..Len(stList) : k < i => k + 1 <= i
      BY <1>3
    <3> QED BY <2>2, <3>1, <3>2, CommitFacts
  <2>3. CASE k < Len(stList) /\ k + 1 \notin ToCommit
    <3>1. next[hw] = HandleAt(k + 1) /\ k + 1 \in 1..Len(stList)
      BY <1>2, <1>3, <2>3 DEF ChainInv, LinkInv
    <3> QED BY <2>3, <3>1, PlaceFacts
  <2> QED BY <1>2, <1>3, <2>1, <2>2, <2>3
<1>7. LinkInv'
  BY <1>1, <1>3, <1>4 DEF ChainInv, LinkInv
<1>8. RunInv'
  <2>1. /\ RunInv /\ ToCommit \subseteq 1..Len(stList)
    BY CommitFacts DEF ChainInv
  <2>2. \A i \in ToCommit' : ~Ran(i)'
    BY <1>2, <1>3, <1>4, <2>1 DEF RunInv
  <2>3. \A i, j \in 1..Len(stList) : i < j /\ Ran(j)' => Ran(i)'
    BY <1>2, <1>3, <1>4, <2>1 DEF RunInv
  <2>4. hw' = 0 => \A i \in 1..Len(stList) : i \notin ToCommit => Ran(i)'
    <3> SUFFICES ASSUME hw' = 0, NEW i \in 1..Len(stList), i \notin ToCommit
                 PROVE  Ran(i)'
      OBVIOUS
    <3>1. ~(k < i)
      BY <1>1, <1>6
    <3> QED BY <1>2, <1>3, <1>4, <3>1
  <2>5. hw' # 0 => \E n \in 1..Len(stList) :
          /\ HandleAt(n)' = hw' /\ n \notin ToCommit' /\ ~Ran(n)'
          /\ \A i \in 1..(n - 1) : Ran(i)'
    <3> SUFFICES ASSUME hw' # 0
                 PROVE  \E n \in 1..Len(stList) :
                          /\ HandleAt(n)' = hw' /\ n \notin ToCommit' /\ ~Ran(n)'
                          /\ \A i \in 1..(n - 1) : Ran(i)'
      OBVIOUS
    <3>1. /\ k + 1 \in 1..Len(stList) /\ k + 1 \notin ToCommit
          /\ hw' = HandleAt(k + 1)
      BY <1>1, <1>6
    <3>2. ~Ran(k + 1)'
      BY <1>3, <1>4, <1>5, <3>1
    <3>3. \A i \in 1..((k + 1) - 1) : Ran(i)'
      BY <1>2, <1>3, <1>4
    <3> QED BY <1>3, <3>1, <3>2, <3>3
  <2> QED BY <1>1, <1>3, <2>1, <2>2, <2>3, <2>4, <2>5 DEF RunInv
<1>9. CurInv'
  <2>1. hw = curNode /\ hw \in Listed
    BY <1>1, <1>2, PlaceFacts DEF ChainInv, CurInv
  <2>2. CASE next[hw] = 0
    <3>1. hw' = 0 /\ curNode' = hw /\ curNode' \in executed' /\ curNode' \in Listed'
      BY <1>1, <1>3, <2>1, <2>2
    <3>2. \A i, j \in 1..Len(stList) : HandleAt(j)' = curNode' /\ j < i => ~Ran(i)'
      <4>1. \A j \in 1..Len(stList) : HandleAt(j)' = curNode' => j = k
        BY <1>2, <1>3, <3>1, PlaceFacts
      <4> QED BY <1>3, <1>4, <1>5, <4>1
    <3> QED BY <1>3, <3>1, <3>2 DEF CurInv
  <2>3. CASE next[hw] # 0
    BY <1>1, <1>3, <1>6, <2>3, PlaceFacts DEF CurInv
  <2> QED BY <2>2, <2>3
<1>10. FinishInv'
  <2>1. FinishInv
    BY DEF ChainInv
  <2>2. next[hw] # 0 => next[hw] \notin executed
    BY <1>3, <1>5, <1>6 DEF Ran
  <2> QED BY <1>1, <1>3, <2>1, <2>2 DEF FinishInv
<1>11. FreshInv'
  <2>1. FreshInv /\ hw \in 1..Len(owner)
    BY <1>2, PlaceFacts DEF ChainInv
  <2>2. \A s \in allocated : ~job[s].bSubmitted => job[s].s32Handle # hw
    BY <1>2, PlaceFacts DEF MemInv, TypeOK, ListInv
  <2>3. ASSUME NEW c \in Clients, pc[c] \in PreList PROVE hdl[c] # hw
    <3>1. /\ cur[c] \in Slots /\ hdl[c] = job[cur[c]].s32Handle
          /\ cur[c] \notin Entries(stList)
      BY <2>3 DEF MemInv, TypeOK, SubmitInv
    <3> QED BY <1>2, <3>1, PlaceFacts
  <2> QED BY <1>1, <1>3, <2>1, <2>2, <2>3 DEF FreshInv
<1>12. GoalInv'
  <2>1. GoalInv
    BY DEF ChainInv
  <2>2. stList # <<>> => HandleAt(Len(stList))' = HandleAt(Len(stList))
    BY <1>1 DEF HandleAt
  <2> QED BY <1>1, <1>3, <2>1, <2>2 DEF GoalInv
<1> QED BY <1>7, <1>8, <1>9, <1>10, <1>11, <1>12 DEF ChainInv

(* TdeOsiListNodeComp settles on a job that is in the list and has run.    *)
LEMMA LastFinishedFacts ==
    ASSUME MemInv, ChainInv, curNode # 0, curNode # pstJobFinished,
           LastFinished # 0
    PROVE  /\ LastFinished \in Listed \cap executed
           /\ hw # 0 => LastFinished # curNode
<1>1. curNode \in Listed
  BY DEF ChainInv, CurInv
<1>2. CASE hw = 0
  BY <1>1, <1>2 DEF LastFinished, ChainInv, CurInv
<1>3. CASE hw # 0
  <2>1. PICK k \in 1..Len(stList) :
          /\ HandleAt(k) = hw /\ k \notin ToCommit /\ ~Ran(k)
          /\ \A i \in 1..(k - 1) : Ran(i)
    BY <1>3 DEF ChainInv, RunInv
  <2>2. curNode = HandleAt(k) /\ k \in Nat /\ Len(stList) \in Nat
    BY <1>3, <2>1, PlaceFacts DEF ChainInv, CurInv
  <2>3. query_handle(curNode) # {}
    BY <2>2, PlaceFacts DEF query_handle, HandleAt
  <2>4. Before(curNode) = 1..(k - 1)
    <3>1. Before(curNode) = {i \in 1..Len(stList) :
                               \A l \in 1..i : HandleAt(l) # HandleAt(k)}
      BY <2>2 DEF Before, HandleAt
    <3>2. ASSUME NEW i \in 1..Len(stList)
          PROVE  (\A l \in 1..i : HandleAt(l) # HandleAt(k)) <=> i <= k - 1
      <4>1. \A l \in 1..i : HandleAt(l) = HandleAt(k) => l = k
        BY <2>2, PlaceFacts
      <4> QED BY <2>2, <4>1
    <3> QED BY <2>2, <3>1, <3>2
  <2>5. Cardinality(1..(k - 1)) = k - 1
    <3>1. PICK n \in Nat : n = k - 1
      BY <2>2
    <3>2. Cardinality(1..n) = IF 1 > n THEN 0 ELSE n - 1 + 1
      BY FS_Interval
    <3>3. Cardinality(1..n) = n
      BY <3>2
    <3> QED BY <3>1, <3>3
  <2>6. LastFinished = IF Before(curNode) = {} THEN 0
                       ELSE job[stList[Cardinality(Before(curNode))]].s32Handle
    BY <1>1, <1>3, <2>3 DEF LastFinished
  <2>7. k - 1 \in 1..(k - 1) /\ LastFinished = HandleAt(k - 1)
    <3>1. 1..(k - 1) # {}
      BY <2>4, <2>6
    <3> QED BY <2>2, <2>4, <2>5, <2>6, <3>1 DEF HandleAt
  <2>8. Ran(k - 1) /\ k - 1 \in 1..Len(stList) /\ k # k - 1
    BY <2>1, <2>2, <2>7
  <2> QED BY <2>1, <2>2, <2>7, <2>8, PlaceFacts DEF Ran
<1> QED BY <1>2, <1>3

LEMMA ChainComp ==
    ASSUME MemInv, ChainInv, TdeOsiListNodeComp
    PROVE  ChainInv'
<1> USE DEF memVars, hwVars, clientVars
<1>1. /\ tpc = "comp"
      /\ UNCHANGED <<next, hw, curNode, executed, allocated, job, owner, stList,
                     s32HandleLast, pstJobToCommit, pstJobLast, tdel, pc, hdl,
                     goal>>
      /\ tpc' \in {"idle", "loop"}
  BY DEF TdeOsiListNodeComp
<1>2. /\ Len(stList)' = Len(stList) /\ Len(stList) \in Nat
      /\ \A i \in 1..Len(stList) : HandleAt(i)' = HandleAt(i)
      /\ Listed' = Listed /\ ToCommit' = ToCommit
  BY <1>1, SameList, PlaceFacts
<1>3. \A i \in 1..Len(stList) : Ran(i)' <=> Ran(i)
  BY <1>1, <1>2 DEF Ran
<1>4. LinkInv' /\ FreshInv'
  BY <1>1, <1>2, <1>3 DEF ChainInv, LinkInv, FreshInv
<1>5. RunInv'
  BY <1>1 DEF ChainInv, RunInv, Ran, HandleAt, ToCommit
<1>6. GoalInv'
  BY <1>1 DEF ChainInv, GoalInv, HandleAt
<1>7. CurInv'
  <2>1. CurInv /\ RunInv
    BY DEF ChainInv
  <2>2. hw # 0 => curNode \in Listed
    BY <2>1, PlaceFacts DEF CurInv, RunInv
  <2>3. pstJobFinished' = pstJobFinished \/ hw # 0 \/ pstJobFinished' = curNode
    BY DEF TdeOsiListNodeComp
  <2> QED BY <1>1, <1>2, <1>3, <2>1, <2>2, <2>3 DEF CurInv
<1>8. FinishInv'
  <2> SUFFICES ASSUME tpc' = "loop"
               PROVE  /\ tfin' \in Listed \cap executed
                      /\ tfin' = curNode => pstJobFinished' = curNode
    BY <1>1, <1>2 DEF FinishInv
  <2>1. /\ curNode # 0 /\ curNode # pstJobFinished /\ LastFinished # 0
        /\ tfin' = LastFinished
        /\ pstJobFinished' = IF hw = 0 THEN curNode ELSE 0
    BY DEF TdeOsiListNodeComp
  <2> QED BY <2>1, LastFinishedFacts
<1> QED BY <1>4, <1>5, <1>6, <1>7, <1>8 DEF ChainInv

(* The tasklet takes the first job off the list: it has run, and the rest  *)
(* of the list moves up by one place.                                      *)
LEMMA ChainTake ==
    ASSUME MemInv, ChainInv, NodeCompTake
    PROVE  ChainInv'
<1> USE DEF hwVars, clientVars
<1>1. /\ tpc = "loop" /\ stList # <<>> /\ stList' = Tail(stList)
      /\ tpc' \in {"callback", "notify"} /\ tdel' = job[Head(stList)].s32Handle
      /\ s32HandleLast' = LastAfter(Head(stList))
      /\ UNCHANGED <<next, hw, curNode, executed, allocated, owner,
                     pstJobToCommit, pstJobFinished, pstJobLast, tfin, pc, hdl,
                     goal>>
  BY DEF NodeCompTake
<1>2. \A t \in Slots : /\ job'[t].s32Handle = job[t].s32Handle
                       /\ job'[t].bSubmitted <=> job[t].bSubmitted
  <2>1. \/ job' = job
        \/ job' = [job EXCEPT ![Head(stList)].enNotiType = "BUTT"]
    BY DEF NodeCompTake
  <2> QED BY <2>1, JobFacts DEF MemInv, JobType
<1>3. PICK n \in Nat :
        /\ Len(stList) = n + 1 /\ Len(stList') = n /\ Len(stList)' = n
        /\ \A i \in 1..n : stList'[i] = stList[i + 1]
        /\ Head(stList) = stList[1]
  <2>1. stList \in Seq(Slots) /\ LinkedOnce(stList)
    BY DEF MemInv, TypeOK, ListInv
  <2>2. /\ Len(Tail(stList)) = Len(stList) - 1
        /\ \A j \in 1..(Len(stList) - 1) : Tail(stList)[j] = stList[j + 1]
        /\ Head(stList) = stList[1]
    BY <1>1, <2>1, ListTail
  <2>3. Len(stList) \in Nat \ {0}
    BY <1>1, EntryFacts DEF MemInv
  <2>4. PICK n \in Nat : n = Len(stList) - 1
    BY <2>3
  <2>5. Len(stList) = n + 1 /\ Len(stList)' = Len(Tail(stList))
    BY <1>1, <2>3, <2>4
  <2> QED BY <1>1, <2>2, <2>4, <2>5
<1>4. \A i \in 1..n : i + 1 \in 1..(n + 1) /\ HandleAt(i)' = HandleAt(i + 1)
  BY <1>2, <1>3, PlaceFacts DEF HandleAt
<1>5. \A i \in 1..n : Ran(i)' <=> Ran(i + 1)
  BY <1>1, <1>4 DEF Ran
<1>6. /\ tfin \in executed /\ Ran(1) /\ tdel' = HandleAt(1)
      /\ tfin = curNode => pstJobFinished = curNode
      /\ \E m \in 1..(n + 1) : tfin = HandleAt(m)
  <2>1. /\ tfin \in executed /\ tfin \in Listed
        /\ tfin = curNode => pstJobFinished = curNode
    BY <1>1 DEF ChainInv, FinishInv
  <2>2. PICK m \in 1..(n + 1) : tfin = HandleAt(m)
    BY <1>3, <2>1, PlaceFacts
  <2>3. Ran(1)
    <3>1. Ran(m) /\ 1 \in 1..(n + 1) /\ (m = 1 \/ 1 < m)
      BY <2>1, <2>2 DEF Ran
    <3> QED BY <1>3, <3>1 DEF ChainInv, RunInv
  <2> QED BY <1>1, <1>3, <2>1, <2>2, <2>3 DEF HandleAt
<1>7. 1 \notin ToCommit
  BY <1>6 DEF ChainInv, RunInv
<1>8. /\ \A i \in 1..n : i \in ToCommit' <=> i + 1 \in ToCommit
      /\ ToCommit' \subseteq 1..n /\ ToCommit \subseteq 2..(n + 1)
  <2>1. stList[1] # pstJobToCommit
    BY <1>3, <1>7 DEF ToCommit
  <2>2. ASSUME NEW i \in 1..n PROVE i \in ToCommit' <=> i + 1 \in ToCommit
    <3>1. i \in ToCommit' <=> \E k \in 1..i : stList[k + 1] = pstJobToCommit
      BY <1>1, <1>3 DEF ToCommit
    <3>2. i + 1 \in ToCommit <=> \E k \in 1..(i + 1) : stList[k] = pstJobToCommit
      BY <1>3 DEF ToCommit
    <3>3. ASSUME NEW k \in 1..(i + 1), stList[k] = pstJobToCommit
          PROVE  \E l \in 1..i : stList[l + 1] = pstJobToCommit
      <4>1. k # 1
        BY <2>1, <3>3
      <4>2. k - 1 \in 1..i /\ (k - 1) + 1 = k
        BY <4>1
      <4> QED BY <3>3, <4>2
    <3>4. ASSUME NEW k \in 1..i, stList[k + 1] = pstJobToCommit
          PROVE  \E l \in 1..(i + 1) : stList[l] = pstJobToCommit
      <4>1. k + 1 \in 1..(i + 1)
        OBVIOUS
      <4> QED BY <3>4, <4>1
    <3> QED BY <3>1, <3>2, <3>3, <3>4
  <2>3. ToCommit' \subseteq 1..n
    BY <1>3 DEF ToCommit
  <2>4. ToCommit \subseteq 2..(n + 1)
    BY <1>3, <1>7, CommitFacts
  <2> QED BY <2>2, <2>3, <2>4
<1>9. /\ Listed' = {HandleAt(i)' : i \in 1..n}
      /\ \A i \in 2..(n + 1) : HandleAt(i) \in Listed'
  <2>1. Listed' = {HandleAt(i)' : i \in 1..n}
    BY <1>3 DEF Listed, Entries, HandleAt
  <2>2. ASSUME NEW i \in 2..(n + 1) PROVE HandleAt(i) \in Listed'
    <3>1. i - 1 \in 1..n /\ (i - 1) + 1 = i
      OBVIOUS
    <3> QED BY <1>4, <2>1, <3>1
  <2> QED BY <2>1, <2>2
<1>10. LinkInv'
  <2>1. \A i \in 1..n : i < n => i + 1 \in 1..n /\ HandleAt(i + 1)' = HandleAt((i + 1) + 1)
    BY <1>4
  <2>2. LinkInv
    BY DEF ChainInv
  <2> SUFFICES ASSUME NEW i \in 1..n
               PROVE  /\ i = n => next[HandleAt(i + 1)] = 0
                      /\ i < n =>
                           /\ next[HandleAt(i + 1)] \in {0, HandleAt((i + 1) + 1)}
                           /\ i + 1 \in ToCommit =>
                                next[HandleAt(i + 1)] = HandleAt((i + 1) + 1)
                           /\ i + 1 \notin ToCommit /\ (i + 1) + 1 \in ToCommit =>
                                next[HandleAt(i + 1)] = 0
                           /\ (i + 1) + 1 \notin ToCommit /\ ~Ran(i + 1) =>
                                next[HandleAt(i + 1)] = HandleAt((i + 1) + 1)
    BY <1>1, <1>3, <1>4, <1>5, <1>8, <2>1 DEF LinkInv
  <2>3. i + 1 \in 1..(n + 1) /\ (i = n <=> i + 1 = n + 1) /\ (i < n <=> i + 1 < n + 1)
    OBVIOUS
  <2> QED BY <1>3, <2>2, <2>3 DEF LinkInv
<1>11. RunInv'
  <2>1. RunInv
    BY DEF ChainInv
  <2>2. pstJobToCommit # NULL => ToCommit' # {} /\ pstJobLast = stList'[n]
    <3> SUFFICES ASSUME pstJobToCommit # NULL
                 PROVE  ToCommit' # {} /\ pstJobLast = stList'[n]
      OBVIOUS
    <3>1. PICK i \in 2..(n + 1) : i \in ToCommit
      BY <1>8, <2>1 DEF RunInv
    <3>2. i - 1 \in 1..n /\ (i - 1) + 1 = i /\ n \in 1..n
      OBVIOUS
    <3>3. pstJobLast = stList[n + 1]
      BY <1>3, <2>1 DEF RunInv
    <3> QED BY <1>3, <1>8, <3>1, <3>2, <3>3
  <2>3. \A i \in ToCommit' : ~Ran(i)'
    BY <1>5, <1>8, <2>1 DEF RunInv
  <2>4. ASSUME NEW i \in 1..n, NEW j \in 1..n, i < j, Ran(j)' PROVE Ran(i)'
    <3>1. i + 1 \in 1..(n + 1) /\ j + 1 \in 1..(n + 1) /\ i + 1 < j + 1
      BY <2>4
    <3>2. Ran(j + 1)
      BY <1>5, <2>4
    <3>3. Ran(i + 1)
      BY <1>3, <2>1, <3>1, <3>2 DEF RunInv
    <3> QED BY <1>5, <3>3
  <2>5. hw = 0 => \A i \in 1..n : i \notin ToCommit' => Ran(i)'
    BY <1>3, <1>4, <1>5, <1>8, <2>1 DEF RunInv
  <2>6. hw # 0 => \E k \in 1..n :
          /\ HandleAt(k)' = hw /\ k \notin ToCommit' /\ ~Ran(k)'
          /\ \A i \in 1..(k - 1) : Ran(i)'
    <3> SUFFICES ASSUME hw # 0
                 PROVE  \E k \in 1..n :
                          /\ HandleAt(k)' = hw /\ k \notin ToCommit' /\ ~Ran(k)'
                          /\ \A i \in 1..(k - 1) : Ran(i)'
      OBVIOUS
    <3>1. PICK k \in 1..(n + 1) :
            /\ HandleAt(k) = hw /\ k \notin ToCommit /\ ~Ran(k)
            /\ \A i \in 1..(k - 1) : Ran(i)
      BY <1>3, <2>1 DEF RunInv
    <3>2. k - 1 \in 1..n /\ (k - 1) + 1 = k
      BY <1>6, <3>1
    <3>3. /\ HandleAt(k - 1)' = hw /\ k - 1 \notin ToCommit' /\ ~Ran(k - 1)'
      BY <1>4, <1>5, <1>8, <3>1, <3>2
    <3>4. \A i \in 1..((k - 1) - 1) : i \in 1..n /\ i + 1 \in 1..(k - 1)
      BY <3>2
    <3>5. \A i \in 1..((k - 1) - 1) : Ran(i)'
      BY <1>5, <3>1, <3>4
    <3> QED BY <3>2, <3>3, <3>5
  <2> QED BY <1>1, <1>3, <2>2, <2>3, <2>4, <2>5, <2>6 DEF RunInv
<1>12. CurInv'
  <2>1. CurInv /\ RunInv
    BY DEF ChainInv
  <2>2. hw = 0 => \A i, k \in 1..n : HandleAt(k)' = curNode /\ k < i => ~Ran(i)'
    <3> SUFFICES ASSUME hw = 0, NEW i \in 1..n, NEW k \in 1..n,
                        HandleAt(k + 1) = curNode, k < i
                 PROVE  ~Ran(i + 1)
      BY <1>4, <1>5
    <3>1. i + 1 \in 1..(n + 1) /\ k + 1 \in 1..(n + 1) /\ k + 1 < i + 1
      OBVIOUS
    <3> QED BY <1>3, <2>1, <3>1 DEF CurInv
  <2>3. ASSUME curNode \notin Listed', curNode # 0 PROVE pstJobFinished = curNode
    <3>1. CASE curNode \notin Listed
      BY <2>1, <2>3, <3>1 DEF CurInv
    <3>2. CASE curNode \in Listed
      <4>1. PICK k \in 1..(n + 1) : curNode = HandleAt(k)
        BY <1>3, <3>2, PlaceFacts
      <4>2. k = 1
        BY <1>9, <2>3, <4>1
      <4>3. hw = 0
        BY <1>3, <1>6, <2>1, <4>1, <4>2, PlaceFacts DEF CurInv, RunInv
      <4>4. PICK m \in 1..(n + 1) : tfin = HandleAt(m)
        BY <1>6
      <4>5. Ran(m)
        BY <1>6, <4>4 DEF Ran
      <4>6. ~(1 < m)
        BY <1>3, <2>1, <4>1, <4>2, <4>3, <4>5 DEF CurInv
      <4>7. m = 1
        BY <4>6
      <4> QED BY <1>6, <4>1, <4>2, <4>4, <4>7
    <3> QED BY <3>1, <3>2
  <2> QED BY <1>1, <1>3, <2>1, <2>2, <2>3 DEF CurInv
<1>13. FinishInv'
  <2>1. PICK m \in 1..(n + 1) : tfin = HandleAt(m)
    BY <1>6
  <2>2. tfin \in Listed' \/ tdel' = tfin
    BY <1>6, <1>9, <2>1
  <2> QED BY <1>1, <1>6, <2>2 DEF FinishInv
<1>14. FreshInv'
  <2>1. FreshInv /\ allocated \subseteq Slots
    BY DEF ChainInv, MemInv, TypeOK
  <2>2. Listed \subseteq Listed' \cup executed
    <3>1. ASSUME NEW i \in 1..(n + 1) PROVE HandleAt(i) \in Listed' \cup executed
      BY <1>6, <1>9 DEF Ran
    <3> QED BY <1>3, <3>1, PlaceFacts
  <2> QED BY <1>1, <1>2, <2>1, <2>2 DEF FreshInv
<1>15. GoalInv'
  <2>1. GoalInv
    BY DEF ChainInv
  <2>2. stList' # <<>> => s32HandleLast' = HandleAt(n)'
    <3> SUFFICES ASSUME stList' # <<>> PROVE s32HandleLast' = HandleAt(n)'
      OBVIOUS
    <3>1. n \in 1..n
      <4>1. stList' \in Seq(Slots)
        BY <1>1 DEF MemInv, TypeOK
      <4> QED BY <1>3, <4>1
    <3>2. s32HandleLast = HandleAt(n + 1) /\ 1 \in 1..(n + 1) /\ n + 1 \in 1..(n + 1)
      BY <1>1, <1>3, <2>1 DEF GoalInv
    <3>3. HandleAt(1) # HandleAt(n + 1)
      BY <1>3, <3>1, <3>2, PlaceFacts
    <3>4. job[Head(stList)].s32Handle = HandleAt(1)
      BY <1>3 DEF HandleAt
    <3> QED BY <1>1, <1>4, <3>1, <3>2, <3>3, <3>4 DEF LastAfter
  <2>3. ASSUME NEW c \in Clients, NEW h \in goal[c]
        PROVE  h \in executed \/
                 \E i, j \in 1..n :
                    i <= j /\ HandleAt(i)' = h /\ HandleAt(j)' = hdl[c]
    <3>1. CASE h \in executed
      BY <3>1
    <3>2. CASE h \notin executed
      <4>1. PICK i, j \in 1..(n + 1) :
              i <= j /\ HandleAt(i) = h /\ HandleAt(j) = hdl[c]
        BY <1>3, <2>1, <2>3, <3>2 DEF GoalInv
      <4>2. i # 1
        BY <1>6, <3>2, <4>1 DEF Ran
      <4>3. /\ i - 1 \in 1..n /\ (i - 1) + 1 = i
            /\ j - 1 \in 1..n /\ (j - 1) + 1 = j /\ i - 1 <= j - 1
        BY <4>1, <4>2
      <4>4. HandleAt(i - 1)' = h /\ HandleAt(j - 1)' = hdl[c]
        BY <1>4, <4>1, <4>3
      <4> QED BY <4>3, <4>4
    <3> QED BY <3>1, <3>2
  <2>4. UNCHANGED <<executed, goal, hdl, pc>> /\ Len(stList') = n
    BY <1>1, <1>3
  <2>5. /\ goal \in [Clients -> SUBSET Handles]
        /\ \A c \in Clients : goal[c] # {} =>
             pc[c] \in {"query_all", "wait_all", "interrupted"}
    BY <2>1 DEF GoalInv
  <2> QED BY <2>2, <2>3, <2>4, <2>5 DEF GoalInv
<1> QED BY <1>10, <1>11, <1>12, <1>13, <1>14, <1>15 DEF ChainInv

(* The chain that waits while the hardware is idle: all in front of it has *)
(* run, and its links lead to the end of the list.                         *)
LEMMA WaitingChain ==
    ASSUME MemInv, ChainInv, hw = 0, pstJobToCommit # NULL
    PROVE  \E k \in ToCommit :
             /\ HandleAt(k) = job[pstJobToCommit].s32Handle
             /\ \A i \in 1..Len(stList) : /\ i < k => Ran(i)
                                          /\ k <= i => i \in ToCommit
<1>1. RunInv
  BY DEF ChainInv
<1>2. PICK k \in ToCommit : /\ stList[k] = pstJobToCommit
                            /\ \A i \in ToCommit : k <= i
  BY <1>1, CommitFacts DEF RunInv
<1>3. k \in 1..Len(stList) /\ Len(stList) \in Nat
  BY CommitFacts, PlaceFacts
<1>4. HandleAt(k) = job[pstJobToCommit].s32Handle
  BY <1>2 DEF HandleAt
<1>5. ASSUME NEW i \in 1..Len(stList)
      PROVE  (i < k => Ran(i)) /\ (k <= i => i \in ToCommit)
  <2>1. i < k => i \notin ToCommit
    BY <1>2, <1>3
  <2> QED BY <1>1, <2>1, CommitFacts DEF RunInv
<1> QED BY <1>4, <1>5

(* TdeHalNodeExecute starts the chain that waits.                          *)
LEMMA ChainStart ==
    ASSUME MemInv, ChainInv, hw = 0, pstJobToCommit # NULL,
           \A s \in Entries(stList) : job'[s].s32Handle = job[s].s32Handle,
           UNCHANGED <<stList, next, executed>>,
           hw' = job[pstJobToCommit].s32Handle, curNode' = hw',
           pstJobToCommit' = NULL
    PROVE  LinkInv' /\ RunInv' /\ CurInv'
<1>1. /\ Len(stList)' = Len(stList) /\ Len(stList) \in Nat
      /\ \A i \in 1..Len(stList) : HandleAt(i)' = HandleAt(i)
      /\ Listed' = Listed
  BY SameList, PlaceFacts
<1>2. \A i \in 1..Len(stList) : Ran(i)' <=> Ran(i)
  BY <1>1 DEF Ran
<1>3. ToCommit' = {}
  <2>1. \A i \in 1..Len(stList) : stList[i] # NULL
    BY PlaceFacts, TdeAssumption
  <2> QED BY <1>1, <2>1 DEF ToCommit
<1>4. PICK k \in ToCommit :
        /\ HandleAt(k) = job[pstJobToCommit].s32Handle
        /\ \A i \in 1..Len(stList) : /\ i < k => Ran(i)
                                     /\ k <= i => i \in ToCommit
  BY WaitingChain
<1>5. k \in 1..Len(stList) /\ ~Ran(k)
  BY CommitFacts DEF ChainInv, RunInv
<1>6. LinkInv'
  <2> SUFFICES ASSUME NEW i \in 1..Len(stList)
               PROVE  /\ i = Len(stList) => next[HandleAt(i)] = 0
                      /\ i < Len(stList) =>
                           /\ next[HandleAt(i)] \in {0, HandleAt(i + 1)}
                           /\ ~Ran(i) => next[HandleAt(i)] = HandleAt(i + 1)
    BY <1>1, <1>2, <1>3 DEF LinkInv
  <2>1. ~Ran(i) => i \in ToCommit
    BY <1>1, <1>4, <1>5
  <2> QED BY <2>1 DEF ChainInv, LinkInv
<1>7. RunInv'
  <2>1. \A i \in 1..(k - 1) : Ran(i)'
    BY <1>1, <1>2, <1>4, <1>5
  <2>2. \A i, j \in 1..Len(stList) : i < j /\ Ran(j)' => Ran(i)'
    BY <1>2 DEF ChainInv, RunInv
  <2>3. hw' # 0 /\ HandleAt(k)' = hw' /\ ~Ran(k)'
    BY <1>1, <1>2, <1>4, <1>5, PlaceFacts
  <2> QED BY <1>1, <1>3, <1>5, <2>1, <2>2, <2>3 DEF RunInv
<1>8. CurInv'
  BY <1>1, <1>4, <1>5, PlaceFacts DEF CurInv
<1> QED BY <1>6, <1>7, <1>8

LEMMA ChainNotify ==
    ASSUME MemInv, ChainInv, NodeCompNotify
    PROVE  ChainInv'
<1>1. PICK s \in Slots : s = tjob
  BY DEF NodeCompNotify, MemInv, TypeOK
<1>2. /\ tpc = "notify" /\ allocated \subseteq Slots
      /\ allocated' \subseteq allocated
      /\ UNCHANGED <<owner, stList, s32HandleLast, pstJobLast, next, executed,
                     tfin, pc, hdl, goal>>
      /\ job' = job \/ job' = [job EXCEPT ![s].enNotiType = "BUTT"]
  BY <1>1 DEF NodeCompNotify, MemInv, TypeOK, DestroyJob
<1>3. \A t \in Slots : /\ job'[t].s32Handle = job[t].s32Handle
                       /\ job'[t].bSubmitted <=> job[t].bSubmitted
  BY <1>2, JobFacts DEF MemInv, JobType
<1>4. \A t \in Entries(stList) : job'[t].s32Handle = job[t].s32Handle
  BY <1>3, EntryFacts DEF MemInv
<1>5. \/ UNCHANGED <<pstJobToCommit, pstJobFinished, hw, curNode>>
      \/ /\ tpc' = "idle" /\ hw = 0 /\ pstJobToCommit # NULL
         /\ hw' = job[pstJobToCommit].s32Handle /\ curNode' = hw'
         /\ pstJobToCommit' = NULL
  BY DEF NodeCompNotify, TdeOsiListCompProc, TdeHalNodeExecute
<1>6. LinkInv' /\ RunInv' /\ CurInv'
  BY <1>2, <1>4, <1>5, ChainQuiet, ChainStart
<1>7. /\ Len(stList)' = Len(stList)
      /\ \A i \in 1..Len(stList) : HandleAt(i)' = HandleAt(i)
      /\ Listed' = Listed
  BY <1>2, <1>4, SameList
<1>8. FinishInv'
  <2>1. \/ tpc' = "idle"
        \/ /\ tpc' = "loop" /\ tdel # tfin
           /\ UNCHANGED <<pstJobFinished, curNode>>
    BY DEF NodeCompNotify
  <2> QED BY <1>2, <1>7, <2>1 DEF ChainInv, FinishInv
<1>9. FreshInv'
  BY <1>2, <1>3, <1>7 DEF ChainInv, FreshInv
<1>10. GoalInv'
  <2>1. GoalInv /\ (stList # <<>> => Len(stList) \in 1..Len(stList))
    BY EntryFacts DEF ChainInv, MemInv
  <2>2. stList' # <<>> => s32HandleLast' = HandleAt(Len(stList))'
    BY <1>2, <1>7, <2>1 DEF GoalInv, HandleAt
  <2> QED BY <1>2, <1>7, <2>1, <2>2 DEF GoalInv
<1> QED BY <1>6, <1>8, <1>9, <1>10 DEF ChainInv

(* A job joins the end of the list: behind the chain that waits, which is  *)
(* started if the hardware is idle, or as the first of a chain.            *)
LEMMA ChainSubmit ==
    ASSUME MemInv, ChainInv, NEW c \in Clients, SubmitJob(c)
    PROVE  ChainInv'
<1> USE DEF memVars, taskletVars
<1>1. PICK s \in allocated : s = cur[c]
  BY DEF MemInv, SubmitInv, PreList, SubmitJob
<1>2. PICK h : h = job[s].s32Handle
  OBVIOUS
<1>3. PICK n \in Nat : n = Len(stList)
  BY PlaceFacts
<1>4. /\ s \in Slots /\ h = hdl[c] /\ s \notin Entries(stList)
      /\ h \in 1..Len(owner) /\ h \in Handles /\ h # 0
      /\ \A t \in Slots : job[t].s32Handle = h => t = s
      /\ pc[c] = "list"
  <2>1. /\ s \in Slots /\ pc[c] = "list" /\ h = hdl[c]
        /\ s \notin Entries(stList)
    BY <1>1, <1>2 DEF SubmitJob, MemInv, TypeOK, SubmitInv, PreList
  <2>2. h \in 0..MaxHandle /\ h >= 1 /\ h <= Len(owner) /\ Len(owner) \in Nat
    <3>1. h \in 0..MaxHandle
      BY <1>2, <2>1, JobFacts DEF MemInv
    <3>2. h >= 1 /\ h <= Len(owner)
      BY <1>2, <2>1 DEF MemInv, HandleInv
    <3>3. Len(owner) \in Nat
      BY DEF MemInv, TypeOK
    <3> QED BY <3>1, <3>2, <3>3
  <2>3. h \in 1..Len(owner) /\ h \in Handles /\ h # 0
    BY <2>2, TdeAssumption DEF Handles
  <2>4. \A t \in Slots : job[t].s32Handle = h => t = s
    BY <1>2, <2>1, <2>3 DEF MemInv, HandleInv
  <2> QED BY <2>1, <2>3, <2>4
<1>5. /\ next' = JoinChain(s) /\ stList' = list_add_tail(s, stList)
      /\ s32HandleLast' = h /\ pstJobLast' = s /\ LockFree
      /\ UNCHANGED <<allocated, job, owner, executed, tpc, tfin, tdel, goal>>
  BY <1>1, <1>2 DEF SubmitJob
<1>6. /\ stList' \in Seq(Slots) /\ Len(stList') = n + 1 /\ Len(stList)' = n + 1
      /\ \A i \in 1..n : stList'[i] = stList[i]
      /\ stList'[n + 1] = s
  <2>1. stList \in Seq(Slots)
    BY DEF MemInv, TypeOK
  <2>2. /\ list_add_tail(s, stList) \in Seq(Slots)
        /\ Len(list_add_tail(s, stList)) = Len(stList) + 1
        /\ \A j \in 1..Len(stList) : list_add_tail(s, stList)[j] = stList[j]
        /\ list_add_tail(s, stList)[Len(stList) + 1] = s
    BY <1>4, <2>1, ListAddTail
  <2> QED BY <1>3, <1>5, <2>2
<1>7. /\ \A i \in 1..n : HandleAt(i)' = HandleAt(i) /\ HandleAt(i) # h
      /\ HandleAt(n + 1)' = h
  <2>1. \A i \in 1..n : stList[i] # s /\ stList[i] \in Slots
    BY <1>3, <1>4, PlaceFacts
  <2> QED BY <1>2, <1>4, <1>5, <1>6, <2>1 DEF HandleAt
<1>8. Listed' = Listed \cup {h}
  <2>1. Listed = {HandleAt(i) : i \in 1..n}
    BY <1>3, PlaceFacts
  <2>2. Listed' = {HandleAt(i)' : i \in 1..(n + 1)}
    BY <1>6 DEF Listed, Entries, HandleAt
  <2>3. \A i \in 1..n : i \in 1..(n + 1)
    OBVIOUS
  <2>4. \A i \in 1..(n + 1) : i \in 1..n \/ i = n + 1
    OBVIOUS
  <2> QED BY <1>7, <2>1, <2>2, <2>3, <2>4
<1>9. /\ h \notin executed /\ next[h] = 0
      /\ \A i \in 1..n : Ran(i)' <=> Ran(i)
      /\ ~Ran(n + 1)'
  <2>1. h \notin executed
    BY <1>4 DEF ChainInv, FreshInv, PreList
  <2>2. h \notin Listed
    BY <1>3, <1>7, PlaceFacts
  <2>3. next[h] = 0
    BY <1>4, <2>1, <2>2 DEF ChainInv, FreshInv
  <2> QED BY <1>5, <1>7, <2>1, <2>3 DEF Ran
<1>10. /\ ToCommit \subseteq 1..n
       /\ pstJobToCommit = NULL => ToCommit = {}
       /\ pstJobToCommit # NULL =>
            n \in ToCommit /\ job[pstJobLast].s32Handle = HandleAt(n)
  <2>1. ASSUME pstJobToCommit # NULL
        PROVE  n \in ToCommit /\ job[pstJobLast].s32Handle = HandleAt(n)
    <3>1. PICK i \in ToCommit : i \in 1..n
      BY <1>3, <2>1, CommitFacts DEF ChainInv, RunInv
    <3>2. n \in 1..n /\ i <= n
      BY <3>1
    <3>3. pstJobLast = stList[n]
      BY <1>3, <2>1 DEF ChainInv, RunInv
    <3> QED BY <1>3, <3>1, <3>2, <3>3, CommitFacts DEF HandleAt
  <2> QED BY <1>3, <2>1, CommitFacts
<1>11. /\ next' \in [Handles -> 0..MaxHandle]
       /\ \A i \in 1..n : i < n => next'[HandleAt(i)] = next[HandleAt(i)]
       /\ next'[h] = 0
       /\ n \in 1..n => next'[HandleAt(n)] = IF n \in ToCommit THEN h ELSE 0
       /\ \A g \in Handles : next'[g] # next[g] => g \in Listed
  <2>1. /\ next \in [Handles -> 0..MaxHandle] /\ h \in 0..MaxHandle
    BY <1>2, <1>4, JobFacts DEF MemInv, TypeOK
  <2>2. CASE pstJobToCommit = NULL
    <3>1. next' = next /\ n \notin ToCommit
      BY <1>5, <1>10, <2>2 DEF JoinChain
    <3>2. n \in 1..n => next[HandleAt(n)] = 0
      BY <1>3 DEF ChainInv, LinkInv
    <3> QED BY <1>9, <2>1, <3>1, <3>2
  <2>3. CASE pstJobToCommit # NULL
    <3>1. /\ next' = [next EXCEPT ![HandleAt(n)] = h] /\ n \in ToCommit
          /\ n \in 1..n
      BY <1>2, <1>5, <1>10, <2>3 DEF JoinChain
    <3>2. \A i \in 1..n : /\ HandleAt(i) \in Handles
                          /\ i < n => HandleAt(i) # HandleAt(n)
      BY <1>3, <3>1, PlaceFacts
    <3>3. HandleAt(n) \in Listed /\ HandleAt(n) # h
      BY <1>3, <1>7, <3>1, PlaceFacts
    <3> QED BY <1>4, <1>9, <2>1, <3>1, <3>2, <3>3
  <2> QED BY <2>2, <2>3
<1>12. \/ /\ hw = 0 /\ hw' = curNode' /\ pstJobToCommit' = NULL
          /\ hw' = IF pstJobToCommit # NULL
                   THEN job[pstJobToCommit].s32Handle ELSE h
       \/ /\ hw # 0 /\ UNCHANGED <<hw, curNode, pstJobFinished>>
          /\ pstJobToCommit' = IF pstJobToCommit # NULL
                               THEN pstJobToCommit ELSE s
  BY <1>1, <1>2 DEF SubmitJob, TdeHalNodeExecute
<1>13. \A i \in 1..(n + 1) : stList'[i] # NULL
  BY <1>6, TdeAssumption
<1>14. \A i \in 1..(n + 1) : /\ i \in 1..n \/ i = n + 1
                             /\ i = n + 1 => i \notin 1..n
  OBVIOUS
<1>15. ASSUME hw = 0 PROVE LinkInv' /\ RunInv' /\ CurInv'
  <2>1. /\ hw' = curNode' /\ pstJobToCommit' = NULL
        /\ hw' = IF pstJobToCommit # NULL
                 THEN job[pstJobToCommit].s32Handle ELSE h
    BY <1>12, <1>15
  <2>2. ToCommit' = {}
    BY <1>6, <1>13, <2>1 DEF ToCommit
  <2>3. PICK k \in 1..(n + 1) :
          /\ HandleAt(k)' = hw' /\ ~Ran(k)'
          /\ \A i \in 1..n : /\ i < k => Ran(i)
                             /\ k <= i => i \in ToCommit
    <3>1. CASE pstJobToCommit # NULL
      <4>1. PICK k \in ToCommit :
              /\ HandleAt(k) = job[pstJobToCommit].s32Handle
              /\ \A i \in 1..Len(stList) : /\ i < k => Ran(i)
                                           /\ k <= i => i \in ToCommit
        BY <1>15, <3>1, WaitingChain
      <4>2. k \in 1..n /\ ~Ran(k) /\ k \in 1..(n + 1)
        BY <1>10 DEF ChainInv, RunInv
      <4> QED BY <1>3, <1>7, <1>9, <2>1, <3>1, <4>1, <4>2
    <3>2. CASE pstJobToCommit = NULL
      <4>1. \A i \in 1..n : Ran(i)
        BY <1>3, <1>10, <1>15, <3>2 DEF ChainInv, RunInv
      <4>2. /\ HandleAt(n + 1)' = hw' /\ ~Ran(n + 1)' /\ n + 1 \in 1..(n + 1)
            /\ \A i \in 1..n : ~(n + 1 <= i)
        BY <1>7, <1>9, <2>1, <3>2
      <4> QED BY <4>1, <4>2
    <3> QED BY <3>1, <3>2
  <2>4. LinkInv'
    <3> SUFFICES ASSUME NEW i \in 1..(n + 1)
                 PROVE  /\ i = n + 1 => next'[HandleAt(i)'] = 0
                        /\ i < n + 1 =>
                             /\ next'[HandleAt(i)'] \in {0, HandleAt(i + 1)'}
                             /\ ~Ran(i)' => next'[HandleAt(i)'] = HandleAt(i + 1)'
      BY <1>6, <2>2 DEF LinkInv
    <3>1. CASE i = n + 1
      BY <1>7, <1>11, <3>1
    <3>2. CASE i \in 1..n /\ i = n
      <4>1. ~Ran(n)' => n \in ToCommit
        BY <1>9, <2>3, <3>2
      <4> QED BY <1>7, <1>11, <3>2, <4>1
    <3>3. CASE i \in 1..n /\ i < n
      <4>1. ~Ran(i)' => i \in ToCommit
        BY <1>9, <2>3, <3>3
      <4>2. i + 1 \in 1..n /\ i # n + 1
        BY <3>3
      <4>3. /\ next[HandleAt(i)] \in {0, HandleAt(i + 1)}
            /\ i \in ToCommit => next[HandleAt(i)] = HandleAt(i + 1)
        BY <1>3, <3>3 DEF ChainInv, LinkInv
      <4> QED BY <1>7, <1>11, <3>3, <4>1, <4>2, <4>3
    <3> QED BY <3>1, <3>2, <3>3
  <2>5. RunInv'
    <3>1. \A i \in 1..(k - 1) : i \in 1..n /\ i < k
      OBVIOUS
    <3>2. \A i \in 1..(k - 1) : Ran(i)'
      BY <1>9, <2>3, <3>1
    <3>3. ASSUME NEW i \in 1..(n + 1), NEW j \in 1..(n + 1), i < j, Ran(j)'
          PROVE  Ran(i)'
      <4>1. i \in 1..n /\ j \in 1..n /\ Ran(j)
        BY <1>9, <3>3
      <4> QED BY <1>3, <1>9, <3>3, <4>1 DEF ChainInv, RunInv
    <3>4. hw' # 0
      BY <1>3, <1>4, <1>7, <2>3, PlaceFacts
    <3> QED BY <1>6, <2>1, <2>2, <2>3, <3>2, <3>3, <3>4 DEF RunInv
  <2>6. CurInv'
    <3>1. hw' \in Listed' /\ hw' # 0
      BY <1>3, <1>4, <1>7, <1>8, <2>3, PlaceFacts
    <3> QED BY <2>1, <3>1 DEF CurInv
  <2> QED BY <2>4, <2>5, <2>6
<1>16. ASSUME hw # 0 PROVE LinkInv' /\ RunInv' /\ CurInv'
  <2>1. /\ UNCHANGED <<hw, curNode, pstJobFinished>>
        /\ pstJobToCommit' = IF pstJobToCommit # NULL THEN pstJobToCommit ELSE s
    BY <1>12, <1>16
  <2>2. ToCommit' = ToCommit \cup {n + 1}
    <3>1. ToCommit' = {i \in 1..(n + 1) :
                         \E k \in 1..i : stList'[k] = pstJobToCommit'}
      BY <1>6 DEF ToCommit
    <3>2. CASE pstJobToCommit = NULL
      <4>1. pstJobToCommit' = s /\ ToCommit = {}
        BY <1>10, <2>1, <3>2
      <4>2. \A k \in 1..n : stList'[k] # s
        BY <1>3, <1>4, <1>6, PlaceFacts
      <4> QED BY <1>6, <3>1, <4>1, <4>2
    <3>3. CASE pstJobToCommit # NULL
      <4>1. pstJobToCommit' = pstJobToCommit
        BY <2>1, <3>3
      <4>2. \A i \in 1..n : i \in ToCommit <=>
                \E k \in 1..i : stList'[k] = pstJobToCommit
        BY <1>3, <1>6 DEF ToCommit
      <4>3. n \in 1..n /\ \E k \in 1..(n + 1) : stList'[k] = pstJobToCommit
        <5>1. PICK k \in 1..n : stList'[k] = pstJobToCommit
          BY <1>10, <3>3, <4>2
        <5>2. k \in 1..(n + 1)
          OBVIOUS
        <5> QED BY <1>10, <3>3, <5>1, <5>2
      <4>4. ASSUME NEW i \in 1..(n + 1)
            PROVE  i \in ToCommit' <=> i \in ToCommit \cup {n + 1}
        <5>1. CASE i = n + 1
          BY <3>1, <4>1, <4>3, <5>1
        <5>2. CASE i \in 1..n
          <6>1. i # n + 1
            BY <5>2
          <6> QED BY <3>1, <4>1, <4>2, <5>2, <6>1
        <5> QED BY <1>14, <5>1, <5>2
      <4>5. ToCommit' \subseteq 1..(n + 1) /\ ToCommit \cup {n + 1} \subseteq 1..(n + 1)
        BY <1>10, <3>1
      <4> QED BY <4>4, <4>5
    <3> QED BY <3>2, <3>3
  <2>3. LinkInv'
    <3> SUFFICES ASSUME NEW i \in 1..(n + 1)
                 PROVE  /\ i = n + 1 => next'[HandleAt(i)'] = 0
                        /\ i < n + 1 =>
                             /\ next'[HandleAt(i)'] \in {0, HandleAt(i + 1)'}
                             /\ i \in ToCommit' =>
                                  next'[HandleAt(i)'] = HandleAt(i + 1)'
                             /\ i \notin ToCommit' /\ i + 1 \in ToCommit' =>
                                  next'[HandleAt(i)'] = 0
                             /\ i + 1 \notin ToCommit' /\ ~Ran(i)' =>
                                  next'[HandleAt(i)'] = HandleAt(i + 1)'
      BY <1>6 DEF LinkInv
    <3>1. CASE i = n + 1
      BY <1>7, <1>11, <3>1
    <3>2. CASE i \in 1..n /\ i = n
      BY <1>7, <1>11, <2>2, <3>2
    <3>3. CASE i \in 1..n /\ i < n
      <4>1. i + 1 \in 1..n /\ i # n + 1 /\ i + 1 # n + 1
        BY <3>3
      <4>2. /\ next[HandleAt(i)] \in {0, HandleAt(i + 1)}
            /\ i \in ToCommit => next[HandleAt(i)] = HandleAt(i + 1)
            /\ i \notin ToCommit /\ i + 1 \in ToCommit => next[HandleAt(i)] = 0
            /\ i + 1 \notin ToCommit /\ ~Ran(i) =>
                 next[HandleAt(i)] = HandleAt(i + 1)
        BY <1>3, <3>3 DEF ChainInv, LinkInv
      <4>3. /\ i \in ToCommit' <=> i \in ToCommit
            /\ i + 1 \in ToCommit' <=> i + 1 \in ToCommit
        BY <2>2, <4>1
      <4> QED BY <1>7, <1>9, <1>11, <3>3, <4>1, <4>2, <4>3
    <3> QED BY <3>1, <3>2, <3>3
  <2>4. RunInv'
    <3>1. RunInv
      BY DEF ChainInv
    <3>2. \A i \in ToCommit' : ~Ran(i)'
      BY <1>9, <1>10, <2>2, <3>1 DEF RunInv
    <3>3. ASSUME NEW i \in 1..(n + 1), NEW j \in 1..(n + 1), i < j, Ran(j)'
          PROVE  Ran(i)'
      <4>1. i \in 1..n /\ j \in 1..n /\ Ran(j)
        BY <1>9, <3>3
      <4> QED BY <1>3, <1>9, <3>1, <3>3, <4>1 DEF RunInv
    <3>4. PICK k \in 1..n :
            /\ HandleAt(k) = hw /\ k \notin ToCommit /\ ~Ran(k)
            /\ \A i \in 1..(k - 1) : Ran(i)
      BY <1>3, <1>16, <3>1 DEF RunInv
    <3>5. /\ k \in 1..(n + 1) /\ HandleAt(k)' = hw' /\ k \notin ToCommit'
          /\ ~Ran(k)'
      BY <1>7, <1>9, <2>1, <2>2, <3>4
    <3>6. \A i \in 1..(k - 1) : i \in 1..n
      OBVIOUS
    <3>7. \A i \in 1..(k - 1) : Ran(i)'
      BY <1>9, <3>4, <3>6
    <3> QED BY <1>5, <1>6, <1>16, <2>1, <2>2, <3>2, <3>3, <3>5, <3>7 DEF RunInv
  <2>5. CurInv'
    BY <1>8, <1>16, <2>1 DEF ChainInv, CurInv
  <2> QED BY <2>3, <2>4, <2>5
<1>17. FinishInv'
  <2> SUFFICES ASSUME tpc \in {"loop", "callback", "notify"}
               PROVE  /\ tfin \in executed
                      /\ tfin \in Listed' \/ (tpc # "loop" /\ tdel = tfin)
                      /\ tfin = curNode' => pstJobFinished' = curNode'
    BY <1>5 DEF FinishInv
  <2>1. FinishInv
    BY DEF ChainInv
  <2>2. hw = 0 => curNode' \notin executed
    <3> SUFFICES ASSUME hw = 0 PROVE curNode' \notin executed
      OBVIOUS
    <3>1. CASE pstJobToCommit = NULL
      BY <1>9, <1>12, <3>1
    <3>2. CASE pstJobToCommit # NULL
      <4>1. PICK k \in ToCommit : HandleAt(k) = job[pstJobToCommit].s32Handle
        BY <3>2, WaitingChain
      <4>2. ~Ran(k)
        BY DEF ChainInv, RunInv
      <4> QED BY <1>12, <3>2, <4>1, <4>2 DEF Ran
    <3> QED BY <3>1, <3>2
  <2> QED BY <1>8, <1>12, <2>1, <2>2 DEF FinishInv
<1>18. FreshInv'
  <2>1. FreshInv
    BY DEF ChainInv
  <2>2. \A d \in Clients : pc'[d] \in PreList => pc[d] \in PreList /\ hdl'[d] = hdl[d]
    <3>1. \/ pc' = [pc EXCEPT ![c] = "blocked"] /\ hdl' = hdl
          \/ pc' = [pc EXCEPT ![c] = "idle"] /\ hdl' = [hdl EXCEPT ![c] = 0]
      BY DEF SubmitJob, Goto
    <3> QED BY <3>1 DEF MemInv, PlacesOK, PreList
  <2>3. \A g \in Handles : next'[g] # 0 => g \in Listed' \cup executed
    BY <1>8, <1>11, <2>1 DEF FreshInv
  <2> QED BY <1>5, <2>1, <2>2, <2>3 DEF FreshInv
<1>19. GoalInv'
  <2>1. GoalInv
    BY DEF ChainInv
  <2>2. s32HandleLast' = HandleAt(n + 1)'
    BY <1>5, <1>7
  <2>3. goal[c] = {}
    BY <1>4, <2>1 DEF GoalInv
  <2>4. \A d \in Clients : d # c => pc'[d] = pc[d] /\ hdl'[d] = hdl[d]
    BY DEF SubmitJob, Goto, MemInv, PlacesOK
  <2>5. ASSUME NEW d \in Clients, NEW g \in goal[d]
        PROVE  g \in executed \/
                 \E i, j \in 1..(n + 1) :
                    i <= j /\ HandleAt(i)' = g /\ HandleAt(j)' = hdl'[d]
    <3>1. d # c
      BY <2>3, <2>5
    <3>2. CASE g \notin executed
      <4>1. PICK i, j \in 1..n : i <= j /\ HandleAt(i) = g /\ HandleAt(j) = hdl[d]
        BY <1>3, <2>1, <2>5, <3>2 DEF GoalInv
      <4>2. i \in 1..(n + 1) /\ j \in 1..(n + 1)
        OBVIOUS
      <4> QED BY <1>7, <2>4, <3>1, <4>1, <4>2
    <3> QED BY <3>2
  <2>6. \A d \in Clients : goal[d] # {} => pc'[d] \in {"query_all", "wait_all", "interrupted"}
    BY <2>1, <2>3, <2>4 DEF GoalInv
  <2> QED BY <1>5, <1>6, <2>1, <2>2, <2>5, <2>6 DEF GoalInv
<1> QED BY <1>15, <1>16, <1>17, <1>18, <1>19 DEF ChainInv

(* A step of one thread, which is not in a wait for all.                   *)
LEMMA ChainClient ==
    ASSUME MemInv, ChainInv, NEW c \in Clients,
           pc[c] \notin {"query_all", "wait_all", "interrupted"},
           \A s \in Entries(stList) : job'[s].s32Handle = job[s].s32Handle,
           UNCHANGED <<stList, s32HandleLast, pstJobToCommit, pstJobFinished,
                       pstJobLast, next, hw, curNode, executed, tpc, tfin, tdel,
                       goal>>,
           1..Len(owner) \subseteq 1..Len(owner)',
           \A s \in allocated' : ~job'[s].bSubmitted =>
               \/ job'[s].s32Handle \notin 1..Len(owner)
               \/ /\ s \in allocated /\ ~job[s].bSubmitted
                  /\ job'[s].s32Handle = job[s].s32Handle,
           \A d \in Clients : d # c => pc'[d] = pc[d] /\ hdl'[d] = hdl[d],
           pc'[c] \in PreList => hdl'[c] \notin executed
    PROVE  ChainInv'
<1>1. GoalInv /\ FreshInv
  BY DEF ChainInv
<1>2. goal[c] = {} /\ goal' \in [Clients -> SUBSET Handles]
  BY <1>1 DEF GoalInv
<1>3. \A d \in Clients : pc'[d] \in PreList => hdl'[d] \notin executed
  BY <1>1 DEF FreshInv
<1>4. \A d \in Clients : goal'[d] # {} =>
          /\ pc'[d] \in {"query_all", "wait_all", "interrupted"}
          /\ goal'[d] = goal[d] /\ hdl'[d] = hdl[d]
  BY <1>1, <1>2 DEF GoalInv
<1> QED BY <1>2, <1>3, <1>4, ChainStep

(* The steps of a job that is not submitted.                               *)
LEMMA ChainOpen ==
    ASSUME MemInv, ChainInv, NEW c \in Clients,
           \/ TdeOsiListBeginJob(c)
           \/ \E h \in Handles : \/ TdeOsiSetNodeFinish(c, h)
                                 \/ TdeOsiListCancelJob(c, h)
                                 \/ SubmitTest(c, h)
    PROVE  ChainInv'
<1> USE DEF memVars, listVars, hwVars, taskletVars, clientVars
<1>1. /\ allocated \subseteq Slots /\ Len(owner) \in Nat /\ owner \in Seq(Submitters)
      /\ Entries(stList) \subseteq allocated
      /\ \A s \in Slots : job[s].s32Handle \in 0..MaxHandle
  BY JobFacts DEF MemInv, TypeOK, ListInv
<1>2. CASE TdeOsiListBeginJob(c)
  <2>1. PICK s \in Slots \ allocated :
          /\ allocated' = allocated \cup {s}
          /\ job' = [job EXCEPT ![s] = NewJob(Len(owner) + 1)]
    BY <1>2 DEF TdeOsiListBeginJob
  <2>2. /\ pc[c] = "idle" /\ c \in Submitters /\ owner' = Append(owner, c)
        /\ UNCHANGED <<stList, s32HandleLast, pstJobToCommit, pstJobFinished,
                       pstJobLast, next, hw, curNode, executed, tpc, tfin, tdel,
                       pc, hdl, goal>>
    BY <1>2 DEF TdeOsiListBeginJob
  <2>3. /\ job'[s].s32Handle = Len(owner) + 1
        /\ \A t \in Slots : t # s => job'[t] = job[t]
    BY <2>1, JobFacts DEF MemInv, NewJob
  <2>4. Len(owner)' = Len(owner) + 1 /\ Len(owner) + 1 \notin 1..Len(owner)
    BY <1>1, <2>2
  <2>5. 1..Len(owner) \subseteq 1..Len(owner)'
    BY <1>1, <2>4
  <2>6. \A t \in Entries(stList) : job'[t].s32Handle = job[t].s32Handle
    BY <1>1, <2>1, <2>3
  <2>7. \A t \in allocated' : ~job'[t].bSubmitted =>
            \/ job'[t].s32Handle \notin 1..Len(owner)
            \/ /\ t \in allocated /\ ~job[t].bSubmitted
               /\ job'[t].s32Handle = job[t].s32Handle
    BY <1>1, <2>1, <2>3, <2>4
  <2>8. pc'[c] \notin PreList
    BY <2>2 DEF PreList
  <2> QED BY <2>2, <2>5, <2>6, <2>7, <2>8, ChainClient
<1>3. ASSUME NEW h \in Handles,
             \/ TdeOsiSetNodeFinish(c, h) \/ TdeOsiListCancelJob(c, h)
             \/ SubmitTest(c, h)
      PROVE  ChainInv'
  <2>1. PICK s \in Slots :
          /\ Finds(c, h, s) /\ ~job[s].bSubmitted
          /\ allocated' \subseteq allocated
          /\ job' = job \/ job' = [job EXCEPT ![s].cmd = TRUE]
          /\ \/ pc' = pc /\ hdl' = hdl
             \/ pc' = [pc EXCEPT ![c] = "mark"] /\ hdl' = [hdl EXCEPT ![c] = h]
          /\ UNCHANGED <<owner, stList, s32HandleLast, pstJobToCommit,
                         pstJobFinished, pstJobLast, next, hw, curNode,
                         executed, tpc, tfin, tdel, goal>>
    <3>1. CASE TdeOsiSetNodeFinish(c, h)
      BY <3>1 DEF TdeOsiSetNodeFinish
    <3>2. CASE TdeOsiListCancelJob(c, h)
      BY <3>2 DEF TdeOsiListCancelJob
    <3>3. CASE SubmitTest(c, h)
      BY <3>3 DEF SubmitTest, Goto
    <3> QED BY <1>3, <3>1, <3>2, <3>3
  <2>2. \A t \in Slots : /\ job'[t].bSubmitted <=> job[t].bSubmitted
                         /\ job'[t].s32Handle = job[t].s32Handle
    BY <2>1, JobFacts DEF MemInv, JobType
  <2>3. pc[c] = "idle" /\ s \in allocated /\ job[s].s32Handle = h
    BY <2>1 DEF Finds, query_handle
  <2>4. h \notin executed
    BY <2>1, <2>3 DEF ChainInv, FreshInv
  <2>5. /\ \A d \in Clients : d # c => pc'[d] = pc[d] /\ hdl'[d] = hdl[d]
        /\ pc'[c] \in PreList => hdl'[c] \notin executed
    BY <2>1, <2>3, <2>4 DEF MemInv, PlacesOK, PreList
  <2>6. /\ \A t \in Entries(stList) : job'[t].s32Handle = job[t].s32Handle
        /\ \A t \in allocated' : ~job'[t].bSubmitted =>
              /\ t \in allocated /\ ~job[t].bSubmitted
              /\ job'[t].s32Handle = job[t].s32Handle
    BY <1>1, <2>1, <2>2
  <2> QED BY <2>1, <2>3, <2>5, <2>6, ChainClient
<1> QED BY <1>2, <1>3

(* The steps of a submit outside the list lock, and of one that wakes.     *)
LEMMA ChainSubmitting ==
    ASSUME MemInv, ChainInv, NEW c \in Clients,
           \/ \E mode \in Modes : SubmitMark(c, mode)
           \/ TDE_FENCE_Create(c) \/ FenceStore(c) \/ SubmitWake(c)
    PROVE  ChainInv'
<1> USE DEF listVars, hwVars, taskletVars
<1>1. /\ allocated \subseteq Slots /\ Entries(stList) \subseteq allocated
      /\ pc[c] \in {"mark", "fence", "fence_store", "blocked"}
      /\ cur[c] \in Slots
  BY DEF MemInv, TypeOK, ListInv, PlacesOK, SubmitInv, PreList, SubmitMark,
         TDE_FENCE_Create, FenceStore, SubmitWake
<1>2. PICK s \in Slots : s = cur[c]
  BY <1>1
<1>3. PICK place \in {"idle", "fence", "fence_store", "list"} :
        /\ pc' = [pc EXCEPT ![c] = place]
        /\ hdl' = [hdl EXCEPT ![c] = 0] \/ hdl' = hdl
        /\ place # "idle" => hdl' = hdl /\ pc[c] # "blocked"
        /\ allocated' \subseteq allocated
        /\ UNCHANGED <<owner, stList, s32HandleLast, pstJobToCommit,
                       pstJobFinished, pstJobLast, next, hw, curNode,
                       executed, tpc, tfin, tdel, goal>>
  <2>1. CASE \E mode \in Modes : SubmitMark(c, mode)
    BY <2>1 DEF SubmitMark, Goto
  <2>2. CASE TDE_FENCE_Create(c)
    BY <2>2 DEF TDE_FENCE_Create, FenceFails, Goto
  <2>3. CASE FenceStore(c)
    BY <2>3 DEF FenceStore, FenceFails, Goto
  <2>4. CASE SubmitWake(c)
    BY <2>4 DEF SubmitWake, DestroyJob, Goto
  <2> QED BY <2>1, <2>2, <2>3, <2>4
<1>4. \A t \in Slots : /\ job[t].bSubmitted => job'[t].bSubmitted
                       /\ job'[t].s32Handle = job[t].s32Handle
  <2>1. job \in [Slots -> JobType] /\ job[s] \in JobType
    BY JobFacts DEF MemInv
  <2>2. CASE \E mode \in Modes : SubmitMark(c, mode)
    <3>1. PICK mode \in Modes, type \in {"WAKE", "COMPL"} :
            job' = [job EXCEPT ![s] = [@ EXCEPT !.bSubmitted = TRUE,
                                                !.enNotiType = type,
                                                !.callback = (mode = "callback")]]
      BY <1>2, <2>2 DEF SubmitMark
    <3>2. PICK r : r = [job[s] EXCEPT !.bSubmitted = TRUE, !.enNotiType = type,
                                      !.callback = (mode = "callback")]
      OBVIOUS
    <3>3. r.bSubmitted /\ r.s32Handle = job[s].s32Handle
      BY <2>1, <3>2 DEF JobType
    <3>4. job' = [job EXCEPT ![s] = r]
      BY <3>1, <3>2
    <3> QED BY <2>1, <3>3, <3>4
  <2>3. CASE TDE_FENCE_Create(c)
    BY <2>3 DEF TDE_FENCE_Create, FenceFails
  <2>4. CASE FenceStore(c)
    <3>1. job' = job \/ job' = [job EXCEPT ![s].fence = tmp[c] + 1]
      BY <1>2, <2>4 DEF FenceStore, FenceFails
    <3> QED BY <2>1, <3>1 DEF JobType
  <2>5. CASE SubmitWake(c)
    <3>1. job' = job \/ job' = [job EXCEPT ![s].enNotiType = "COMPL"]
      BY <1>2, <2>5 DEF SubmitWake
    <3> QED BY <2>1, <3>1 DEF JobType
  <2> QED BY <2>2, <2>3, <2>4, <2>5
<1>5. /\ \A d \in Clients : d # c => pc'[d] = pc[d] /\ hdl'[d] = hdl[d]
      /\ pc'[c] = place
  BY <1>3 DEF MemInv, PlacesOK
<1>6. pc'[c] \in PreList => hdl'[c] \notin executed
  BY <1>1, <1>3, <1>5 DEF ChainInv, FreshInv, PreList
<1>7. /\ \A t \in Entries(stList) : job'[t].s32Handle = job[t].s32Handle
      /\ \A t \in allocated' : ~job'[t].bSubmitted =>
            /\ t \in allocated /\ ~job[t].bSubmitted
            /\ job'[t].s32Handle = job[t].s32Handle
  BY <1>1, <1>3, <1>4
<1> QED BY <1>1, <1>3, <1>5, <1>6, <1>7, ChainClient

(* The steps of the threads that wait.                                     *)
LEMMA ChainWait ==
    ASSUME MemInv, ChainInv, NEW c \in Clients,
           \/ \E h \in Handles : TdeOsiListWaitForDone(c, h)
           \/ TdeOsiListWaitAllDone(c) \/ QueryAll(c) \/ WaitEnds(c)
           \/ WaitAllEnds(c) \/ SignalArrives(c) \/ WaitInterrupted(c)
    PROVE  ChainInv'
<1> USE DEF memVars, listVars, hwVars, taskletVars
<1>1. /\ allocated \subseteq Slots /\ Entries(stList) \subseteq allocated
      /\ GoalInv /\ Listed \subseteq Handles
  BY PlaceFacts DEF MemInv, TypeOK, ListInv, ChainInv
<1>2. PICK place \in {"idle", "wait", "query_all", "wait_all", "interrupted"} :
        /\ pc' = [pc EXCEPT ![c] = place]
        /\ \/ /\ hdl' = hdl /\ goal' = goal
              /\ place \in {"wait_all", "interrupted"}
           \/ \E h \in Handles : /\ hdl' = [hdl EXCEPT ![c] = h]
                                 /\ goal' = goal /\ pc[c] = "idle"
           \/ /\ hdl' = [hdl EXCEPT ![c] = 0]
              /\ goal' = [goal EXCEPT ![c] = {}] /\ pc[c] # "idle"
           \/ /\ hdl' = [hdl EXCEPT ![c] = s32HandleLast] /\ place = "query_all"
              /\ goal' = [goal EXCEPT ![c] = Listed]
        /\ allocated' \subseteq allocated
        /\ UNCHANGED <<owner, stList, s32HandleLast, pstJobToCommit,
                       pstJobFinished, pstJobLast, next, hw, curNode,
                       executed, tpc, tfin, tdel>>
  <2>1. CASE \E h \in Handles : TdeOsiListWaitForDone(c, h)
    BY <2>1 DEF TdeOsiListWaitForDone, CountIn, Goto
  <2>2. CASE TdeOsiListWaitAllDone(c)
    BY <2>2 DEF TdeOsiListWaitAllDone, Goto
  <2>3. CASE QueryAll(c)
    BY <2>3 DEF QueryAll, CountIn, Goto
  <2>4. CASE WaitEnds(c) \/ WaitAllEnds(c) \/ WaitInterrupted(c)
    BY <2>4 DEF WaitEnds, WaitAllEnds, WaitInterrupted, CountOut, DestroyJob,
                Goto
  <2>5. CASE SignalArrives(c)
    <3>1. /\ pc' = pc \/ pc' = [pc EXCEPT ![c] = "interrupted"]
          /\ pc = [pc EXCEPT ![c] = "wait_all"]
      BY <2>5 DEF SignalArrives, Goto, MemInv, PlacesOK
    <3> QED BY <2>5, <3>1 DEF SignalArrives
  <2> QED BY <2>1, <2>2, <2>3, <2>4, <2>5
<1>3. \A t \in Slots : /\ job'[t].bSubmitted <=> job[t].bSubmitted
                       /\ job'[t].s32Handle = job[t].s32Handle
  <2>1. \/ job' = job
        \/ \E s \in Slots, n \in Int :
             job' = [job EXCEPT ![s].u8WaitForDoneCount = n]
    <3>1. \A s \in Slots : job[s].u8WaitForDoneCount \in Int
      BY JobFacts DEF MemInv, U8
    <3>2. \A n \in Int : (n + 1) % U8 \in Int /\ (n - 1) % U8 \in Int
      BY DEF U8
    <3>3. CASE \E h \in Handles : TdeOsiListWaitForDone(c, h)
      <4>1. PICK s \in allocated : CountIn(c, s, "wait")
        BY <3>3 DEF TdeOsiListWaitForDone, query_handle
      <4> QED BY <1>1, <3>1, <3>2, <4>1 DEF CountIn
    <3>4. CASE QueryAll(c)
      <4>1. job' = job \/ \E s \in allocated : CountIn(c, s, "wait_all")
        BY <3>4 DEF QueryAll, query_handle
      <4> QED BY <1>1, <3>1, <3>2, <4>1 DEF CountIn
    <3>5. CASE WaitEnds(c) \/ WaitAllEnds(c) \/ WaitInterrupted(c)
      <4>1. PICK s \in Slots : s = cur[c]
        BY <1>1, <3>5 DEF MemInv, WaitInv, Waiting, WaitEnds, WaitAllEnds,
                          WaitInterrupted
      <4> QED BY <3>1, <3>2, <3>5, <4>1 DEF WaitEnds, WaitAllEnds,
                                            WaitInterrupted, CountOut
    <3> QED BY <3>3, <3>4, <3>5 DEF TdeOsiListWaitAllDone, SignalArrives
  <2> QED BY <2>1, JobFacts DEF MemInv, JobType
<1>4. /\ \A d \in Clients : d # c => pc'[d] = pc[d] /\ hdl'[d] = hdl[d]
      /\ pc'[c] = place
  BY <1>2 DEF MemInv, PlacesOK
<1>5. /\ goal' \in [Clients -> SUBSET Handles]
      /\ \A d \in Clients : d # c => goal'[d] = goal[d]
      /\ goal'[c] # {} =>
           /\ place \in {"query_all", "wait_all", "interrupted"}
           /\ \/ goal'[c] = goal[c] /\ hdl'[c] = hdl[c]
              \/ goal'[c] = Listed /\ hdl'[c] = s32HandleLast
  <2>1. pc[c] = "idle" => goal[c] = {}
    BY <1>1 DEF GoalInv
  <2>2. goal \in [Clients -> SUBSET Handles] /\ hdl \in [Clients -> -1..MaxHandle]
    BY <1>1 DEF GoalInv, MemInv, PlacesOK
  <2> QED BY <1>1, <1>2, <2>1, <2>2
<1>6. \A d \in Clients : pc'[d] \in PreList => hdl'[d] \notin executed
  BY <1>4 DEF ChainInv, FreshInv, PreList
<1>7. \A d \in Clients : goal'[d] # {} =>
          /\ pc'[d] \in {"query_all", "wait_all", "interrupted"}
          /\ \/ goal'[d] = goal[d] /\ hdl'[d] = hdl[d]
             \/ goal'[d] = Listed /\ hdl'[d] = s32HandleLast
  BY <1>1, <1>4, <1>5 DEF GoalInv
<1>8. /\ \A t \in Entries(stList) : job'[t].s32Handle = job[t].s32Handle
      /\ \A t \in allocated' : ~job'[t].bSubmitted =>
            /\ t \in allocated /\ ~job[t].bSubmitted
            /\ job'[t].s32Handle = job[t].s32Handle
  BY <1>1, <1>2, <1>3
<1> QED BY <1>2, <1>5, <1>6, <1>7, <1>8, ChainStep

(* The interrupt handler, and the steps of the tasklet around the list.    *)
LEMMA ChainTasklet ==
    ASSUME MemInv, ChainInv,
           \/ tde_osr_isr \/ TaskletRun \/ tde_tasklet_func \/ NodeCompEmpty
           \/ CallbackReturns \/ UNCHANGED vars
    PROVE  ChainInv'
<1> USE DEF memVars, listVars, hwVars, taskletVars, clientVars
<1>1. /\ UNCHANGED <<allocated, job, owner, stList, s32HandleLast,
                     pstJobToCommit, pstJobFinished, pstJobLast, next, hw,
                     curNode, executed, tfin, tdel, pc, hdl, goal>>
      /\ \/ tpc' \in {"idle", "start", "comp"} \/ tpc' = tpc
         \/ tpc = "callback" /\ tpc' = "notify"
  BY DEF tde_osr_isr, TaskletRun, tde_tasklet_func, NodeCompEmpty,
         CallbackReturns, vars
<1>2. /\ goal' \in [Clients -> SUBSET Handles]
      /\ \A d \in Clients : goal[d] # {} => pc[d] \in {"query_all", "wait_all", "interrupted"}
      /\ \A d \in Clients : pc[d] \in PreList => hdl[d] \notin executed
  BY <1>1 DEF ChainInv, GoalInv, FreshInv
<1> QED BY <1>1, <1>2, ChainStep

LEMMA NextChain ==
    ASSUME NoReset, MemInv, ChainInv, [Next]_vars
    PROVE  ChainInv'
<1>1. ASSUME NEW c \in Clients, Client(c)
      PROVE  ChainInv'
  <2>1. ~ResetHardware(c)
    BY DEF NoReset, ResetHardware
  <2> QED BY <1>1, <2>1, ChainOpen, ChainWait DEF Client
<1>2. ASSUME NEW c \in Clients, Proceed(c)
      PROVE  ChainInv'
  <2>1. ~TdeOsiListReset(c)
    BY DEF NoReset, TdeOsiListReset, MemInv, PlacesOK
  <2> QED BY <1>2, <2>1, ChainSubmitting, ChainSubmit, ChainWait DEF Proceed
<1>3. CASE HwComplete \/ tde_osr_isr \/ CoreDump \/ Tasklet
  <2>1. ~CoreDump
    BY DEF NoReset, CoreDump
  <2> QED BY <1>3, <2>1, ChainHw, ChainTasklet, ChainComp, ChainTake,
             ChainNotify DEF Tasklet
<1>4. CASE UNCHANGED vars
  BY <1>4, ChainTasklet
<1> QED BY <1>1, <1>2, <1>3, <1>4 DEF Next

LEMMA InitChain == Init => ChainInv
<1> SUFFICES ASSUME Init PROVE ChainInv
  OBVIOUS
<1>1. /\ stList = <<>> /\ Len(stList) = 0 /\ owner = <<>> /\ allocated = {}
      /\ pstJobToCommit = NULL /\ hw = 0 /\ curNode = 0 /\ tpc = "idle"
      /\ executed = {} /\ next = [h \in Handles |-> 0]
      /\ goal = [c \in Clients |-> {}]
  BY DEF Init
<1>2. ToCommit = {}
  BY <1>1 DEF ToCommit
<1>3. LinkInv /\ RunInv
  BY <1>1, <1>2 DEF LinkInv, RunInv
<1>4. CurInv /\ FinishInv
  BY <1>1 DEF CurInv, FinishInv
<1>5. FreshInv /\ GoalInv
  BY <1>1 DEF FreshInv, GoalInv
<1> QED BY <1>3, <1>4, <1>5 DEF ChainInv

(* ChainInv holds in every reachable state while nobody resets the engine. *)
THEOREM JobChainInvariance ==
    ASSUME ProperUse, NoReset
    PROVE  Spec => []ChainInv
<1>1. Init => ChainInv
  BY InitChain
<1>2. MemInv /\ ChainInv /\ [Next]_vars => ChainInv'
  BY NextChain
<1> QED BY <1>1, <1>2, JobMemoryInvariance, PTL DEF Spec

(* The hardware never runs into nodes that TdeOsiListNodeComp has freed:   *)
(* the job it runs, and every job its links lead to, is in the list.       *)
THEOREM HardwareStaysOnList ==
    ASSUME ProperUse, NoReset
    PROVE  Spec => []HardwareRunsListed
<1>1. MemInv /\ ChainInv => HardwareRunsListed
  <2> SUFFICES ASSUME MemInv, ChainInv PROVE HardwareRunsListed
    OBVIOUS
  <2>1. hw # 0 => hw \in Listed
    BY PlaceFacts DEF ChainInv, RunInv
  <2>2. ASSUME NEW h \in Listed, next[h] # 0 PROVE next[h] \in Listed
    <3>1. PICK i \in 1..Len(stList) : h = HandleAt(i)
      BY PlaceFacts
    <3>2. i < Len(stList) /\ i + 1 \in 1..Len(stList)
      BY <2>2, <3>1, PlaceFacts DEF ChainInv, LinkInv
    <3>3. next[h] = HandleAt(i + 1)
      BY <2>2, <3>1, <3>2 DEF ChainInv, LinkInv
    <3> QED BY <3>2, <3>3, PlaceFacts
  <2> QED BY <2>1, <2>2 DEF HardwareRunsListed
<1> QED BY <1>1, JobMemoryInvariance, JobChainInvariance, PTL

(* The chain that TdeHalNodeExecute will be given is the end of the list:  *)
(* no submitted job is left out of it, and none is in two chains.          *)
THEOREM ChainFollowsList ==
    ASSUME ProperUse, NoReset
    PROVE  Spec => []ChainIsList
<1>1. MemInv /\ ChainInv => ChainIsList
  <2> SUFFICES ASSUME MemInv, ChainInv PROVE ChainIsList
    OBVIOUS
  <2>1. pstJobToCommit # NULL =>
          ToCommit # {} /\ pstJobLast = stList[Len(stList)]
    BY DEF ChainInv, RunInv
  <2>2. ASSUME NEW i \in 1..Len(stList)
        PROVE  /\ i \in ToCommit =>
                    next[HandleAt(i)] = IF i = Len(stList) THEN 0
                                        ELSE HandleAt(i + 1)
               /\ i \notin ToCommit /\ i + 1 \in ToCommit =>
                    next[HandleAt(i)] = 0
    <3>1. Len(stList) \in Nat /\ (i + 1 \in ToCommit => i < Len(stList))
      BY PlaceFacts, CommitFacts
    <3> QED BY <3>1 DEF ChainInv, LinkInv
  <2> QED BY <2>1, <2>2 DEF ChainIsList, HandleAt
<1> QED BY <1>1, JobMemoryInvariance, JobChainInvariance, PTL

(* What a wait for all was called for changes only when it begins and ends.*)
LEMMA GoalStep ==
    ASSUME MemInv, ChainInv, Next, NEW c \in Clients,
           goal[c] # {}, goal'[c] = {}
    PROVE  \/ QueryAll(c) /\ query_handle(hdl[c]) = {}
           \/ WaitAllEnds(c) \/ WaitInterrupted(c)
<1> USE DEF clientVars
<1>1. /\ pc[c] \in {"query_all", "wait_all", "interrupted"} /\ goal' # goal
      /\ goal \in [Clients -> SUBSET Handles]
  BY DEF ChainInv, GoalInv
<1>2. ASSUME NEW d \in Clients, d # c, NEW G, goal' = [goal EXCEPT ![d] = G]
      PROVE  FALSE
  BY <1>1, <1>2
<1>3. ASSUME NEW d \in Clients, Client(d)
      PROVE  FALSE
  <2>1. CASE SignalArrives(d)
    BY <1>1, <2>1 DEF SignalArrives
  <2>2. CASE TdeOsiListWaitAllDone(d)
    BY <1>1, <1>2, <2>2 DEF TdeOsiListWaitAllDone
  <2>3. ASSUME NEW h \in Handles,
               \/ TdeOsiSetNodeFinish(d, h) \/ TdeOsiListCancelJob(d, h)
               \/ SubmitTest(d, h) \/ TdeOsiListWaitForDone(d, h)
        PROVE  FALSE
    BY <1>1, <2>3 DEF TdeOsiSetNodeFinish, TdeOsiListCancelJob, SubmitTest,
                      TdeOsiListWaitForDone
  <2>4. CASE TdeOsiListBeginJob(d) \/ ResetHardware(d)
    BY <1>1, <2>4 DEF TdeOsiListBeginJob, ResetHardware
  <2> QED BY <1>3, <2>1, <2>2, <2>3, <2>4 DEF Client
<1>4. ASSUME NEW d \in Clients, Proceed(d)
      PROVE  \/ QueryAll(c) /\ query_handle(hdl[c]) = {}
             \/ WaitAllEnds(c) \/ WaitInterrupted(c)
  <2>1. CASE QueryAll(d)
    BY <1>1, <1>2, <2>1 DEF QueryAll
  <2>2. CASE WaitEnds(d) \/ WaitAllEnds(d) \/ WaitInterrupted(d)
    <3>1. d = c
      BY <1>2, <2>2 DEF WaitEnds, WaitAllEnds, WaitInterrupted, CountOut
    <3> QED BY <1>1, <2>2, <3>1 DEF WaitEnds
  <2>3. CASE \/ \E mode \in Modes : SubmitMark(d, mode)
             \/ TDE_FENCE_Create(d) \/ FenceStore(d) \/ SubmitJob(d)
             \/ SubmitWake(d) \/ TdeOsiListReset(d)
    BY <1>1, <2>3 DEF SubmitMark, TDE_FENCE_Create, FenceStore, SubmitJob,
                      SubmitWake, TdeOsiListReset
  <2> QED BY <1>4, <2>1, <2>2, <2>3 DEF Proceed
<1>5. CASE HwComplete \/ tde_osr_isr \/ CoreDump \/ Tasklet
  BY <1>1, <1>5 DEF HwComplete, tde_osr_isr, CoreDump, Tasklet, TaskletRun,
                    tde_tasklet_func, TdeOsiListNodeComp, NodeCompTake,
                    NodeCompEmpty, CallbackReturns, NodeCompNotify
<1> QED BY <1>3, <1>4, <1>5 DEF Next

(* To wait for the last job is to wait for all: when TdeOsiListWaitAllDone *)
(* comes back with success, woken or because the last job is released, the *)
(* hardware has run every job that was in the list when it was called,     *)
(* jobs submitted meanwhile notwithstanding.                               *)
THEOREM WaitAllWaitsForAll ==
    ASSUME ProperUse, NoReset
    PROVE  Spec => WaitAllMeansDone
<1> DEFINE Done == \A c \in Clients :
                     goal[c] # {} /\ goal'[c] = {} /\ pc[c] # "interrupted" =>
                         goal[c] \subseteq executed' \cup gone'
<1>1. MemInv /\ ChainInv /\ [Next]_vars => [Done]_vars
  <2> SUFFICES ASSUME MemInv, ChainInv, Next, NEW c \in Clients,
                      goal[c] # {}, goal'[c] = {}, pc[c] # "interrupted",
                      NEW h \in goal[c]
               PROVE  h \in executed'
    OBVIOUS
  <2>1. (QueryAll(c) /\ query_handle(hdl[c]) = {}) \/ WaitAllEnds(c)
    BY GoalStep DEF WaitInterrupted
  <2>2. executed' = executed
    BY <2>1 DEF QueryAll, WaitAllEnds, CountOut, hwVars
  <2>3. ASSUME h \notin executed PROVE FALSE
    <3>1. PICK j \in 1..Len(stList) : HandleAt(j) = hdl[c]
      BY <2>3 DEF ChainInv, GoalInv
    <3>2. stList[j] \in query_handle(hdl[c])
      BY <3>1, PlaceFacts DEF query_handle, HandleAt
    <3>3. CASE WaitAllEnds(c)
      <4>1. /\ cur[c] \in Slots /\ job[cur[c]].s32Handle = hdl[c]
            /\ job[cur[c]].enNotiType = "BUTT"
        BY <3>3 DEF WaitAllEnds, MemInv, TypeOK, WaitInv, Waiting
      <4>2. cur[c] = stList[j] /\ stList[j] \in Entries(stList)
        BY <3>1, <4>1, PlaceFacts
      <4> QED BY <4>1, <4>2 DEF MemInv, ListInv
    <3> QED BY <2>1, <3>2, <3>3
  <2> QED BY <2>2, <2>3
<1> QED BY <1>1, JobMemoryInvariance, JobChainInvariance, PTL
        DEF Spec, WaitAllMeansDone
===============================================================================
