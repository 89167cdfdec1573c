---------------------------- MODULE OmxDeviceProofs ---------------------------
(***************************************************************************)
(* The safety properties of OmxDevice for any number of files and any      *)
(* finite set of contexts.  DevInv is the inductive invariant: it says for *)
(* every place of channel_create_inst and channel_release_inst what the    *)
(* context has acquired there, and that a context no thread works on is    *)
(* complete.                                                               *)
(***************************************************************************)
EXTENDS OmxDevice, KernelListProofs, FiniteSetTheorems

(* The places in which a thread works on a context.                        *)
Creating == {"add_record", "create_msg", "create_dec", "create_proc",
             "create_mem", "create_idle", "cleanup4", "cleanup3", "cleanup2",
             "cleanup1", "cleanup0"}
Releasing == {"rel_stop", "rel_proc", "rel_dec", "rel_mem", "rel_msg",
              "rel_invalid"}
Busy == Creating \cup Releasing

(* What the context has acquired in each of them.                          *)
Holds(place) ==
    CASE place \in {"create_idle", "rel_stop", "rel_proc"} -> Resources
      [] place \in {"create_mem", "cleanup4"} ->
            {"msg_queue", "decoder", "processor"}
      [] place \in {"create_proc", "cleanup3"} -> {"msg_queue", "decoder"}
      [] place \in {"create_dec", "cleanup2", "rel_msg"} -> {"msg_queue"}
      [] place = "rel_dec" -> {"msg_queue", "decoder", "extra"}
      [] place = "rel_mem" -> {"msg_queue", "extra"}
      [] OTHER -> {}

(* A thread that works on a context owns it; the context is listed from    *)
(* channel_add_chan_record to channel_delete_chan_record, and its state    *)
(* says which of the two functions the thread is in.                       *)
ThreadOK(f) ==
    /\ pc[f] \in Busy =>
         /\ cur[f] \in allocated /\ file_dec[cur[f]] = f
         /\ res[cur[f]] = Holds(pc[f])
         /\ cur[f] \in Entries(chan_list)
              <=> pc[f] \notin {"add_record", "cleanup0"}
         /\ state[cur[f]] = "INVALID" <=> pc[f] \in Creating
         /\ state[cur[f]] = "WORK" => pc[f] = "rel_stop"
    /\ pc[f] \notin Busy => cur[f] = HI_NULL

(* A context that no thread works on is complete, or it is free memory.    *)
ContextOK(c) ==
    /\ c \in allocated /\ (\A f \in Fds : cur[f] # c) =>
         /\ c \in Entries(chan_list) /\ res[c] = Resources
         /\ state[c] # "INVALID"
    /\ c \notin allocated =>
         /\ c \notin Entries(chan_list) /\ res[c] = {}
         /\ state[c] = "INVALID"

(* A callback is made by an engine that its channel still has, so that the *)
(* engine cannot be destroyed meanwhile.                                   *)
CallbackOK ==
    cbpc # "idle" =>
        /\ cbchan = cbown /\ cbown \in allocated /\ cbsrc \in res[cbown]
        /\ cbpc = "use" => "extra" \in res[cbown]

DevInv ==
    /\ TypeOK
    /\ \A f \in Fds : ThreadOK(f)
    /\ \A c \in Ctxs : ContextOK(c)
    /\ UniqueIds
    /\ CallbackOK

-------------------------------------------------------------------------------
(* An initial segment of the naturals that is a subset of a finite set has *)
(* a first number outside: the existence of a least element, by counting.  *)
LEMMA LeastOutside ==
    ASSUME NEW L, IsFiniteSet(L), NEW k \in Nat, Cardinality(L) <= k
    PROVE  \E i \in 0..k : i \notin L /\ \A j \in 0..(i - 1) : j \in L
<1> DEFINE S == {i \in 0..k : \A j \in 0..(i - 1) : j \in L}
           m == Cardinality(S)
<1>1. IsFiniteSet(S) /\ m \in Nat
  <2>1. IsFiniteSet(0..k)
    BY FS_Interval
  <2> QED BY <2>1, FS_Subset, FS_CardinalityType
<1>2. S \subseteq 0..(m - 1)
  <2> SUFFICES ASSUME NEW i \in S PROVE i \in 0..(m - 1)
    OBVIOUS
  <2>1. 0..i \subseteq S
    OBVIOUS
  <2>2. i \in Nat
    OBVIOUS
  <2>3. Cardinality(0..i) <= m
    BY <1>1, <2>1, FS_Subset
  <2>4. Cardinality(0..i) = i + 1
    BY <2>2, FS_Interval
  <2> HIDE DEF S, m
  <2> QED BY <1>1, <2>2, <2>3, <2>4
<1>3. S = 0..(m - 1)
  <2>1. IsFiniteSet(0..(m - 1)) /\ Cardinality(0..(m - 1)) = m
    <3>1. 0 \in Int /\ m - 1 \in Int
      BY <1>1
    <3>2. /\ IsFiniteSet(0..(m - 1))
          /\ Cardinality(0..(m - 1)) = IF 0 > m - 1 THEN 0 ELSE (m - 1) - 0 + 1
      BY <3>1, FS_Interval
    <3> HIDE DEF m
    <3> QED BY <3>2, <1>1
  <2> HIDE DEF S
  <2> QED BY <1>2, <2>1, FS_Subset
<1>4. m - 1 \in S /\ m - 1 \in 0..k
  <2>1. 0 \in S
    OBVIOUS
  <2> HIDE DEF S, m
  <2>2. m # 0
    BY <1>1, <1>3, <2>1
  <2>3. m - 1 \in 0..(m - 1)
    BY <1>1, <2>2
  <2>4. m - 1 \in S
    BY <1>3, <2>3
  <2> QED BY <2>4 DEF S
<1>5. m - 1 \notin L
  <2> SUFFICES ASSUME m - 1 \in L PROVE FALSE
    OBVIOUS
  <2>1. \A j \in 0..(m - 1) : j \in L
    BY <1>1, <1>4
  <2>2. CASE m <= k
    <3>1. m \in S
      BY <1>1, <2>1, <2>2
    <3> HIDE DEF S, m
    <3> QED BY <1>1, <1>3, <3>1
  <2>3. CASE m = k + 1
    <3>1. 0..k \subseteq L
      BY <2>1, <2>3
    <3>2. Cardinality(0..k) <= Cardinality(L) /\ Cardinality(0..k) = k + 1
      BY <3>1, FS_Subset, FS_Interval
    <3>3. Cardinality(L) \in Nat
      BY FS_CardinalityType
    <3> QED BY <3>2, <3>3
  <2> QED BY <1>1, <1>4, <2>2, <2>3
<1> QED BY <1>4, <1>5

(* The entries of a list are finitely many, at most as many as its length. *)
LEMMA FiniteEntries ==
    ASSUME NEW S, NEW q \in Seq(S)
    PROVE  IsFiniteSet(Entries(q)) /\ Cardinality(Entries(q)) <= Len(q)
<1>1. Len(q) \in Nat /\ q \in [1..Len(q) -> S]
  OBVIOUS
<1>2. q \in Surjection(1..Len(q), Entries(q))
  BY <1>1 DEF Surjection, Entries
<1>3. IsFiniteSet(1..Len(q)) /\ Cardinality(1..Len(q)) = Len(q)
  BY <1>1, FS_Interval
<1> QED BY <1>2, <1>3, FS_Surjection

(* What the search of channel_add_chan_record finds while the context that *)
(* asks for an id is not yet listed.                                       *)
LEMMA FreeIdFacts ==
    ASSUME TypeOK, NEW x \in Ctxs, x \notin Entries(chan_list)
    PROVE  /\ FreeId \in Nat /\ FreeId \notin ListedIds
           /\ FreeId < Cardinality(Ctxs)
<1> DEFINE E == Entries(chan_list)
<1>1. chan_list \in Seq(Ctxs) /\ Len(chan_list) \in Nat
  BY DEF TypeOK
<1>2. E \subseteq Ctxs
  BY <1>1 DEF Entries
<1>3. IsFiniteSet(E) /\ Cardinality(E) <= Len(chan_list)
  BY <1>1, FiniteEntries
<1>4. [c \in E |-> channel_id[c]] \in Surjection(E, ListedIds)
  BY DEF Surjection, ListedIds
<1>5. IsFiniteSet(ListedIds) /\ Cardinality(ListedIds) <= Cardinality(E)
  BY <1>3, <1>4, FS_Surjection
<1>6. /\ Cardinality(E) \in Nat /\ Cardinality(ListedIds) \in Nat
      /\ Cardinality(Ctxs) \in Nat
  BY <1>3, <1>5, DeviceAssumption, FS_CardinalityType
<1>7. \E i \in 0..Len(chan_list) :
        i \notin ListedIds /\ \A j \in 0..(i - 1) : j \in ListedIds
  <2>1. Cardinality(ListedIds) <= Len(chan_list)
    BY <1>1, <1>3, <1>5, <1>6
  <2> HIDE DEF E
  <2> QED BY <1>1, <1>5, <2>1, LeastOutside
<1>8. /\ FreeId \in 0..Len(chan_list) /\ FreeId \notin ListedIds
      /\ \A j \in 0..(FreeId - 1) : j \in ListedIds
  BY <1>7 DEF FreeId
<1>9. Cardinality(E) < Cardinality(Ctxs)
  <2>1. Cardinality(E) <= Cardinality(Ctxs)
    BY <1>2, DeviceAssumption, FS_Subset
  <2>2. Cardinality(E) # Cardinality(Ctxs)
    BY <1>2, DeviceAssumption, FS_Subset
  <2> QED BY <1>6, <2>1, <2>2
<1>10. FreeId <= Cardinality(ListedIds)
  <2>1. 0..(FreeId - 1) \subseteq ListedIds
    BY <1>8
  <2>2. Cardinality(0..(FreeId - 1)) <= Cardinality(ListedIds)
    BY <1>5, <2>1, FS_Subset
  <2>3. FreeId \in Nat
    BY <1>1, <1>8
  <2>4. Cardinality(0..(FreeId - 1))
          = IF 0 > FreeId - 1 THEN 0 ELSE (FreeId - 1) - 0 + 1
    BY <2>3, FS_Interval
  <2> QED BY <1>6, <2>2, <2>3, <2>4
<1> HIDE DEF E
<1> QED BY <1>1, <1>5, <1>6, <1>8, <1>9, <1>10

-------------------------------------------------------------------------------
(* The facts about types that the steps use.                               *)
LEMMA PlaceFacts ==
    /\ Busy \subseteq Places
    /\ \A q \in Places : Holds(q) \in SUBSET Resources
BY DEF Busy, Creating, Releasing, Places, Holds, Resources, Engines

(* A context belongs to one thread at a time: no other thread works on the *)
(* context of a file, or on free memory.                                   *)
LEMMA NoOtherOwner ==
    ASSUME DevInv, NEW f \in Fds, NEW c \in Ctxs,
           file_dec[c] = f \/ c \notin allocated,
           NEW g \in Fds, g # f
    PROVE  cur[g] # c
<1>1. ThreadOK(g) /\ c # HI_NULL
  BY DeviceAssumption DEF DevInv
<1> QED BY <1>1 DEF ThreadOK

(* A step of f that concerns the context c only: what the invariant says   *)
(* of the other threads and contexts still holds.                          *)
LEMMA OneContext ==
    ASSUME DevInv, NEW f \in Fds, NEW c \in Ctxs,
           \A g \in Fds \ {f} : /\ pc'[g] = pc[g] /\ cur'[g] = cur[g]
                                /\ cur[g] # c,
           cur[f] \in {c, HI_NULL}, cur'[f] \in {c, HI_NULL},
           \A d \in Ctxs \ {c} :
             /\ res'[d] = res[d] /\ state'[d] = state[d]
             /\ file_dec'[d] = file_dec[d]
             /\ d \in allocated' <=> d \in allocated
             /\ d \in Entries(chan_list)' <=> d \in Entries(chan_list),
           ThreadOK(f)', ContextOK(c)'
    PROVE  (\A g \in Fds : ThreadOK(g)') /\ (\A d \in Ctxs : ContextOK(d)')
<1>1. ASSUME NEW g \in Fds, g # f PROVE ThreadOK(g)'
  <2>1. ThreadOK(g)
    BY DEF DevInv
  <2>2. /\ pc'[g] = pc[g] /\ cur'[g] = cur[g] /\ cur[g] # c
        /\ cur[g] \in Ctxs \cup {HI_NULL}
    BY <1>1 DEF DevInv, TypeOK
  <2>3. CASE pc[g] \in Busy
    <3>1. cur[g] \in Ctxs \ {c}
      BY <2>1, <2>2, <2>3 DEF ThreadOK, DevInv, TypeOK
    <3> QED BY <2>1, <2>2, <2>3, <3>1 DEF ThreadOK
  <2>4. CASE pc[g] \notin Busy
    BY <2>1, <2>2, <2>4 DEF ThreadOK
  <2> QED BY <2>3, <2>4
<1>2. ASSUME NEW d \in Ctxs, d # c PROVE ContextOK(d)'
  <2>1. ContextOK(d)
    BY DEF DevInv
  <2>2. d # HI_NULL
    BY DeviceAssumption
  <2>3. (\A g \in Fds : cur'[g] # d) => (\A g \in Fds : cur[g] # d)
    BY <1>2, <2>2
  <2> QED BY <1>2, <2>1, <2>3 DEF ContextOK
<1> QED BY <1>1, <1>2

(* A step between two places in which the thread works on no context.      *)
LEMMA Outside ==
    ASSUME DevInv, NEW f \in Fds, pc[f] \notin Busy,
           NEW q \in Places \ Busy, Goto(f, q),
           UNCHANGED <<channelVars, cur, callbackVars>>, TypeOK'
    PROVE  DevInv'
<1>1. ASSUME NEW g \in Fds PROVE ThreadOK(g)'
  <2>1. ThreadOK(g) /\ pc \in [Fds -> Places]
    BY DEF DevInv, TypeOK
  <2>2. pc'[g] = IF g = f THEN q ELSE pc[g]
    BY <2>1 DEF Goto
  <2> QED BY <2>1, <2>2 DEF ThreadOK, channelVars
<1>2. ASSUME NEW c \in Ctxs PROVE ContextOK(c)'
  <2>1. ContextOK(c)
    BY DEF DevInv
  <2> QED BY <2>1 DEF ContextOK, channelVars
<1>3. UniqueIds' /\ CallbackOK'
  BY DEF DevInv, UniqueIds, CallbackOK, channelVars, callbackVars
<1> QED BY <1>1, <1>2, <1>3 DEF DevInv

(* A step of channel_create_inst or channel_release_inst while the context *)
(* is listed: it acquires or gives up something, or changes the state.     *)
LEMMA Working ==
    ASSUME DevInv, NEW f \in Fds, NEW q \in Busy \ {"add_record", "cleanup0"},
           pc[f] \in Busy \ {"add_record", "cleanup0"}, Goto(f, q),
           UNCHANGED <<open_count, inited, chan_list, allocated, channel_id, file_dec,
                       cur, n, after, tmp, callbackVars>>,
           lost' \subseteq Resources \X Places,
           res' \in [Ctxs -> SUBSET Resources], res'[cur[f]] = Holds(q),
           \A d \in Ctxs \ {cur[f]} : res'[d] = res[d],
           state' \in [Ctxs -> {"INVALID", "IDLE", "WORK"}],
           state'[cur[f]] = (IF q \in Creating THEN "INVALID" ELSE "IDLE"),
           \A d \in Ctxs \ {cur[f]} : state'[d] = state[d],
           cbpc # "idle" /\ cbown = cur[f] =>
             /\ cbsrc \in Holds(q)
             /\ cbpc = "use" => "extra" \in Holds(q)
    PROVE  DevInv'
<1>0. PICK c \in Ctxs : c = cur[f]
  BY DEF DevInv, ThreadOK, TypeOK
<1>1. /\ TypeOK /\ ThreadOK(f)
      /\ c \in allocated /\ file_dec[c] = f
      /\ c \in Entries(chan_list)
  BY <1>0 DEF DevInv, ThreadOK, TypeOK
<1>2. /\ pc' \in [Fds -> Places] /\ pc'[f] = q
      /\ \A g \in Fds \ {f} : pc'[g] = pc[g]
  BY <1>1, PlaceFacts DEF Goto, TypeOK
<1>3. TypeOK'
  BY <1>1, <1>2 DEF TypeOK, callbackVars
<1>4. ThreadOK(f)'
  BY <1>0, <1>1, <1>2 DEF ThreadOK, Creating, Busy, Releasing
<1>5. ContextOK(c)'
  BY <1>0, <1>1 DEF ContextOK
<1>6. \A g \in Fds \ {f} : cur[g] # c
  BY <1>1, NoOtherOwner
<1>7. (\A g \in Fds : ThreadOK(g)') /\ (\A d \in Ctxs : ContextOK(d)')
  <2>1. cur[f] \in {c, HI_NULL} /\ cur'[f] \in {c, HI_NULL}
    BY <1>0
  <2>2. \A d \in Ctxs \ {c} :
             /\ res'[d] = res[d] /\ state'[d] = state[d]
             /\ file_dec'[d] = file_dec[d]
             /\ d \in allocated' <=> d \in allocated
             /\ d \in Entries(chan_list)' <=> d \in Entries(chan_list)
    BY <1>0
  <2>3. \A g \in Fds \ {f} : pc'[g] = pc[g] /\ cur'[g] = cur[g] /\ cur[g] # c
    BY <1>2, <1>6
  <2> QED BY <1>1, <1>4, <1>5, <2>1, <2>2, <2>3, OneContext
<1>8. UniqueIds'
  BY DEF DevInv, UniqueIds
<1>9. CallbackOK'
  <2>1. cbown = c \/ cbpc = "idle" \/ res'[cbown] = res[cbown]
    BY <1>0 DEF DevInv, CallbackOK, TypeOK
  <2> QED BY <1>0, <2>1 DEF DevInv, CallbackOK, callbackVars
<1> QED BY <1>3, <1>7, <1>8, <1>9 DEF DevInv

(* A step that changes only the state or the thread of a complete context  *)
(* c that no thread works on: start and stop, and the beginning of a       *)
(* release.                                                                *)
LEMMA CompleteContext ==
    ASSUME DevInv, NEW f \in Fds, pc[f] \notin Busy,
           NEW c \in Ctxs, c \in Entries(chan_list), file_dec[c] = f
    PROVE  /\ cur[f] = HI_NULL /\ \A g \in Fds : cur[g] # c
           /\ c \in allocated /\ res[c] = Resources /\ state[c] # "INVALID"
<1>1. cur[f] = HI_NULL /\ c # HI_NULL
  BY DeviceAssumption DEF DevInv, ThreadOK
<1>2. \A g \in Fds : cur[g] # c
  BY <1>1, NoOtherOwner
<1> QED BY <1>1, <1>2 DEF DevInv, ContextOK

(* The beginning of a release, by the client or by the walk of             *)
(* omxvdec_release.                                                        *)
LEMMA TakeContext ==
    ASSUME DevInv, NEW f \in Fds, pc[f] \notin Busy,
           NEW c \in Ctxs, c \in Entries(chan_list), file_dec[c] = f,
           cur' = [cur EXCEPT ![f] = c], Goto(f, "rel_stop"),
           UNCHANGED <<deviceVars, channelVars, tmp, callbackVars>>,
           n' \in [Fds -> Ctxs \cup {HI_NULL}],
           after' \in [Fds -> {"ready", "close_walk"}]
    PROVE  DevInv'
<1>1. /\ cur[f] = HI_NULL /\ \A g \in Fds : cur[g] # c
      /\ c \in allocated /\ res[c] = Resources /\ state[c] # "INVALID"
  BY CompleteContext
<1>2. /\ TypeOK
      /\ pc' \in [Fds -> Places] /\ pc'[f] = "rel_stop"
      /\ \A g \in Fds \ {f} : pc'[g] = pc[g]
      /\ cur' \in [Fds -> Ctxs \cup {HI_NULL}] /\ cur'[f] = c
      /\ \A g \in Fds \ {f} : cur'[g] = cur[g]
  BY DEF DevInv, TypeOK, Goto, Places
<1>3. TypeOK'
  BY <1>2 DEF TypeOK, deviceVars, channelVars, callbackVars
<1>4. ThreadOK(f)'
  BY <1>1, <1>2 DEF ThreadOK, channelVars, Busy, Creating, Releasing, Holds
<1>5. ContextOK(c)'
  BY <1>1, <1>2 DEF ContextOK, channelVars
<1>6. (\A g \in Fds : ThreadOK(g)') /\ (\A d \in Ctxs : ContextOK(d)')
  <2>1. \A d \in Ctxs \ {c} :
             /\ res'[d] = res[d] /\ state'[d] = state[d]
             /\ file_dec'[d] = file_dec[d]
             /\ d \in allocated' <=> d \in allocated
             /\ d \in Entries(chan_list)' <=> d \in Entries(chan_list)
    BY DEF channelVars
  <2>2. \A g \in Fds \ {f} : pc'[g] = pc[g] /\ cur'[g] = cur[g] /\ cur[g] # c
    BY <1>1, <1>2
  <2> QED BY <1>1, <1>2, <1>4, <1>5, <2>1, <2>2, OneContext
<1>7. UniqueIds' /\ CallbackOK'
  BY DEF DevInv, UniqueIds, CallbackOK, channelVars, callbackVars
<1> QED BY <1>3, <1>6, <1>7 DEF DevInv

-------------------------------------------------------------------------------
LEMMA InitInv == Init => DevInv
<1> SUFFICES ASSUME Init PROVE DevInv
  OBVIOUS
<1>1. TypeOK
  <2>1. chan_list \in Seq(Ctxs)
    BY DEF Init
  <2>2. 0 \in 0..(CountMod - 1)
    BY DeviceAssumption
  <2> QED BY <2>1, <2>2 DEF Init, TypeOK, Places, Resources, Engines
<1>2. Entries(chan_list) = {} /\ Len(chan_list) = 0
  BY DEF Init, Entries
<1>3. UniqueIds
  BY <1>2 DEF UniqueIds, LinkedOnce
<1>4. \A f \in Fds : ThreadOK(f)
  BY DEF Init, ThreadOK, Busy, Creating, Releasing
<1>5. \A c \in Ctxs : ContextOK(c)
  BY <1>2 DEF Init, ContextOK
<1> QED BY <1>1, <1>3, <1>4, <1>5 DEF DevInv, CallbackOK, Init

-------------------------------------------------------------------------------
(* Opening and closing.                                                    *)

LEMMA OpenCloseInv ==
    ASSUME DevInv, NEW f \in Fds,
           \/ omxvdec_open(f) \/ OpenInit(f) \/ OpenFailRead(f)
           \/ OpenFailWrite(f) \/ CloseWalkFreed(f) \/ CloseCount(f)
           \/ CloseTest(f) \/ channel_exit(f)
    PROVE  DevInv'
<1> DEFINE Quiet == {"closed", "open_init", "open_fail", "open_uncount",
                     "ready", "close_walk", "close_count", "close_test",
                     "close_exit", "oops"}
<1>1. TypeOK /\ Quiet \subseteq Places \ Busy
  BY DEF DevInv, Places, Busy, Creating, Releasing
<1>2. pc[f] \in Quiet /\ UNCHANGED <<channelVars, cur, callbackVars>>
  BY DEF omxvdec_open, OpenInit, OpenFailRead, OpenFailWrite,
         CloseWalkFreed, CloseCount, CloseTest, channel_exit
<1>3. \E q \in Quiet : Goto(f, q)
  BY DEF omxvdec_open, OpenInit, OpenFailRead, OpenFailWrite,
         CloseWalkFreed, CloseCount, CloseTest, channel_exit
<1>4. PICK q \in Places \ Busy : Goto(f, q)
  BY <1>1, <1>3
<1>5. pc' \in [Fds -> Places]
  BY <1>1, <1>4 DEF Goto, TypeOK
<1>6. n' \in [Fds -> Ctxs \cup {HI_NULL}]
      /\ after' \in [Fds -> {"ready", "close_walk"}] /\ inited' \in BOOLEAN
      /\ lost' \subseteq Resources \X Places
  BY <1>1 DEF TypeOK, deviceVars, omxvdec_open, OpenInit, OpenFailRead,
         OpenFailWrite, CloseWalkFreed, CloseCount, CloseTest, channel_exit
<1>7. open_count' \in 0..(CountMod - 1) /\ tmp' \in [Fds -> 0..(CountMod - 1)]
  <2>1. /\ open_count \in 0..(CountMod - 1) /\ tmp \in [Fds -> 0..(CountMod - 1)]
        /\ MAX_OPEN_COUNT \in Nat /\ CountMod \in Nat
        /\ MAX_OPEN_COUNT < CountMod
    BY <1>1, DeviceAssumption DEF TypeOK
  <2>2. CASE omxvdec_open(f)
    BY <2>1, <2>2 DEF omxvdec_open
  <2>3. CASE OpenFailRead(f)
    BY <2>1, <2>3 DEF OpenFailRead, deviceVars
  <2>4. CASE OpenFailWrite(f)
    <3>1. /\ open_count' = (tmp[f] - 1) % CountMod
          /\ tmp' = [tmp EXCEPT ![f] = 0]
      BY <2>4 DEF OpenFailWrite
    <3>2. tmp[f] - 1 \in Int /\ CountMod > 0
      BY <2>1
    <3>3. (tmp[f] - 1) % CountMod \in 0..(CountMod - 1)
      BY <2>1, <3>2
    <3> QED BY <2>1, <3>1, <3>3
  <2>5. CASE CloseCount(f)
    BY <2>1, <2>5 DEF CloseCount
  <2>6. CASE OpenInit(f) \/ CloseWalkFreed(f) \/ CloseTest(f) \/ channel_exit(f)
    BY <2>1, <2>6 DEF OpenInit, CloseWalkFreed, CloseTest, channel_exit,
                      deviceVars
  <2> QED BY <2>2, <2>3, <2>4, <2>5, <2>6
<1>8. TypeOK'
  BY <1>1, <1>2, <1>5, <1>6, <1>7 DEF TypeOK, channelVars, callbackVars
<1> HIDE DEF Quiet
<1> QED BY <1>1, <1>2, <1>4, <1>8, Outside

(* The walk of omxvdec_release: it ends, or it takes the next channel.     *)
LEMMA WalkInv ==
    ASSUME DevInv, NEW f \in Fds, pc[f] \in {"ready", "close_walk"},
           NEW p, Walk(f, p),
           UNCHANGED <<deviceVars, channelVars, tmp, callbackVars>>
    PROVE  DevInv'
<1>1. TypeOK /\ pc[f] \notin Busy
  BY DEF DevInv, Busy, Creating, Releasing
<1>2. CASE /\ n' = [n EXCEPT ![f] = HI_NULL] /\ Goto(f, "close_count")
           /\ UNCHANGED <<cur, after>>
  <2>1. "close_count" \in Places \ Busy
    BY DEF Places, Busy, Creating, Releasing
  <2>2. TypeOK'
    BY <1>1, <1>2, <2>1
       DEF TypeOK, Goto, channelVars, callbackVars, deviceVars
  <2> QED BY <1>1, <1>2, <2>1, <2>2, Outside
<1>3. ASSUME NEW i \in 1..Len(chan_list),
             file_dec[chan_list[i]] = f,
             cur' = [cur EXCEPT ![f] = chan_list[i]],
             n' = [n EXCEPT ![f] = IF i < Len(chan_list)
                                   THEN chan_list[i + 1] ELSE HI_NULL],
             after' = [after EXCEPT ![f] = "close_walk"],
             Goto(f, "rel_stop")
      PROVE  DevInv'
  <2>1. chan_list \in Seq(Ctxs) /\ Len(chan_list) \in Nat
    BY <1>1 DEF TypeOK
  <2>2. chan_list[i] \in Ctxs /\ chan_list[i] \in Entries(chan_list)
    BY <2>1 DEF Entries
  <2>3. i < Len(chan_list) => chan_list[i + 1] \in Ctxs
    BY <2>1
  <2>4. n' \in [Fds -> Ctxs \cup {HI_NULL}]
        /\ after' \in [Fds -> {"ready", "close_walk"}]
    BY <1>1, <1>3, <2>3 DEF TypeOK
  <2>5. PICK c \in Ctxs : c = chan_list[i]
    BY <2>2
  <2> QED BY <1>1, <1>3, <2>2, <2>4, <2>5, TakeContext
<1> QED BY <1>2, <1>3 DEF Walk

LEMMA ReleaseWalkInv ==
    ASSUME DevInv, NEW f \in Fds, omxvdec_release(f) \/ CloseWalk(f)
    PROVE  DevInv'
BY WalkInv DEF omxvdec_release, CloseWalk

-------------------------------------------------------------------------------
(* channel_create_inst.                                                    *)

LEMMA CreateInv ==
    ASSUME DevInv, NEW f \in Fds, channel_create_inst(f)
    PROVE  DevInv'
<1>1. PICK c \in Ctxs \ allocated :
        /\ allocated' = allocated \cup {c}
        /\ file_dec' = [file_dec EXCEPT ![c] = f]
        /\ cur' = [cur EXCEPT ![f] = c]
  BY DEF channel_create_inst
<1>2. /\ TypeOK /\ pc[f] = "ready" /\ Goto(f, "add_record")
      /\ UNCHANGED <<deviceVars, chan_list, channel_id, state, res, n, after,
                     tmp, callbackVars>>
  BY DEF channel_create_inst, DevInv
<1>3. /\ pc' \in [Fds -> Places] /\ pc'[f] = "add_record"
      /\ \A g \in Fds \ {f} : pc'[g] = pc[g]
      /\ cur' \in [Fds -> Ctxs \cup {HI_NULL}] /\ cur'[f] = c
      /\ \A g \in Fds \ {f} : cur'[g] = cur[g]
      /\ file_dec' \in [Ctxs -> Fds \cup {HI_NULL}] /\ file_dec'[c] = f
      /\ \A d \in Ctxs \ {c} : file_dec'[d] = file_dec[d]
  BY <1>1, <1>2 DEF TypeOK, Goto, Places
<1>4. TypeOK'
  BY <1>1, <1>2, <1>3 DEF TypeOK, deviceVars, callbackVars
<1>5. cur[f] = HI_NULL
  BY <1>2 DEF DevInv, ThreadOK, Busy, Creating, Releasing
<1>6. /\ c \notin Entries(chan_list) /\ res[c] = {} /\ state[c] = "INVALID"
  BY <1>1 DEF DevInv, ContextOK
<1>7. ThreadOK(f)'
  BY <1>1, <1>2, <1>3, <1>6
     DEF ThreadOK, Busy, Creating, Releasing, Holds
<1>8. ContextOK(c)'
  BY <1>1, <1>3 DEF ContextOK
<1>9. (\A g \in Fds : ThreadOK(g)') /\ (\A d \in Ctxs : ContextOK(d)')
  <2>1. \A d \in Ctxs \ {c} :
             /\ res'[d] = res[d] /\ state'[d] = state[d]
             /\ file_dec'[d] = file_dec[d]
             /\ d \in allocated' <=> d \in allocated
             /\ d \in Entries(chan_list)' <=> d \in Entries(chan_list)
    BY <1>1, <1>2, <1>3
  <2>2. \A g \in Fds \ {f} : pc'[g] = pc[g] /\ cur'[g] = cur[g] /\ cur[g] # c
    BY <1>3, NoOtherOwner
  <2> QED BY <1>3, <1>5, <1>7, <1>8, <2>1, <2>2, OneContext
<1>10. UniqueIds' /\ CallbackOK'
  BY <1>1, <1>2 DEF DevInv, UniqueIds, CallbackOK, callbackVars
<1> QED BY <1>4, <1>9, <1>10 DEF DevInv

(* The new id is free and in range because the new context is not listed.  *)
LEMMA AddRecordInv ==
    ASSUME DevInv, NEW f \in Fds, channel_add_chan_record(f)
    PROVE  DevInv'
<1>1. /\ TypeOK /\ pc[f] = "add_record" /\ Goto(f, "create_msg")
      /\ channel_id' = [channel_id EXCEPT ![cur[f]] = FreeId]
      /\ chan_list' = list_add_tail(cur[f], chan_list)
      /\ UNCHANGED <<deviceVars, allocated, file_dec, state, res, cur, n, after,
                     tmp, callbackVars>>
  BY DEF channel_add_chan_record, DevInv
<1>2. PICK c \in Ctxs : c = cur[f]
  BY <1>1 DEF DevInv, ThreadOK, TypeOK, Busy, Creating
<1>3. /\ c \in allocated /\ file_dec[c] = f /\ res[c] = {}
      /\ c \notin Entries(chan_list) /\ state[c] = "INVALID"
  BY <1>1, <1>2 DEF DevInv, ThreadOK, Busy, Creating, Holds
<1>4. /\ chan_list \in Seq(Ctxs) /\ LinkedOnce(chan_list)
      /\ Entries(chan_list) \subseteq Ctxs
  BY <1>1 DEF TypeOK, DevInv, UniqueIds, Entries
<1>5. /\ chan_list' \in Seq(Ctxs) /\ LinkedOnce(chan_list')
      /\ Entries(chan_list)' = Entries(chan_list) \cup {c}
  <2>1. /\ list_add_tail(c, chan_list) \in Seq(Ctxs)
        /\ LinkedOnce(list_add_tail(c, chan_list))
        /\ Entries(list_add_tail(c, chan_list)) = Entries(chan_list) \cup {c}
    BY <1>3, <1>4, ListAddTail
  <2>2. chan_list' = list_add_tail(c, chan_list)
    BY <1>1, <1>2
  <2>3. Entries(chan_list)' = Entries(chan_list')
    BY DEF Entries
  <2> QED BY <2>1, <2>2, <2>3
<1>6. /\ FreeId \in Nat /\ FreeId \notin ListedIds
      /\ FreeId < Cardinality(Ctxs)
  BY <1>1, <1>3, FreeIdFacts
<1>7. /\ channel_id' \in [Ctxs -> Nat] /\ channel_id'[c] = FreeId
      /\ \A d \in Ctxs \ {c} : channel_id'[d] = channel_id[d]
  BY <1>1, <1>2, <1>6 DEF TypeOK
<1>8. /\ pc' \in [Fds -> Places] /\ pc'[f] = "create_msg"
      /\ \A g \in Fds \ {f} : pc'[g] = pc[g]
  BY <1>1 DEF TypeOK, Goto, Places
<1>9. TypeOK'
  BY <1>1, <1>5, <1>7, <1>8 DEF TypeOK, deviceVars, callbackVars
<1>10. UniqueIds'
  <2>1. \A d \in Entries(chan_list) :
          channel_id'[d] = channel_id[d] /\ channel_id[d] \in ListedIds
    BY <1>3, <1>4, <1>7 DEF ListedIds
  <2>2. \A d, e \in Entries(chan_list)' :
          channel_id'[d] = channel_id'[e] => d = e
    BY <1>5, <1>6, <1>7, <2>1 DEF DevInv, UniqueIds
  <2>3. \A d \in Entries(chan_list)' : channel_id'[d] < Cardinality(Ctxs)
    BY <1>5, <1>6, <1>7, <2>1 DEF DevInv, UniqueIds
  <2> QED BY <1>5, <2>2, <2>3 DEF UniqueIds
<1>11. ThreadOK(f)'
  <2>1. cur'[f] = c /\ state'[c] = "INVALID" /\ res'[c] = Holds("create_msg")
    BY <1>1, <1>2, <1>3 DEF Holds
  <2>2. "create_msg" \in Busy /\ "create_msg" \in Creating
    BY DEF Busy, Creating
  <2> QED BY <1>1, <1>3, <1>5, <1>8, <2>1, <2>2 DEF ThreadOK
<1>12. ContextOK(c)'
  BY <1>1, <1>2, <1>3 DEF ContextOK
<1>13. (\A g \in Fds : ThreadOK(g)') /\ (\A d \in Ctxs : ContextOK(d)')
  <2>1. \A d \in Ctxs \ {c} :
             /\ res'[d] = res[d] /\ state'[d] = state[d]
             /\ file_dec'[d] = file_dec[d]
             /\ d \in allocated' <=> d \in allocated
             /\ d \in Entries(chan_list)' <=> d \in Entries(chan_list)
    BY <1>1, <1>5
  <2>2. \A g \in Fds \ {f} : pc'[g] = pc[g] /\ cur'[g] = cur[g] /\ cur[g] # c
    BY <1>1, <1>3, <1>8, NoOtherOwner
  <2>3. cur[f] \in {c, HI_NULL} /\ cur'[f] \in {c, HI_NULL}
    BY <1>1, <1>2
  <2> QED BY <1>11, <1>12, <2>1, <2>2, <2>3, OneContext
<1>14. CallbackOK'
  BY <1>1 DEF DevInv, CallbackOK, callbackVars
<1> QED BY <1>9, <1>10, <1>13, <1>14 DEF DevInv

(* The decoder whose statistics could not be started: the context is left  *)
(* with what it held before.                                               *)
LEMMA ForgottenInv ==
    ASSUME DevInv, NEW f \in Fds, DecoderForgotten(f)
    PROVE  DevInv'
<1>1. PICK c \in Ctxs : c = cur[f]
  BY DEF DecoderForgotten, DevInv, ThreadOK, TypeOK, Busy, Creating
<1>2. /\ TypeOK /\ pc[f] = "create_dec" /\ Goto(f, "cleanup2")
      /\ UNCHANGED <<open_count, inited, chan_list, allocated, channel_id,
                     file_dec, state, res, cur, n, after, tmp, callbackVars>>
  BY DEF DecoderForgotten, DevInv, channelVars
<1>3. lost' \subseteq Resources \X Places
  <2>1. <<"decoder", "create_dec">> \in Resources \X Places
    BY DEF Resources, Engines, Places
  <2> QED BY <1>2, <2>1 DEF DecoderForgotten, TypeOK
<1>4. res[c] = Holds("cleanup2") /\ state[c] = "INVALID"
  BY <1>1, <1>2 DEF DevInv, ThreadOK, Busy, Creating, Holds
<1>5. /\ "cleanup2" \in Busy \ {"add_record", "cleanup0"}
      /\ pc[f] \in Busy \ {"add_record", "cleanup0"} /\ "cleanup2" \in Creating
  BY <1>2 DEF Busy, Creating
<1>6. /\ res' \in [Ctxs -> SUBSET Resources] /\ res'[c] = Holds("cleanup2")
      /\ \A d \in Ctxs \ {c} : res'[d] = res[d]
      /\ state' \in [Ctxs -> {"INVALID", "IDLE", "WORK"}]
      /\ state'[c] = (IF "cleanup2" \in Creating THEN "INVALID" ELSE "IDLE")
      /\ \A d \in Ctxs \ {c} : state'[d] = state[d]
  BY <1>2, <1>4, <1>5 DEF TypeOK
<1>7. cbpc # "idle" /\ cbown = c =>
        /\ cbsrc \in Holds("cleanup2")
        /\ cbpc = "use" => "extra" \in Holds("cleanup2")
  BY <1>4 DEF DevInv, CallbackOK
<1> QED BY <1>1, <1>2, <1>3, <1>5, <1>6, <1>7, Working

(* The resources acquired and the unwinding on failure.                    *)
LEMMA AcquireInv ==
    ASSUME DevInv, NEW f \in Fds,
           \/ message_queue_init(f) \/ decoder_create_inst(f)
           \/ processor_create_inst(f) \/ AllocTables(f)
    PROVE  DevInv'
<1>1. ASSUME NEW here \in Creating \ {"add_record", "cleanup0"},
             NEW what \in Resources,
             NEW done \in Creating \ {"add_record", "cleanup0"},
             NEW failed \in Creating \ {"add_record", "cleanup0"},
             Acquire(f, here, what, done, failed),
             Holds(done) = Holds(here) \cup {what}, Holds(failed) = Holds(here)
      PROVE  DevInv'
  <2>1. PICK c \in Ctxs : c = cur[f]
    BY <1>1 DEF Acquire, DevInv, ThreadOK, TypeOK, Busy
  <2>2. /\ pc[f] = here /\ TypeOK
        /\ UNCHANGED <<open_count, inited, chan_list, allocated, channel_id,
                       file_dec, state, cur, n, after, tmp, callbackVars>>
        /\ lost' \subseteq Resources \X Places
    BY <1>1 DEF Acquire, DevInv, TypeOK, deviceVars
  <2>3. res[c] = Holds(here) /\ state[c] = "INVALID"
    BY <1>1, <2>1, <2>2 DEF DevInv, ThreadOK, Busy
  <2>4. PICK q \in {done, failed} :
          /\ Goto(f, q) /\ res' \in [Ctxs -> SUBSET Resources]
          /\ res'[c] = Holds(q) /\ \A d \in Ctxs \ {c} : res'[d] = res[d]
    <3>1. CASE res' = [res EXCEPT ![cur[f]] = @ \cup {what}] /\ Goto(f, done)
      BY <1>1, <2>1, <2>2, <2>3, <3>1 DEF TypeOK
    <3>2. CASE Goto(f, failed) /\ UNCHANGED res
      BY <1>1, <2>2, <2>3, <3>2 DEF TypeOK
    <3> QED BY <1>1, <3>1, <3>2 DEF Acquire
  <2>5. cbpc # "idle" /\ cbown = c =>
          cbsrc \in Holds(q) /\ (cbpc = "use" => "extra" \in Holds(q))
    BY <1>1, <2>3, <2>4 DEF DevInv, CallbackOK
  <2>6. q \in Busy \ {"add_record", "cleanup0"} /\ q \in Creating
        /\ pc[f] \in Busy \ {"add_record", "cleanup0"}
    BY <1>1, <2>2 DEF Busy
  <2>7. state' \in [Ctxs -> {"INVALID", "IDLE", "WORK"}]
        /\ \A d \in Ctxs \ {c} : state'[d] = state[d]
    BY <2>2 DEF TypeOK
  <2>8. state'[c] = (IF q \in Creating THEN "INVALID" ELSE "IDLE")
    BY <2>2, <2>3, <2>6
  <2> QED BY <2>1, <2>2, <2>4, <2>5, <2>6, <2>7, <2>8, Working
<1>2. CASE message_queue_init(f)
  BY <1>1, <1>2 DEF message_queue_init, Creating, Resources, Holds
<1>3. CASE decoder_create_inst(f)
  <2>1. CASE Acquire(f, "create_dec", "decoder", "create_proc", "cleanup2")
    BY <1>1, <2>1 DEF Creating, Resources, Engines, Holds
  <2> QED BY <1>3, <2>1, ForgottenInv DEF decoder_create_inst
<1>4. CASE processor_create_inst(f)
  BY <1>1, <1>4 DEF processor_create_inst, Creating, Resources, Engines, Holds
<1>5. CASE AllocTables(f)
  BY <1>1, <1>5 DEF AllocTables, Creating, Resources, Engines, Holds
<1> QED BY <1>2, <1>3, <1>4, <1>5

LEMMA CreateIdleInv ==
    ASSUME DevInv, NEW f \in Fds, CreateIdle(f)
    PROVE  DevInv'
<1>1. /\ TypeOK /\ pc[f] = "create_idle" /\ Goto(f, "ready")
      /\ state' = [state EXCEPT ![cur[f]] = "IDLE"]
      /\ cur' = [cur EXCEPT ![f] = HI_NULL]
      /\ UNCHANGED <<deviceVars, chan_list, allocated, channel_id, file_dec,
                     res, n, after, tmp, callbackVars>>
  BY DEF CreateIdle, DevInv
<1>2. PICK c \in Ctxs : c = cur[f]
  BY <1>1 DEF DevInv, ThreadOK, TypeOK, Busy, Creating
<1>3. /\ c \in allocated /\ file_dec[c] = f /\ res[c] = Resources
      /\ c \in Entries(chan_list)
  BY <1>1, <1>2 DEF DevInv, ThreadOK, Busy, Creating, Holds
<1>4. /\ pc' \in [Fds -> Places] /\ pc'[f] = "ready"
      /\ \A g \in Fds \ {f} : pc'[g] = pc[g]
      /\ cur' \in [Fds -> Ctxs \cup {HI_NULL}] /\ cur'[f] = HI_NULL
      /\ \A g \in Fds \ {f} : cur'[g] = cur[g]
      /\ state' \in [Ctxs -> {"INVALID", "IDLE", "WORK"}] /\ state'[c] = "IDLE"
      /\ \A d \in Ctxs \ {c} : state'[d] = state[d]
  BY <1>1, <1>2 DEF TypeOK, Goto, Places
<1>5. TypeOK'
  BY <1>1, <1>4 DEF TypeOK, deviceVars, callbackVars
<1>6. ThreadOK(f)'
  BY <1>4 DEF ThreadOK, Busy, Creating, Releasing
<1>7. ContextOK(c)'
  BY <1>1, <1>3, <1>4 DEF ContextOK
<1>8. (\A g \in Fds : ThreadOK(g)') /\ (\A d \in Ctxs : ContextOK(d)')
  <2>1. \A d \in Ctxs \ {c} :
             /\ res'[d] = res[d] /\ state'[d] = state[d]
             /\ file_dec'[d] = file_dec[d]
             /\ d \in allocated' <=> d \in allocated
             /\ d \in Entries(chan_list)' <=> d \in Entries(chan_list)
    BY <1>1, <1>4
  <2>2. \A g \in Fds \ {f} : pc'[g] = pc[g] /\ cur'[g] = cur[g] /\ cur[g] # c
    BY <1>3, <1>4, NoOtherOwner
  <2>3. cur[f] \in {c, HI_NULL} /\ cur'[f] \in {c, HI_NULL}
    BY <1>2, <1>4
  <2> QED BY <1>6, <1>7, <2>1, <2>2, <2>3, OneContext
<1>9. UniqueIds' /\ CallbackOK'
  BY <1>1 DEF DevInv, UniqueIds, CallbackOK, callbackVars
<1> QED BY <1>5, <1>8, <1>9 DEF DevInv

-------------------------------------------------------------------------------
(* Start, stop and release.                                                *)

LEMMA StartStopInv ==
    ASSUME DevInv, NEW f \in Fds, NEW c \in Ctxs,
           channel_start_inst(f, c) \/ channel_stop_inst(f, c)
    PROVE  DevInv'
<1>1. /\ TypeOK /\ pc[f] = "ready"
      /\ c \in Entries(chan_list) /\ file_dec[c] = f
      /\ UNCHANGED <<deviceVars, chan_list, allocated, channel_id, file_dec,
                     res, threadVars, callbackVars>>
  BY DEF channel_start_inst, channel_stop_inst, DevInv
<1>2. /\ state' \in [Ctxs -> {"INVALID", "IDLE", "WORK"}]
      /\ state'[c] # "INVALID" /\ \A d \in Ctxs \ {c} : state'[d] = state[d]
  BY <1>1 DEF channel_start_inst, channel_stop_inst, TypeOK
<1>3. TypeOK'
  BY <1>1, <1>2 DEF TypeOK, deviceVars, threadVars, callbackVars
<1>4. pc[f] \notin Busy
  BY <1>1 DEF Busy, Creating, Releasing
<1>5. /\ cur[f] = HI_NULL /\ \A g \in Fds : cur[g] # c
      /\ c \in allocated /\ res[c] = Resources
  BY <1>1, <1>4, CompleteContext
<1>6. ThreadOK(f)' /\ ContextOK(c)'
  BY <1>1, <1>2, <1>4, <1>5 DEF ThreadOK, ContextOK, threadVars
<1>7. (\A g \in Fds : ThreadOK(g)') /\ (\A d \in Ctxs : ContextOK(d)')
  <2>1. \A d \in Ctxs \ {c} :
             /\ res'[d] = res[d] /\ state'[d] = state[d]
             /\ file_dec'[d] = file_dec[d]
             /\ d \in allocated' <=> d \in allocated
             /\ d \in Entries(chan_list)' <=> d \in Entries(chan_list)
    BY <1>1, <1>2
  <2>2. \A g \in Fds \ {f} : pc'[g] = pc[g] /\ cur'[g] = cur[g] /\ cur[g] # c
    BY <1>1, <1>5 DEF threadVars
  <2>3. cur[f] \in {c, HI_NULL} /\ cur'[f] \in {c, HI_NULL}
    BY <1>1, <1>5 DEF threadVars
  <2> QED BY <1>6, <2>1, <2>2, <2>3, OneContext
<1>8. UniqueIds' /\ CallbackOK'
  BY <1>1 DEF DevInv, UniqueIds, CallbackOK, callbackVars
<1> QED BY <1>3, <1>7, <1>8 DEF DevInv

LEMMA ReleaseInstInv ==
    ASSUME DevInv, NEW f \in Fds, NEW c \in Ctxs, channel_release_inst(f, c)
    PROVE  DevInv'
<1>1. pc[f] \notin Busy
  BY DEF channel_release_inst, Busy, Creating, Releasing
<1>2. /\ n' \in [Fds -> Ctxs \cup {HI_NULL}]
      /\ after' \in [Fds -> {"ready", "close_walk"}]
  BY DEF channel_release_inst, DevInv, TypeOK
<1> QED BY <1>1, <1>2, TakeContext DEF channel_release_inst

(* A release that is refused leaves the channel as it was.                 *)
LEMMA RefusedInv ==
    ASSUME DevInv, NEW f \in Fds, ReleaseRefused(f)
    PROVE  DevInv'
<1>1. /\ TypeOK /\ pc[f] = "rel_stop" /\ Goto(f, after[f])
      /\ cur' = [cur EXCEPT ![f] = HI_NULL]
      /\ after' = [after EXCEPT ![f] = "ready"]
      /\ UNCHANGED <<deviceVars, channelVars, n, tmp, callbackVars>>
  BY DEF ReleaseRefused, DevInv
<1>2. PICK c \in Ctxs : c = cur[f]
  BY <1>1 DEF DevInv, ThreadOK, TypeOK, Busy, Releasing
<1>3. /\ c \in allocated /\ file_dec[c] = f /\ res[c] = Resources
      /\ c \in Entries(chan_list) /\ state[c] # "INVALID"
  BY <1>1, <1>2 DEF DevInv, ThreadOK, Busy, Creating, Releasing, Holds
<1>4. /\ pc' \in [Fds -> Places] /\ pc'[f] \in {"ready", "close_walk"}
      /\ \A g \in Fds \ {f} : pc'[g] = pc[g]
      /\ cur' \in [Fds -> Ctxs \cup {HI_NULL}] /\ cur'[f] = HI_NULL
      /\ \A g \in Fds \ {f} : cur'[g] = cur[g]
      /\ after' \in [Fds -> {"ready", "close_walk"}]
  BY <1>1 DEF TypeOK, Goto, Places
<1>5. TypeOK'
  BY <1>1, <1>4 DEF TypeOK, deviceVars, channelVars, callbackVars
<1>6. ThreadOK(f)'
  BY <1>4 DEF ThreadOK, Busy, Creating, Releasing
<1>7. ContextOK(c)'
  BY <1>1, <1>3 DEF ContextOK, channelVars
<1>8. (\A g \in Fds : ThreadOK(g)') /\ (\A d \in Ctxs : ContextOK(d)')
  <2>1. \A d \in Ctxs \ {c} :
             /\ res'[d] = res[d] /\ state'[d] = state[d]
             /\ file_dec'[d] = file_dec[d]
             /\ d \in allocated' <=> d \in allocated
             /\ d \in Entries(chan_list)' <=> d \in Entries(chan_list)
    BY <1>1 DEF channelVars
  <2>2. \A g \in Fds \ {f} : pc'[g] = pc[g] /\ cur'[g] = cur[g] /\ cur[g] # c
    BY <1>3, <1>4, NoOtherOwner
  <2>3. cur[f] \in {c, HI_NULL} /\ cur'[f] \in {c, HI_NULL}
    BY <1>2, <1>4
  <2> QED BY <1>6, <1>7, <2>1, <2>2, <2>3, OneContext
<1>9. UniqueIds' /\ CallbackOK'
  BY <1>1 DEF DevInv, UniqueIds, CallbackOK, channelVars, callbackVars
<1> QED BY <1>5, <1>8, <1>9 DEF DevInv

(* The two steps of a release that only write the state.                   *)
LEMMA ReleaseStateInv ==
    ASSUME DevInv, NEW f \in Fds, ReleaseStop(f) \/ ReleaseInvalid(f)
    PROVE  DevInv'
<1>1. PICK q \in {"rel_proc", "cleanup1"} :
        /\ Goto(f, q) /\ Holds(q) = Holds(pc[f])
        /\ state' = [state EXCEPT ![cur[f]] = IF q \in Creating THEN "INVALID"
                                              ELSE "IDLE"]
  BY DEF ReleaseStop, ReleaseInvalid, Holds, Creating
<1>2. /\ TypeOK /\ pc[f] \in Busy \ {"add_record", "cleanup0"}
      /\ q \in Busy \ {"add_record", "cleanup0"}
      /\ UNCHANGED <<open_count, inited, chan_list, allocated, channel_id,
                     file_dec, res, cur, n, after, tmp, callbackVars>>
      /\ lost' \subseteq Resources \X Places
  BY DEF ReleaseStop, ReleaseInvalid, DevInv, TypeOK, deviceVars, Busy,
         Creating, Releasing
<1>3. cur[f] \in Ctxs /\ res[cur[f]] = Holds(q)
  BY <1>1, <1>2 DEF DevInv, ThreadOK, TypeOK
<1>4. /\ state' \in [Ctxs -> {"INVALID", "IDLE", "WORK"}]
      /\ state'[cur[f]] = (IF q \in Creating THEN "INVALID" ELSE "IDLE")
      /\ \A d \in Ctxs \ {cur[f]} : state'[d] = state[d]
  BY <1>1, <1>2, <1>3 DEF TypeOK
<1>5. /\ res' \in [Ctxs -> SUBSET Resources] /\ res'[cur[f]] = Holds(q)
      /\ \A d \in Ctxs \ {cur[f]} : res'[d] = res[d]
  BY <1>2, <1>3 DEF TypeOK
<1>6. cbpc # "idle" /\ cbown = cur[f] =>
        cbsrc \in Holds(q) /\ (cbpc = "use" => "extra" \in Holds(q))
  BY <1>3 DEF DevInv, CallbackOK
<1> QED BY <1>1, <1>2, <1>4, <1>5, <1>6, Working

(* What a thread gives up.  An engine waits for its callback; the tables   *)
(* and the queue go when no engine is left to call.                        *)
LEMMA GiveUpInv ==
    ASSUME DevInv, NEW f \in Fds,
           \/ processor_release_inst(f) \/ decoder_release_inst(f)
           \/ omxvdec_release_mem(f) \/ message_queue_deinit(f)
    PROVE  DevInv'
<1>1. ASSUME NEW here \in Busy \ {"add_record", "cleanup0", "rel_stop"},
             NEW q \in Busy \ {"add_record", "cleanup0"}, NEW what \in Resources,
             pc[f] = here, Goto(f, q),
             here \in Creating <=> q \in Creating,
             Holds(q) = Holds(here) \ {what},
             res' = [res EXCEPT ![cur[f]] = @ \ {what}],
             UNCHANGED <<deviceVars, chan_list, allocated, channel_id, file_dec,
                         state, cur, n, after, tmp, callbackVars>>,
             cbpc # "idle" /\ cbown = cur[f] /\ cbsrc \in Holds(here) =>
               what \in Engines /\ cbsrc # what
      PROVE  DevInv'
  <2>1. PICK c \in Ctxs : c = cur[f]
    BY <1>1 DEF DevInv, ThreadOK, TypeOK
  <2>2. TypeOK /\ res[c] = Holds(here)
    BY <1>1, <2>1 DEF DevInv, ThreadOK
  <2>7. /\ UNCHANGED <<open_count, inited>>
        /\ lost' \subseteq Resources \X Places
    BY <1>1, <2>2 DEF TypeOK, deviceVars
  <2>3. state[c] = (IF q \in Creating THEN "INVALID" ELSE "IDLE")
    BY <1>1, <2>1 DEF DevInv, ThreadOK, TypeOK
  <2>4. /\ res' \in [Ctxs -> SUBSET Resources] /\ res'[c] = Holds(q)
        /\ \A d \in Ctxs \ {c} : res'[d] = res[d]
    BY <1>1, <2>1, <2>2 DEF TypeOK
  <2>5. cbpc # "idle" /\ cbown = c =>
          cbsrc \in Holds(q) /\ (cbpc = "use" => "extra" \in Holds(q))
    BY <1>1, <2>1, <2>2 DEF DevInv, CallbackOK, Engines
  <2>6. /\ state' \in [Ctxs -> {"INVALID", "IDLE", "WORK"}]
        /\ state'[c] = (IF q \in Creating THEN "INVALID" ELSE "IDLE")
        /\ \A d \in Ctxs \ {c} : state'[d] = state[d]
    BY <1>1, <2>2, <2>3 DEF TypeOK
  <2> QED BY <1>1, <2>1, <2>4, <2>5, <2>6, <2>7, Working
<1>2. cbsrc \in Engines
  BY DEF DevInv, TypeOK
<1>3. CASE processor_release_inst(f)
  <2>1. /\ pc[f] \in {"cleanup4", "rel_proc"} /\ NotCalledBy(f, "processor")
        /\ Goto(f, IF pc[f] = "cleanup4" THEN "cleanup3" ELSE "rel_dec")
        /\ res' = [res EXCEPT ![cur[f]] = @ \ {"processor"}]
        /\ UNCHANGED <<deviceVars, chan_list, allocated, channel_id, file_dec,
                       state, cur, n, after, tmp, callbackVars>>
    BY <1>3 DEF processor_release_inst, GiveUp
  <2>2. CASE pc[f] = "cleanup4"
    BY <1>1, <1>2, <2>1, <2>2
       DEF NotCalledBy, Holds, Busy, Creating, Releasing, Resources, Engines
  <2>3. CASE pc[f] = "rel_proc"
    BY <1>1, <1>2, <2>1, <2>3
       DEF NotCalledBy, Holds, Busy, Creating, Releasing, Resources, Engines
  <2> QED BY <2>1, <2>2, <2>3
<1>4. CASE decoder_release_inst(f)
  <2>1. /\ pc[f] \in {"cleanup3", "rel_dec"} /\ NotCalledBy(f, "decoder")
        /\ Goto(f, IF pc[f] = "cleanup3" THEN "cleanup2" ELSE "rel_mem")
        /\ res' = [res EXCEPT ![cur[f]] = @ \ {"decoder"}]
        /\ UNCHANGED <<deviceVars, chan_list, allocated, channel_id, file_dec,
                       state, cur, n, after, tmp, callbackVars>>
    BY <1>4 DEF decoder_release_inst, GiveUp
  <2>2. CASE pc[f] = "cleanup3"
    BY <1>1, <1>2, <2>1, <2>2
       DEF NotCalledBy, Holds, Busy, Creating, Releasing, Resources, Engines
  <2>3. CASE pc[f] = "rel_dec"
    BY <1>1, <1>2, <2>1, <2>3
       DEF NotCalledBy, Holds, Busy, Creating, Releasing, Resources, Engines
  <2> QED BY <2>1, <2>2, <2>3
<1>5. CASE omxvdec_release_mem(f)
  <2>1. /\ pc[f] = "rel_mem" /\ Goto(f, "rel_msg")
        /\ res' = [res EXCEPT ![cur[f]] = @ \ {"extra"}]
        /\ UNCHANGED <<deviceVars, chan_list, allocated, channel_id, file_dec,
                       state, cur, n, after, tmp, callbackVars>>
    BY <1>5 DEF omxvdec_release_mem, GiveUp
  <2> QED BY <1>1, <1>2, <2>1
       DEF Holds, Busy, Creating, Releasing, Resources, Engines
<1>6. CASE message_queue_deinit(f)
  <2>1. /\ pc[f] \in {"cleanup2", "rel_msg"}
        /\ Goto(f, IF pc[f] = "cleanup2" THEN "cleanup1" ELSE "rel_invalid")
        /\ res' = [res EXCEPT ![cur[f]] = @ \ {"msg_queue"}]
        /\ UNCHANGED <<deviceVars, chan_list, allocated, channel_id, file_dec,
                       state, cur, n, after, tmp, callbackVars>>
    BY <1>6 DEF message_queue_deinit, GiveUp
  <2>2. CASE pc[f] = "cleanup2"
    BY <1>1, <1>2, <2>1, <2>2
       DEF Holds, Busy, Creating, Releasing, Resources, Engines
  <2>3. CASE pc[f] = "rel_msg"
    BY <1>1, <1>2, <2>1, <2>3
       DEF Holds, Busy, Creating, Releasing, Resources, Engines
  <2> QED BY <2>1, <2>2, <2>3
<1> QED BY <1>3, <1>4, <1>5, <1>6

LEMMA DeleteRecordInv ==
    ASSUME DevInv, NEW f \in Fds, channel_delete_chan_record(f)
    PROVE  DevInv'
<1>1. /\ TypeOK /\ pc[f] = "cleanup1" /\ Goto(f, "cleanup0")
      /\ chan_list' = list_del(cur[f], chan_list)
      /\ UNCHANGED <<deviceVars, allocated, channel_id, file_dec, state, res,
                     cur, n, after, tmp, callbackVars>>
  BY DEF channel_delete_chan_record, DevInv
<1>2. PICK c \in Ctxs : c = cur[f]
  BY <1>1 DEF DevInv, ThreadOK, TypeOK, Busy, Creating
<1>3. /\ c \in allocated /\ file_dec[c] = f /\ res[c] = {}
      /\ c \in Entries(chan_list) /\ state[c] = "INVALID"
  BY <1>1, <1>2 DEF DevInv, ThreadOK, Busy, Creating, Holds
<1>4. chan_list \in Seq(Ctxs) /\ LinkedOnce(chan_list)
  BY <1>1 DEF TypeOK, DevInv, UniqueIds
<1>5. /\ chan_list' \in Seq(Ctxs) /\ LinkedOnce(chan_list')
      /\ Entries(chan_list)' = Entries(chan_list) \ {c}
  <2>1. PICK k \in 1..Len(chan_list) : chan_list[k] = c
    BY <1>3 DEF Entries
  <2>2. /\ list_del(chan_list[k], chan_list) \in Seq(Ctxs)
        /\ LinkedOnce(list_del(chan_list[k], chan_list))
        /\ Entries(list_del(chan_list[k], chan_list))
             = Entries(chan_list) \ {chan_list[k]}
    BY <1>4, ListDel
  <2>3. chan_list' = list_del(chan_list[k], chan_list)
    BY <1>1, <1>2, <2>1
  <2>4. Entries(chan_list)' = Entries(chan_list')
    BY DEF Entries
  <2> QED BY <2>1, <2>2, <2>3, <2>4
<1>6. /\ pc' \in [Fds -> Places] /\ pc'[f] = "cleanup0"
      /\ \A g \in Fds \ {f} : pc'[g] = pc[g]
  BY <1>1 DEF TypeOK, Goto, Places
<1>7. TypeOK'
  BY <1>1, <1>5, <1>6 DEF TypeOK, deviceVars, callbackVars
<1>8. UniqueIds'
  BY <1>1, <1>5 DEF DevInv, UniqueIds
<1>9. ThreadOK(f)'
  <2>1. cur'[f] = c /\ state'[c] = "INVALID" /\ res'[c] = Holds("cleanup0")
    BY <1>1, <1>2, <1>3 DEF Holds
  <2>2. "cleanup0" \in Busy /\ "cleanup0" \in Creating
    BY DEF Busy, Creating
  <2> QED BY <1>1, <1>3, <1>5, <1>6, <2>1, <2>2 DEF ThreadOK
<1>10. ContextOK(c)'
  BY <1>1, <1>2, <1>3 DEF ContextOK
<1>11. (\A g \in Fds : ThreadOK(g)') /\ (\A d \in Ctxs : ContextOK(d)')
  <2>1. \A d \in Ctxs \ {c} :
             /\ res'[d] = res[d] /\ state'[d] = state[d]
             /\ file_dec'[d] = file_dec[d]
             /\ d \in allocated' <=> d \in allocated
             /\ d \in Entries(chan_list)' <=> d \in Entries(chan_list)
    BY <1>1, <1>5
  <2>2. \A g \in Fds \ {f} : pc'[g] = pc[g] /\ cur'[g] = cur[g] /\ cur[g] # c
    BY <1>1, <1>3, <1>6, NoOtherOwner
  <2>3. cur[f] \in {c, HI_NULL} /\ cur'[f] \in {c, HI_NULL}
    BY <1>1, <1>2
  <2> QED BY <1>9, <1>10, <2>1, <2>2, <2>3, OneContext
<1>12. CallbackOK'
  BY <1>1 DEF DevInv, CallbackOK, callbackVars
<1> QED BY <1>7, <1>8, <1>11, <1>12 DEF DevInv

(* The freed context has nothing left, so no callback can be using it.     *)
LEMMA KfreeInv ==
    ASSUME DevInv, NEW f \in Fds, kfree(f)
    PROVE  DevInv'
<1>1. /\ TypeOK /\ pc[f] = "cleanup0" /\ Goto(f, after[f])
      /\ allocated' = allocated \ {cur[f]}
      /\ channel_id' = [channel_id EXCEPT ![cur[f]] = 0]
      /\ file_dec' = [file_dec EXCEPT ![cur[f]] = HI_NULL]
      /\ state' = [state EXCEPT ![cur[f]] = "INVALID"]
      /\ cur' = [cur EXCEPT ![f] = HI_NULL]
      /\ after' = [after EXCEPT ![f] = "ready"]
      /\ lost' = lost \cup {<<r, "cleanup0">> : r \in res[cur[f]]}
      /\ res' = [res EXCEPT ![cur[f]] = {}]
      /\ UNCHANGED <<open_count, inited, chan_list, n, tmp, callbackVars>>
  BY DEF kfree, DevInv
<1>2. PICK c \in Ctxs : c = cur[f]
  BY <1>1 DEF DevInv, ThreadOK, TypeOK, Busy, Creating
<1>3. /\ c \in allocated /\ file_dec[c] = f /\ res[c] = {}
      /\ c \notin Entries(chan_list)
  BY <1>1, <1>2 DEF DevInv, ThreadOK, Busy, Creating, Holds
<1>4. /\ pc' \in [Fds -> Places] /\ pc'[f] \in {"ready", "close_walk"}
      /\ \A g \in Fds \ {f} : pc'[g] = pc[g]
      /\ cur' \in [Fds -> Ctxs \cup {HI_NULL}] /\ cur'[f] = HI_NULL
      /\ \A g \in Fds \ {f} : cur'[g] = cur[g]
      /\ after' \in [Fds -> {"ready", "close_walk"}]
  BY <1>1 DEF TypeOK, Goto, Places
<1>5. /\ state' \in [Ctxs -> {"INVALID", "IDLE", "WORK"}]
      /\ state'[c] = "INVALID" /\ \A d \in Ctxs \ {c} : state'[d] = state[d]
      /\ file_dec' \in [Ctxs -> Fds \cup {HI_NULL}]
      /\ \A d \in Ctxs \ {c} : file_dec'[d] = file_dec[d]
      /\ channel_id' \in [Ctxs -> Nat]
      /\ \A d \in Ctxs \ {c} : channel_id'[d] = channel_id[d]
      /\ res' = res /\ lost' = lost
  BY <1>1, <1>2, <1>3 DEF TypeOK
<1>6. TypeOK'
  BY <1>1, <1>4, <1>5 DEF TypeOK, callbackVars
<1>7. UniqueIds'
  <2>1. Entries(chan_list) \subseteq Ctxs \ {c}
    BY <1>1, <1>3 DEF TypeOK, Entries
  <2> QED BY <1>1, <1>5, <2>1 DEF DevInv, UniqueIds
<1>8. ThreadOK(f)'
  BY <1>4 DEF ThreadOK, Busy, Creating, Releasing
<1>9. ContextOK(c)'
  BY <1>1, <1>2, <1>3, <1>5 DEF ContextOK
<1>10. (\A g \in Fds : ThreadOK(g)') /\ (\A d \in Ctxs : ContextOK(d)')
  <2>1. \A d \in Ctxs \ {c} :
             /\ res'[d] = res[d] /\ state'[d] = state[d]
             /\ file_dec'[d] = file_dec[d]
             /\ d \in allocated' <=> d \in allocated
             /\ d \in Entries(chan_list)' <=> d \in Entries(chan_list)
    BY <1>1, <1>2, <1>5
  <2>2. \A g \in Fds \ {f} : pc'[g] = pc[g] /\ cur'[g] = cur[g] /\ cur[g] # c
    BY <1>3, <1>4, NoOtherOwner
  <2>3. cur[f] \in {c, HI_NULL} /\ cur'[f] \in {c, HI_NULL}
    BY <1>2, <1>4
  <2> QED BY <1>8, <1>9, <2>1, <2>2, <2>3, OneContext
<1>11. CallbackOK'
  BY <1>1, <1>2, <1>3, <1>5 DEF DevInv, CallbackOK, callbackVars
<1> QED BY <1>6, <1>7, <1>10, <1>11 DEF DevInv

-------------------------------------------------------------------------------
(* The callbacks.                                                          *)

(* A context is between threads, or one of them says what it holds.        *)
LEMMA ResourceFacts ==
    ASSUME DevInv, NEW c \in allocated
    PROVE  /\ res[c] # {} => c \in Entries(chan_list)
           /\ res[c] \cap Engines # {} => "msg_queue" \in res[c]
           /\ state[c] = "WORK" => "extra" \in res[c]
<1>1. c \in Ctxs /\ ContextOK(c) /\ c # HI_NULL
  BY DeviceAssumption DEF DevInv, TypeOK
<1>2. CASE \A f \in Fds : cur[f] # c
  BY <1>1, <1>2 DEF ContextOK, Resources
<1>3. CASE \E f \in Fds : cur[f] = c
  <2>1. PICK f \in Fds : cur[f] = c
    BY <1>3
  <2>2. ThreadOK(f) /\ pc[f] \in Busy
    BY <1>1, <2>1 DEF DevInv, ThreadOK
  <2>3. /\ res[c] = Holds(pc[f])
        /\ c \in Entries(chan_list) <=> pc[f] \notin {"add_record", "cleanup0"}
        /\ state[c] = "WORK" => pc[f] = "rel_stop"
    BY <2>1, <2>2 DEF ThreadOK
  <2> QED BY <2>3 DEF Holds, Resources, Engines
<1> QED BY <1>2, <1>3

(* The ids are unique, so the channel found is the one that registered.    *)
LEMMA FindInv ==
    ASSUME DevInv, channel_find_inst_by_channel_id
    PROVE  DevInv'
<1>1. PICK c \in allocated, e \in Engines, i \in 1..Len(chan_list) :
        /\ e \in res[c] /\ cbsrc' = e /\ cbown' = c
        /\ channel_id[chan_list[i]] = channel_id[c]
        /\ cbchan' = chan_list[i]
  BY DEF channel_find_inst_by_channel_id
<1>2. /\ TypeOK /\ cbpc' = "found"
      /\ UNCHANGED <<deviceVars, channelVars, threadVars>>
  BY DEF channel_find_inst_by_channel_id, DevInv
<1>3. c \in Entries(chan_list)
  BY <1>1, ResourceFacts
<1>4. chan_list[i] \in Entries(chan_list)
  BY DEF Entries
<1>5. chan_list[i] = c
  BY <1>1, <1>3, <1>4 DEF DevInv, UniqueIds
<1>6. TypeOK'
  BY <1>1, <1>2, <1>5 DEF TypeOK, deviceVars, channelVars, threadVars
<1>7. CallbackOK'
  BY <1>1, <1>2, <1>5 DEF CallbackOK, channelVars
<1>8. UniqueIds'
  BY <1>2 DEF DevInv, UniqueIds, channelVars
<1>9. (\A g \in Fds : ThreadOK(g)') /\ (\A d \in Ctxs : ContextOK(d)')
  BY <1>2 DEF DevInv, ThreadOK, ContextOK, channelVars, threadVars
<1> QED BY <1>6, <1>7, <1>8, <1>9 DEF DevInv

LEMMA CallbackEndInv ==
    ASSUME DevInv, CallbackGoOn \/ CallbackReturn
    PROVE  DevInv'
<1>1. TypeOK /\ UNCHANGED <<deviceVars, channelVars, threadVars>>
  BY DEF CallbackGoOn, CallbackReturn, DevInv
<1>2. TypeOK'
  BY <1>1 DEF CallbackGoOn, CallbackReturn, TypeOK, deviceVars, channelVars,
              threadVars, Engines
<1>3. CallbackOK'
  <2>1. CASE CallbackGoOn
    <3>1. /\ cbchan = cbown /\ cbown \in allocated /\ cbsrc \in res[cbown]
          /\ state[cbown] = "WORK"
      BY <2>1 DEF CallbackGoOn, DevInv, CallbackOK
    <3>2. "extra" \in res[cbown]
      BY <3>1, ResourceFacts
    <3> QED BY <1>1, <2>1, <3>1, <3>2 DEF CallbackGoOn, CallbackOK, channelVars
  <2>2. CASE CallbackReturn
    BY <2>2 DEF CallbackReturn, CallbackOK
  <2> QED BY <2>1, <2>2
<1>4. UniqueIds'
  BY <1>1 DEF DevInv, UniqueIds, channelVars
<1>5. (\A g \in Fds : ThreadOK(g)') /\ (\A d \in Ctxs : ContextOK(d)')
  BY <1>1 DEF DevInv, ThreadOK, ContextOK, channelVars, threadVars
<1> QED BY <1>2, <1>3, <1>4, <1>5 DEF DevInv

-------------------------------------------------------------------------------
LEMMA NextInv == DevInv /\ [Next]_vars => DevInv'
<1> SUFFICES ASSUME DevInv, [Next]_vars PROVE DevInv'
  OBVIOUS
<1>1. ASSUME NEW f \in Fds, OpenAndClose(f) PROVE DevInv'
  BY <1>1, OpenCloseInv, ReleaseWalkInv DEF OpenAndClose
<1>2. ASSUME NEW f \in Fds, CreateAndRelease(f) PROVE DevInv'
  BY <1>2, CreateInv, AddRecordInv, AcquireInv, CreateIdleInv,
     RefusedInv, ReleaseStateInv, GiveUpInv, DeleteRecordInv, KfreeInv
     DEF CreateAndRelease
<1>3. ASSUME NEW f \in Fds, NEW c \in Ctxs,
             \/ channel_start_inst(f, c) \/ channel_stop_inst(f, c)
             \/ channel_release_inst(f, c)
      PROVE  DevInv'
  BY <1>3, StartStopInv, ReleaseInstInv
<1>4. CASE \/ channel_find_inst_by_channel_id
           \/ CallbackGoOn \/ CallbackReturn
  BY <1>4, FindInv, CallbackEndInv
<1>5. CASE UNCHANGED vars
  <2>1. UNCHANGED <<deviceVars, channelVars, threadVars, callbackVars>>
    BY <1>5 DEF vars
  <2>2. TypeOK'
    BY <2>1 DEF DevInv, TypeOK, deviceVars, channelVars, threadVars,
                callbackVars
  <2>3. UniqueIds' /\ CallbackOK'
    BY <2>1 DEF DevInv, UniqueIds, CallbackOK, channelVars, callbackVars
  <2>4. (\A g \in Fds : ThreadOK(g)') /\ (\A d \in Ctxs : ContextOK(d)')
    BY <2>1 DEF DevInv, ThreadOK, ContextOK, channelVars, threadVars
  <2> QED BY <2>2, <2>3, <2>4 DEF DevInv
<1> QED BY <1>1, <1>2, <1>3, <1>4, <1>5 DEF Next

(* DevInv holds in every reachable state of the device.                    *)
THEOREM DeviceInvariance == Spec => []DevInv
BY InitInv, NextInv, PTL DEF Spec

(* Every field of the device, of its channels and of its threads stays     *)
(* within its type; open_count wraps like the HI_U32 it is.                *)
THEOREM DeviceTypeCorrect == Spec => []TypeOK
<1>1. DevInv => TypeOK
  BY DEF DevInv
<1> QED BY <1>1, DeviceInvariance, PTL

(* The search of channel_add_chan_record never gives out an id that a      *)
(* listed channel has, nor one beyond the number of contexts.              *)
THEOREM IdsAreUnique == Spec => []UniqueIds
<1>1. DevInv => UniqueIds
  BY DEF DevInv
<1> QED BY <1>1, DeviceInvariance, PTL

(* A callback of VFMW or VPSS works on the channel that registered it,     *)
(* which still has its queue and, past the test of the state, its tables.  *)
THEOREM CallbacksAreSafe == Spec => []CallbackSafe
<1>1. DevInv => CallbackSafe
  <2> SUFFICES ASSUME DevInv, cbpc # "idle" PROVE CallbackSafe
    BY DEF CallbackSafe
  <2>1. /\ cbchan = cbown /\ cbown \in allocated /\ cbsrc \in res[cbown]
        /\ cbpc = "use" => "extra" \in res[cbown]
        /\ cbsrc \in Engines
    BY DEF DevInv, CallbackOK, TypeOK
  <2>2. "msg_queue" \in res[cbown]
    BY <2>1, ResourceFacts
  <2> QED BY <2>1, <2>2 DEF CallbackSafe
<1> QED BY <1>1, DeviceInvariance, PTL

(* What may be lost: a decoder whose low-delay statistics did not start.   *)
LostOK ==
    lost \subseteq IF LowDelayStatistics THEN {<<"decoder", "create_dec">>}
                  ELSE {}

(* Only DecoderForgotten adds to what is lost: a context that kfree frees  *)
(* holds nothing.                                                          *)
LEMMA LostInv == DevInv /\ LostOK /\ [Next]_vars => LostOK'
<1> SUFFICES ASSUME DevInv, LostOK, [Next]_vars PROVE LostOK'
  OBVIOUS
<1>1. CASE UNCHANGED lost
  BY <1>1 DEF LostOK
<1>2. ASSUME NEW f \in Fds, kfree(f) PROVE UNCHANGED lost
  <2>1. res[cur[f]] = {}
    BY <1>2 DEF kfree, DevInv, ThreadOK, Busy, Creating, Holds
  <2> QED BY <1>2, <2>1 DEF kfree
<1>3. ASSUME NEW f \in Fds, DecoderForgotten(f) PROVE LostOK'
  BY <1>3 DEF DecoderForgotten, LostOK
<1>4. ASSUME NEW f \in Fds, OpenAndClose(f) PROVE UNCHANGED lost
  BY <1>4 DEF OpenAndClose, omxvdec_open, OpenInit, OpenFailRead,
         OpenFailWrite, omxvdec_release, CloseWalk, CloseWalkFreed,
         CloseCount, CloseTest, channel_exit, deviceVars
<1>5. ASSUME NEW f \in Fds, CreateAndRelease(f) PROVE LostOK'
  <2>1. \/ kfree(f) \/ DecoderForgotten(f) \/ UNCHANGED lost
    BY <1>5 DEF CreateAndRelease, channel_create_inst, channel_add_chan_record,
         message_queue_init, decoder_create_inst, processor_create_inst,
         AllocTables, Acquire, CreateIdle, ReleaseRefused, ReleaseStop,
         processor_release_inst, decoder_release_inst, omxvdec_release_mem,
         message_queue_deinit, GiveUp, ReleaseInvalid,
         channel_delete_chan_record, deviceVars
  <2> QED BY <1>1, <1>2, <1>3, <2>1
<1>6. ASSUME NEW f \in Fds, NEW c \in Ctxs,
             \/ channel_start_inst(f, c) \/ channel_stop_inst(f, c)
             \/ channel_release_inst(f, c)
      PROVE  UNCHANGED lost
  BY <1>6 DEF channel_start_inst, channel_stop_inst, channel_release_inst,
              deviceVars
<1>7. CASE \/ channel_find_inst_by_channel_id
           \/ CallbackGoOn \/ CallbackReturn
  BY <1>1, <1>7 DEF channel_find_inst_by_channel_id, CallbackGoOn,
                    CallbackReturn, deviceVars
<1>8. CASE UNCHANGED vars
  BY <1>1, <1>8 DEF vars, deviceVars
<1> QED BY <1>1, <1>4, <1>5, <1>6, <1>7, <1>8 DEF Next

(* Whichever step of channel_create_inst failed, kfree frees a context     *)
(* that holds nothing and is not listed.  The one thing the driver can     *)
(* lose is a decoder whose low-delay statistics did not start, and only if *)
(* they may be switched on.                                                *)
THEOREM NothingIsLeaked == Spec => []NothingLeaks
<1>1. Init => LostOK
  BY DEF Init, LostOK
<1>2. DevInv /\ LostOK => NothingLeaks
  <2> SUFFICES ASSUME DevInv, LostOK PROVE NothingLeaks
    OBVIOUS
  <2>1. Entries(chan_list) \subseteq Ctxs
    BY DEF DevInv, TypeOK, Entries
  <2> QED BY <2>1 DEF DevInv, ContextOK, NothingLeaks, LostOK
<1> QED BY <1>1, <1>2, LostInv, DeviceInvariance, PTL DEF Spec
===============================================================================
