-------------------------- MODULE OmxOutputPortProofs -------------------------
(***************************************************************************)
(* The safety properties of OmxOutputPort for any set of frame buffers.    *)
(* OutInv is the inductive invariant: the properties, and for the flush    *)
(* and the pause which thread has still to do what for each value of their *)
(* flags.                                                                  *)
(***************************************************************************)
EXTENDS OmxOutputPort, KernelListProofs, FiniteSetTheorems

FlushPosted == FlushOutputDone \in Entries(msg_queue)
PausePosted == PauseDone \in Entries(msg_queue)

(* The places in which VPSS works on a frame it has given up, in which     *)
(* that frame may still be linked, and in which it has found no frame in   *)
(* use.                                                                    *)
Giving  == {"rel_count", "rel_test", "rel_unlink", "rel_post", "rel_requeue",
            "rep_post"}
Linking == {"rel_count", "rel_test", "rel_unlink"}
Idling  == {"flush_done", "flush_clear", "pause_done", "pause_clear"}

FlushPlaces == {"flush_kind", "flush_lock", "flush_loop", "flush_set"}
PausePlaces == {"pause_set", "pause_post"}

(* A flag that is set and not just being cleared.                          *)
FlushWaits == output_flush_pending = 1 /\ vpc # "flush_clear"
PauseWaits == pause_pending = 1 /\ vpc # "pause_clear"

(* The queue, the statuses and the use counter agree.                      *)
QueueInv ==
    /\ FrameCount /\ IsFiniteSet(held) /\ FramesLinkedOnce
    /\ vpc \in Giving => vbuf \in Bufs \ held
    /\ vpc \in Idling => held = {}

(* Every frame buffer has exactly one owner.                               *)
OwnerInv ==
    \A b \in Bufs :
        /\ b \in client => ~(b \in Entries(yuv_queue) \/ b \in Carried
                             \/ Returned(b))
        /\ b \in Entries(yuv_queue) => ~(b \in Carried \/ Returned(b))
        /\ b \in Carried => ~Returned(b)
        /\ b \in client \/ b \in Entries(yuv_queue) \/ b \in Carried
             \/ Returned(b)

(* No message but IMG_SIZE_CHG is twice in the queue.                      *)
MsgInv ==
    \A i, j \in 1..Len(msg_queue) :
        msg_queue[i] = msg_queue[j] /\ msg_queue[i] # ImgSizeChg => i = j

(* From the command to FLUSH_OUTPUT_DONE exactly one party has to answer   *)
(* the flush: the event thread, the VPSS thread, or the message itself.    *)
FlushInv ==
    /\ cpc \in FlushPlaces =>
         m_port_flushing = 1 /\ ~FlushPosted /\ ~FlushWaits
    /\ cpc = "flush_set" => /\ output_flush_pending = 0
                            /\ Entries(yuv_queue) \subseteq held
    /\ FlushWaits =>
         /\ m_port_flushing = 1 /\ ~FlushPosted
         /\ \A b \in Entries(yuv_queue) :
              b \in held \/ (b = vbuf /\ vpc \in Linking)
    /\ FlushPosted => m_port_flushing = 1 /\ yuv_queue = <<>> /\ held = {}

(* The same for a pause.                                                   *)
PauseInv ==
    /\ cpc \in PausePlaces => m_pausing = 1 /\ ~PausePosted /\ ~PauseWaits
    /\ cpc = "pause_set" => pause_pending = 0
    /\ PauseWaits => m_pausing = 1 /\ ~PausePosted
    /\ PausePosted => m_pausing = 1
    /\ vpc \in {"rel_unlink", "rel_post"} =>
         output_flush_pending = 1 \/ pause_pending = 1

(* The one frame that may return behind FLUSH_OUTPUT_DONE is in the VPSS   *)
(* thread's hand, and a pause that is still to be answered put it there.   *)
LateInv ==
    \A i \in 1..Len(msg_queue) : msg_queue[i] = FlushOutputDone =>
        /\ LateFrames(i) \subseteq {vbuf}
        /\ LateFrames(i) # {} =>
             \/ PauseWaits
             \/ \E j \in (i + 1)..Len(msg_queue) : msg_queue[j] = PauseDone

OutInv ==
    /\ TypeOK /\ QueueInv /\ OwnerInv /\ MsgInv
    /\ FlushInv /\ PauseInv /\ LateInv

-------------------------------------------------------------------------------
(* The messages of this port are told apart by code and buffer.            *)
LEMMA MessageFacts ==
    /\ FlushOutputDone \in Messages /\ PauseDone \in Messages
    /\ ImgSizeChg \in Messages
    /\ FlushOutputDone # PauseDone /\ FlushOutputDone # ImgSizeChg
    /\ PauseDone # ImgSizeChg
    /\ \A b \in Bufs : OutputDone(b) \in Messages
    /\ \A b, c : OutputDone(b) = OutputDone(c) => b = c
    /\ \A b : /\ OutputDone(b) # FlushOutputDone /\ OutputDone(b) # PauseDone
              /\ OutputDone(b) # ImgSizeChg
              /\ OutputDone(b).msgcode = "OUTPUT_DONE" /\ OutputDone(b).buf = b
    /\ \A m \in Messages :
         \/ m \in {FlushOutputDone, PauseDone, ImgSizeChg}
              /\ m.msgcode # "OUTPUT_DONE"
         \/ \E b \in Bufs : m = OutputDone(b)
  BY DEF Messages, OutputDone, FlushOutputDone, PauseDone, ImgSizeChg

(* Posting a message.                                                      *)
LEMMA Post ==
    ASSUME TypeOK, NEW m \in Messages, message_queue(m)
    PROVE  /\ msg_queue' \in Seq(Messages)
           /\ Len(msg_queue') = Len(msg_queue) + 1 /\ Len(msg_queue) \in Nat
           /\ \A j \in 1..Len(msg_queue) : msg_queue'[j] = msg_queue[j]
           /\ msg_queue'[Len(msg_queue) + 1] = m
           /\ Entries(msg_queue') = Entries(msg_queue) \cup {m}
           /\ MsgInv /\ (m \notin Entries(msg_queue) \/ m = ImgSizeChg)
                => MsgInv'
<1>1. msg_queue \in Seq(Messages) /\ msg_queue' = Append(msg_queue, m)
  BY DEF TypeOK, message_queue
<1>2. ASSUME NEW q \in Seq(Messages), NEW x \in Messages
      PROVE  /\ Append(q, x) \in Seq(Messages)
             /\ Len(Append(q, x)) = Len(q) + 1 /\ Len(q) \in Nat
             /\ \A j \in 1..Len(q) : Append(q, x)[j] = q[j]
             /\ Append(q, x)[Len(q) + 1] = x
             /\ Entries(Append(q, x)) = Entries(q) \cup {x}
  BY ListAddTail DEF list_add_tail
<1>3. /\ msg_queue' \in Seq(Messages)
      /\ Len(msg_queue') = Len(msg_queue) + 1 /\ Len(msg_queue) \in Nat
      /\ \A j \in 1..Len(msg_queue) : msg_queue'[j] = msg_queue[j]
      /\ msg_queue'[Len(msg_queue) + 1] = m
      /\ Entries(msg_queue') = Entries(msg_queue) \cup {m}
  BY <1>1, <1>2
<1>4. ASSUME MsgInv, m \notin Entries(msg_queue) \/ m = ImgSizeChg
      PROVE  MsgInv'
  <2> SUFFICES ASSUME NEW i \in 1..(Len(msg_queue) + 1),
                      NEW j \in 1..(Len(msg_queue) + 1),
                      msg_queue'[i] = msg_queue'[j],
                      msg_queue'[i] # ImgSizeChg
               PROVE  i = j
    BY <1>3 DEF MsgInv
  <2>1. m # ImgSizeChg => \A x \in 1..Len(msg_queue) : msg_queue[x] # m
    BY <1>4 DEF Entries
  <2>2. CASE i \in 1..Len(msg_queue) /\ j \in 1..Len(msg_queue)
    BY <1>3, <1>4, <2>2 DEF MsgInv
  <2>3. CASE ~(i \in 1..Len(msg_queue)) \/ ~(j \in 1..Len(msg_queue))
    BY <1>3, <2>1, <2>3
  <2> QED BY <2>2, <2>3
<1> QED BY <1>3, <1>4

(* Reading a message.                                                      *)
LEMMA Read ==
    ASSUME TypeOK, MsgInv, msg_queue # <<>>, msg_queue' = Tail(msg_queue)
    PROVE  /\ msg_queue' \in Seq(Messages)
           /\ Len(msg_queue') = Len(msg_queue) - 1
           /\ Len(msg_queue) \in Nat \ {0}
           /\ Head(msg_queue) = msg_queue[1] /\ Head(msg_queue) \in Messages
           /\ Head(msg_queue) \in Entries(msg_queue)
           /\ \A j \in 1..Len(msg_queue') : msg_queue'[j] = msg_queue[j + 1]
           /\ MsgInv'
           /\ Entries(msg_queue') \subseteq Entries(msg_queue)
           /\ \A m \in Entries(msg_queue) :
                m # Head(msg_queue) => m \in Entries(msg_queue')
           /\ Head(msg_queue) # ImgSizeChg =>
                Head(msg_queue) \notin Entries(msg_queue')
<1>1. msg_queue \in Seq(Messages) /\ Len(msg_queue) \in Nat \ {0}
  BY EmptySeq DEF TypeOK
<1>2. /\ msg_queue' \in Seq(Messages)
      /\ Len(msg_queue') = Len(msg_queue) - 1
      /\ Head(msg_queue) = msg_queue[1] /\ Head(msg_queue) \in Messages
      /\ \A j \in 1..Len(msg_queue') : msg_queue'[j] = msg_queue[j + 1]
  BY <1>1
<1>3. MsgInv'
  <2> SUFFICES ASSUME NEW i \in 1..Len(msg_queue'), NEW j \in 1..Len(msg_queue'),
                      msg_queue'[i] = msg_queue'[j], msg_queue'[i] # ImgSizeChg
               PROVE  i = j
    BY DEF MsgInv
  <2>1. i + 1 \in 1..Len(msg_queue) /\ j + 1 \in 1..Len(msg_queue)
    BY <1>1, <1>2
  <2>2. msg_queue[i + 1] = msg_queue[j + 1] /\ msg_queue[i + 1] # ImgSizeChg
    BY <1>2
  <2>3. i + 1 = j + 1
    BY <2>1, <2>2 DEF MsgInv
  <2> QED BY <1>1, <1>2, <2>3
<1>4. 1 \in 1..Len(msg_queue)
      /\ \A j \in 1..Len(msg_queue') : j + 1 \in 1..Len(msg_queue) /\ j + 1 # 1
  BY <1>1, <1>2
<1>5. Entries(msg_queue') \subseteq Entries(msg_queue)
  BY <1>2, <1>4 DEF Entries
<1>6. \A m \in Entries(msg_queue) :
        m # Head(msg_queue) => m \in Entries(msg_queue')
  <2> SUFFICES ASSUME NEW i \in 1..Len(msg_queue),
                      msg_queue[i] # Head(msg_queue)
               PROVE  msg_queue[i] \in Entries(msg_queue')
    BY DEF Entries
  <2>1. i - 1 \in 1..Len(msg_queue') /\ (i - 1) + 1 = i
    BY <1>1, <1>2
  <2>2. msg_queue'[i - 1] = msg_queue[i]
    BY <1>2, <2>1
  <2> QED BY <2>1, <2>2 DEF Entries
<1>7. ASSUME Head(msg_queue) # ImgSizeChg
      PROVE  Head(msg_queue) \notin Entries(msg_queue')
  <2>1. \A j \in 1..Len(msg_queue') : msg_queue'[j] # msg_queue[1]
    BY <1>2, <1>4, <1>7 DEF MsgInv
  <2> QED BY <1>2, <2>1 DEF Entries
<1>8. Head(msg_queue) \in Entries(msg_queue)
  BY <1>2, <1>4 DEF Entries
<1> QED BY <1>1, <1>2, <1>3, <1>5, <1>6, <1>7, <1>8

-------------------------------------------------------------------------------
(* Which steps leave a conjunct of the invariant alone.                    *)
LEMMA QueueFrame ==
    ASSUME QueueInv, UNCHANGED <<yuv_queue, status, yuv_use_cnt, held, vbuf>>,
           Uncounted' = Uncounted,
           vpc' \in Giving => vpc \in Giving,
           vpc' \in Idling => vpc \in Idling \/ held = {}
    PROVE  QueueInv'
  BY DEF QueueInv, FrameCount, Using, FramesLinkedOnce

LEMMA OwnerFrame ==
    ASSUME OwnerInv, UNCHANGED <<yuv_queue, msg_queue, client>>,
           Carried' = Carried
    PROVE  OwnerInv'
  BY DEF OwnerInv, Returned

LEMMA MsgFrame ==
    ASSUME MsgInv, UNCHANGED msg_queue
    PROVE  MsgInv'
  BY DEF MsgInv

LEMMA LateFrame ==
    ASSUME LateInv, UNCHANGED <<msg_queue, client>>,
           FlushPosted => vbuf' = vbuf,
           FlushPosted => (PauseWaits => PauseWaits')
    PROVE  LateInv'
<1> SUFFICES ASSUME NEW i \in 1..Len(msg_queue),
                    msg_queue[i] = FlushOutputDone
             PROVE  /\ LateFrames(i)' \subseteq {vbuf'}
                    /\ LateFrames(i)' # {} =>
                         \/ PauseWaits'
                         \/ \E j \in (i + 1)..Len(msg_queue) :
                              msg_queue[j] = PauseDone
  BY DEF LateInv
<1>1. FlushPosted
  BY DEF FlushPosted, Entries
<1>2. LateFrames(i)' = LateFrames(i)
  BY DEF LateFrames
<1> QED BY <1>1, <1>2 DEF LateInv

(* A message other than FLUSH_OUTPUT_DONE goes behind it.                  *)
LEMMA LatePost ==
    ASSUME TypeOK, LateInv, NEW m \in Messages, message_queue(m),
           m # FlushOutputDone, UNCHANGED <<client, vbuf>>,
           PauseWaits => PauseWaits' \/ m = PauseDone
    PROVE  LateInv'
<1>1. /\ Len(msg_queue') = Len(msg_queue) + 1 /\ Len(msg_queue) \in Nat
      /\ \A j \in 1..Len(msg_queue) : msg_queue'[j] = msg_queue[j]
      /\ msg_queue'[Len(msg_queue) + 1] = m
  BY Post
<1> SUFFICES ASSUME NEW i \in 1..Len(msg_queue'),
                    msg_queue'[i] = FlushOutputDone
             PROVE  /\ LateFrames(i)' \subseteq {vbuf'}
                    /\ LateFrames(i)' # {} =>
                         \/ PauseWaits'
                         \/ \E j \in (i + 1)..Len(msg_queue') :
                              msg_queue'[j] = PauseDone
  BY DEF LateInv
<1>2. i \in 1..Len(msg_queue) /\ msg_queue[i] = FlushOutputDone
  BY <1>1
<1>3. LateFrames(i)' = LateFrames(i)
  <2>1. \A j \in 1..(i - 1) : msg_queue'[j] = msg_queue[j]
    BY <1>1, <1>2
  <2> QED BY <2>1 DEF LateFrames
<1>4. /\ LateFrames(i) \subseteq {vbuf}
      /\ LateFrames(i) # {} =>
           \/ PauseWaits
           \/ \E j \in (i + 1)..Len(msg_queue) : msg_queue[j] = PauseDone
  BY <1>2 DEF LateInv
<1>5. ASSUME NEW j \in (i + 1)..Len(msg_queue), msg_queue[j] = PauseDone
      PROVE  \E k \in (i + 1)..Len(msg_queue') : msg_queue'[k] = PauseDone
  <2>1. j \in 1..Len(msg_queue) /\ j \in (i + 1)..Len(msg_queue')
    BY <1>1
  <2>2. msg_queue'[j] = PauseDone
    BY <1>1, <1>5, <2>1
  <2> QED BY <2>1, <2>2
<1>6. ASSUME m = PauseDone
      PROVE  \E k \in (i + 1)..Len(msg_queue') : msg_queue'[k] = PauseDone
  <2>1. Len(msg_queue) + 1 \in (i + 1)..Len(msg_queue')
    BY <1>1, <1>2
  <2> QED BY <1>1, <1>6, <2>1
<1> QED BY <1>3, <1>4, <1>5, <1>6

(* Nobody answers a flush with FLUSH_OUTPUT_DONE unless the queue is empty *)
(* and every frame is back, or a pause holds the one that is not.          *)
LEMMA LateAnswer ==
    ASSUME TypeOK, OwnerInv, FlushInv, message_queue(FlushOutputDone),
           ~FlushPosted, Entries(yuv_queue) = {},
           Carried # {} => PauseWaits',
           UNCHANGED <<client, vbuf>>
    PROVE  LateInv'
<1>1. /\ Len(msg_queue') = Len(msg_queue) + 1 /\ Len(msg_queue) \in Nat
      /\ \A j \in 1..Len(msg_queue) : msg_queue'[j] = msg_queue[j]
      /\ msg_queue'[Len(msg_queue) + 1] = FlushOutputDone
  BY Post, MessageFacts
<1> SUFFICES ASSUME NEW i \in 1..Len(msg_queue'),
                    msg_queue'[i] = FlushOutputDone
             PROVE  /\ LateFrames(i)' \subseteq {vbuf}
                    /\ LateFrames(i)' # {} => PauseWaits'
  BY DEF LateInv
<1>2. i = Len(msg_queue) + 1
  BY <1>1 DEF FlushPosted, Entries
<1>3. LateFrames(i)' \subseteq Carried
  <2> SUFFICES ASSUME NEW b \in Bufs, b \notin client,
                      \A j \in 1..(i - 1) : msg_queue'[j] # OutputDone(b)
               PROVE  b \in Carried
    BY DEF LateFrames
  <2>1. ~Returned(b)
    BY <1>1, <1>2 DEF Returned, Entries
  <2> QED BY <2>1 DEF OwnerInv
<1>4. Carried \subseteq {vbuf}
  BY DEF Carried
<1> QED BY <1>3, <1>4

-------------------------------------------------------------------------------
(* The steps that only move a thread or change a flag.                     *)
LEMMA QuietStep ==
    ASSUME OutInv,
           UNCHANGED <<yuv_queue, status, yuv_use_cnt, held, vbuf, msg_queue,
                       client>>,
           Uncounted' = Uncounted, Carried' = Carried,
           vpc' \in Giving => vpc \in Giving,
           vpc' \in Idling => vpc \in Idling \/ held = {},
           FlushPosted => (PauseWaits => PauseWaits'),
           TypeOK', FlushInv', PauseInv'
    PROVE  OutInv'
<1>1. QueueInv'
  BY QueueFrame DEF OutInv
<1>2. OwnerInv'
  BY OwnerFrame DEF OutInv
<1>3. MsgInv'
  BY MsgFrame DEF OutInv
<1>4. LateInv'
  BY LateFrame DEF OutInv
<1> QED BY <1>1, <1>2, <1>3, <1>4 DEF OutInv

(* The commands that change the state of the channel.                      *)
LEMMA CommandInv ==
    ASSUME OutInv,
           \/ channel_start_inst \/ channel_stop_inst \/ channel_pause_inst
           \/ PauseSet \/ channel_resume_inst
    PROVE  OutInv'
<1>1. /\ UNCHANGED <<yuv_queue, status, yuv_use_cnt, held, vbuf, msg_queue,
                     client, vpc, output_flush_pending, m_port_flushing,
                     resizes, recfg_flag, reason, m_port_reconfig>>
      /\ Uncounted' = Uncounted /\ Carried' = Carried
  BY DEF channel_start_inst, channel_stop_inst, channel_pause_inst, PauseSet,
         channel_resume_inst, clientVars, vpssVars, Uncounted, Carried
<1>2. TypeOK /\ QueueInv /\ FlushInv /\ PauseInv
  BY DEF OutInv
<1>3. TypeOK'
  BY <1>1, <1>2
     DEF TypeOK, channel_start_inst, channel_stop_inst, channel_pause_inst,
         PauseSet, channel_resume_inst, clientVars, vpssVars
<1>4. FlushInv'
  <2>1. cpc' = cpc \/ cpc' \notin FlushPlaces
    BY DEF channel_start_inst, channel_stop_inst, channel_pause_inst,
           PauseSet, channel_resume_inst, clientVars, FlushPlaces
  <2>2. FlushWaits' = FlushWaits /\ FlushPosted' = FlushPosted
    BY <1>1 DEF FlushWaits, FlushPosted
  <2> QED BY <1>1, <1>2, <2>1, <2>2 DEF FlushInv, FlushPlaces
<1>5. PausePosted' = PausePosted
  BY <1>1 DEF PausePosted
<1>6. PauseInv' /\ (PauseWaits => PauseWaits')
  <2>1. CASE channel_start_inst \/ channel_stop_inst
    BY <1>1, <1>2, <1>5, <2>1
       DEF channel_start_inst, channel_stop_inst, clientVars, PauseInv,
           PauseWaits, PausePlaces
  <2>2. CASE channel_pause_inst
    <3>1. /\ m_pausing = 0 /\ m_pausing' = 1 /\ pause_pending' = pause_pending
          /\ cpc' = IF yuv_use_cnt = 0 THEN "pause_post" ELSE "pause_set"
      BY <2>2 DEF channel_pause_inst
    <3>2. ~PauseWaits /\ ~PausePosted
      BY <1>2, <3>1 DEF PauseInv
    <3>3. yuv_use_cnt # 0 => vpc # "pause_clear"
      <4>1. vpc = "pause_clear" => held = {} /\ Uncounted = 0
        BY <1>2 DEF QueueInv, Idling, Uncounted
      <4> QED BY <1>2, <4>1, FS_EmptySet DEF QueueInv, FrameCount
    <3>4. cpc' = "pause_set" => pause_pending = 0
      BY <1>2, <3>1, <3>2, <3>3 DEF PauseWaits, TypeOK
    <3>5. PauseWaits' = PauseWaits
      BY <1>1, <3>1 DEF PauseWaits
    <3> QED BY <1>1, <1>2, <1>5, <3>1, <3>2, <3>4, <3>5
               DEF PauseInv, PausePlaces
  <2>3. CASE PauseSet
    BY <1>1, <1>2, <1>5, <2>3 DEF PauseSet, PauseInv, PauseWaits, PausePlaces
  <2>4. CASE channel_resume_inst
    <3>1. /\ m_pausing = 0 /\ pause_pending' = 0 /\ cpc = "ready"
          /\ m_pausing' = m_pausing /\ cpc' = cpc
      BY <2>4 DEF channel_resume_inst, clientVars
    <3>2. ~PauseWaits
      BY <1>2, <3>1 DEF PauseInv
    <3>3. vpc \in {"rel_unlink", "rel_post"} => output_flush_pending = 1
      BY <1>2, <3>2 DEF PauseInv, PauseWaits
    <3> QED BY <1>1, <1>2, <1>5, <3>1, <3>2, <3>3
               DEF PauseInv, PauseWaits, PausePlaces
  <2> QED BY <2>1, <2>2, <2>3, <2>4
<1> QED BY <1>1, <1>3, <1>4, <1>6, QuietStep

(* The beginning of a flush, and the flag it leaves for VPSS.              *)
LEMMA FlushCommandInv ==
    ASSUME OutInv,
           \/ \E why \in {"seek", "reconfig"} : channel_flush_out_port(why)
           \/ FlushKind \/ FlushLock \/ FlushSetPending \/ PortEnable
    PROVE  OutInv'
<1>1. /\ UNCHANGED <<yuv_queue, status, yuv_use_cnt, held, vbuf, msg_queue,
                     client, vpc, pause_pending, m_pausing, resizes, state>>
      /\ Uncounted' = Uncounted /\ Carried' = Carried
  BY DEF channel_flush_out_port, FlushKind, FlushLock, FlushSetPending,
         PortEnable, channelVars, vpssVars, Uncounted, Carried
<1>2. TypeOK /\ QueueInv /\ FlushInv /\ PauseInv
  BY DEF OutInv
<1>3. TypeOK'
  BY <1>1, <1>2
     DEF TypeOK, channel_flush_out_port, FlushKind, FlushLock,
         FlushSetPending, PortEnable, channelVars, vpssVars
<1>4. FlushPosted' = FlushPosted /\ PausePosted' = PausePosted
  BY <1>1 DEF FlushPosted, PausePosted
<1>5. FlushInv' /\ (output_flush_pending = 1 => output_flush_pending' = 1)
  <2>1. CASE \E why \in {"seek", "reconfig"} : channel_flush_out_port(why)
    BY <1>1, <1>2, <1>4, <2>1
       DEF channel_flush_out_port, channelVars, FlushInv, FlushWaits,
           FlushPlaces
  <2>2. CASE FlushKind
    BY <1>1, <1>2, <1>4, <2>2
       DEF FlushKind, FlushInv, FlushWaits, FlushPlaces
  <2>3. CASE FlushLock
    BY <1>1, <1>2, <1>4, <2>3
       DEF FlushLock, channelVars, FlushInv, FlushWaits, FlushPlaces
  <2>4. CASE FlushSetPending
    BY <1>1, <1>2, <1>4, <2>4
       DEF FlushSetPending, FlushInv, FlushWaits, FlushPlaces
  <2>5. CASE PortEnable
    BY <1>1, <1>2, <1>4, <2>5
       DEF PortEnable, channelVars, FlushInv, FlushWaits, FlushPlaces
  <2> QED BY <2>1, <2>2, <2>3, <2>4, <2>5
<1>6. PauseInv' /\ PauseWaits' = PauseWaits
  <2>1. cpc' = cpc \/ cpc' \notin PausePlaces
    BY DEF channel_flush_out_port, FlushKind, FlushLock, FlushSetPending,
           PortEnable, PausePlaces
  <2>2. PauseWaits' = PauseWaits
    BY <1>1 DEF PauseWaits
  <2> QED BY <1>1, <1>2, <1>4, <1>5, <2>1, <2>2 DEF PauseInv, PausePlaces
<1> QED BY <1>1, <1>3, <1>5, <1>6, QuietStep

(* The steps in which VPSS only tests, moves on, or clears a flag that it  *)
(* has answered.                                                           *)
LEMMA VpssMoveInv ==
    ASSUME OutInv,
           \/ processor_get_frame \/ GetFrameTestFlush \/ GetFrameFail
           \/ RelTest \/ ZeroTest \/ FlushClear \/ PauseClear
           \/ FlushDone /\ output_flush_pending = 0
           \/ PauseAnswer /\ pause_pending = 0
    PROVE  OutInv'
<1> DEFINE From == {"idle", "get_flush", "get_take", "rel_test", "zero_test",
                    "flush_done", "flush_clear", "pause_done", "pause_clear"}
           To   == {"idle", "get_flush", "get_take", "rel_unlink",
                    "rel_requeue", "flush_done", "pause_done"}
<1>1. /\ UNCHANGED <<yuv_queue, status, yuv_use_cnt, held, vbuf, msg_queue,
                     client, cpc, m_port_flushing, m_pausing, resizes, state,
                     recfg_flag, reason, m_port_reconfig>>
      /\ vpc \in From /\ vpc' \in To
      /\ vpc' \in {"rel_unlink", "rel_requeue"} => vpc = "rel_test"
      /\ vpc = "rel_test" => vpc' \in {"rel_unlink", "rel_requeue"}
      /\ vpc' \in Idling => vpc \in Idling \/ yuv_use_cnt = 0
      /\ output_flush_pending' =
           IF vpc = "flush_clear" THEN 0 ELSE output_flush_pending
      /\ pause_pending' = IF vpc = "pause_clear" THEN 0 ELSE pause_pending
      /\ vpc' = "rel_unlink" => output_flush_pending = 1 \/ pause_pending = 1
      /\ vpc' = "rel_requeue" => output_flush_pending # 1
  BY DEF processor_get_frame, GetFrameTestFlush, GetFrameFail, RelTest,
         ZeroTest, FlushClear, PauseClear, FlushDone, PauseAnswer,
         channelVars, clientVars, Idling
<1>2. TypeOK /\ QueueInv /\ FlushInv /\ PauseInv
  BY DEF OutInv
<1>3. Uncounted' = Uncounted /\ Carried' = Carried
  BY <1>1 DEF Uncounted, Carried
<1>4. vpc' \in Giving => vpc \in Giving
  BY <1>1 DEF Giving
<1>5. vpc' \in Idling => vpc \in Idling \/ held = {}
  <2> SUFFICES ASSUME yuv_use_cnt = 0 PROVE held = {}
    BY <1>1
  <2>1. Cardinality(held) \in Nat /\ Uncounted \in Nat
    BY <1>2, FS_CardinalityType DEF QueueInv, Uncounted
  <2>2. Cardinality(held) = 0
    BY <1>2, <2>1 DEF QueueInv, FrameCount
  <2> QED BY <1>2, <2>2, FS_EmptySet DEF QueueInv
<1>6. TypeOK'
  BY <1>1, <1>2 DEF TypeOK
<1>7. FlushPosted' = FlushPosted /\ PausePosted' = PausePosted
  BY <1>1 DEF FlushPosted, PausePosted
<1>8. /\ FlushWaits' = FlushWaits /\ PauseWaits' = PauseWaits
      /\ output_flush_pending = 0 => output_flush_pending' = 0
      /\ pause_pending = 0 => pause_pending' = 0
  BY <1>1 DEF FlushWaits, PauseWaits
<1>9. FlushInv'
  <2>1. FlushWaits /\ vpc \in Linking => vpc' \in Linking
    BY <1>1, <1>2 DEF FlushWaits, Linking, TypeOK
  <2> QED BY <1>1, <1>2, <1>7, <1>8, <2>1 DEF FlushInv, FlushPlaces
<1>10. PauseInv'
  <2>1. vpc' \in {"rel_unlink", "rel_post"} =>
          output_flush_pending' = 1 \/ pause_pending' = 1
    BY <1>1
  <2> QED BY <1>1, <1>2, <1>7, <1>8, <2>1 DEF PauseInv, PausePlaces
<1> HIDE DEF From, To
<1> QED BY <1>1, <1>3, <1>4, <1>5, <1>6, <1>8, <1>9, <1>10, QuietStep

-------------------------------------------------------------------------------
(* The steps that post a message and leave the queue of frames alone.      *)

LEMMA PausePostInv ==
    ASSUME OutInv, PausePost
    PROVE  OutInv'
<1>1. /\ cpc = "pause_post" /\ cpc' = "ready" /\ message_queue(PauseDone)
      /\ UNCHANGED <<state, yuv_queue, status, yuv_use_cnt,
                     output_flush_pending, pause_pending, recfg_flag, reason,
                     client, m_port_flushing, m_port_reconfig, m_pausing,
                     vpc, vbuf, held, resizes>>
      /\ Uncounted' = Uncounted /\ Carried' = Carried
  BY DEF PausePost, vpssVars, Uncounted, Carried
<1>2. /\ TypeOK /\ QueueInv /\ OwnerInv /\ MsgInv /\ FlushInv /\ PauseInv
      /\ LateInv
  BY DEF OutInv
<1>3. m_pausing = 1 /\ ~PausePosted /\ ~PauseWaits
  BY <1>1, <1>2 DEF PauseInv, PausePlaces
<1>4. /\ msg_queue' \in Seq(Messages)
      /\ Entries(msg_queue') = Entries(msg_queue) \cup {PauseDone}
      /\ MsgInv'
  BY <1>1, <1>2, <1>3, Post, MessageFacts DEF PausePosted
<1>5. TypeOK'
  BY <1>1, <1>2, <1>4 DEF TypeOK
<1>6. QueueInv'
  BY <1>1, <1>2, QueueFrame
<1>7. OwnerInv'
  BY <1>1, <1>2, <1>4, MessageFacts DEF OwnerInv, Returned
<1>8. FlushPosted' = FlushPosted /\ FlushWaits' = FlushWaits
      /\ PausePosted' /\ PauseWaits' = PauseWaits
  BY <1>1, <1>4, MessageFacts
     DEF FlushPosted, FlushWaits, PausePosted, PauseWaits
<1>9. FlushInv'
  BY <1>1, <1>2, <1>8 DEF FlushInv, FlushPlaces
<1>10. PauseInv'
  BY <1>1, <1>2, <1>3, <1>8 DEF PauseInv, PausePlaces
<1>11. LateInv'
  BY <1>1, <1>2, <1>8, LatePost, MessageFacts
<1> QED BY <1>4, <1>5, <1>6, <1>7, <1>9, <1>10, <1>11 DEF OutInv

LEMMA ReportImgSizeInv ==
    ASSUME OutInv, ReportImgSize
    PROVE  OutInv'
<1>1. /\ message_queue(ImgSizeChg) /\ recfg_flag' = 1
      /\ resizes < MaxResize /\ resizes' = resizes + 1
      /\ UNCHANGED <<state, yuv_queue, status, yuv_use_cnt,
                     output_flush_pending, pause_pending, cpc, reason,
                     client, m_port_flushing, m_port_reconfig, m_pausing,
                     vpc, vbuf, held>>
      /\ Uncounted' = Uncounted /\ Carried' = Carried
  BY DEF ReportImgSize, clientVars, Uncounted, Carried
<1>2. /\ TypeOK /\ QueueInv /\ OwnerInv /\ MsgInv /\ FlushInv /\ PauseInv
      /\ LateInv
  BY DEF OutInv
<1>3. /\ msg_queue' \in Seq(Messages)
      /\ Entries(msg_queue') = Entries(msg_queue) \cup {ImgSizeChg}
      /\ MsgInv'
  BY <1>1, <1>2, Post, MessageFacts
<1>4. resizes' \in 0..MaxResize
  BY <1>1, <1>2, OutputAssumption DEF TypeOK
<1>5. TypeOK'
  BY <1>1, <1>2, <1>3, <1>4 DEF TypeOK
<1>6. QueueInv'
  BY <1>1, <1>2, QueueFrame
<1>7. OwnerInv'
  BY <1>1, <1>2, <1>3, MessageFacts DEF OwnerInv, Returned
<1>8. FlushPosted' = FlushPosted /\ FlushWaits' = FlushWaits
      /\ PausePosted' = PausePosted /\ PauseWaits' = PauseWaits
  BY <1>1, <1>3, MessageFacts
     DEF FlushPosted, FlushWaits, PausePosted, PauseWaits
<1>9. FlushInv'
  BY <1>1, <1>2, <1>8 DEF FlushInv, FlushPlaces
<1>10. PauseInv'
  BY <1>1, <1>2, <1>8 DEF PauseInv, PausePlaces
<1>11. LateInv'
  BY <1>1, <1>2, <1>8, LatePost, MessageFacts
<1> QED BY <1>3, <1>5, <1>6, <1>7, <1>9, <1>10, <1>11 DEF OutInv

(* VPSS returns the buffer it has unlinked.                                *)
LEMMA ReturnFrameInv ==
    ASSUME OutInv, RelPost \/ RepPost
    PROVE  OutInv'
<1>1. /\ message_queue(OutputDone(vbuf))
      /\ vpc \in {"rel_post", "rep_post"}
      /\ vpc' = IF vpc = "rel_post" THEN "zero_test" ELSE "rep_count"
      /\ UNCHANGED <<state, yuv_queue, status, yuv_use_cnt,
                     output_flush_pending, pause_pending, recfg_flag, cpc,
                     reason, client, m_port_flushing, m_port_reconfig,
                     m_pausing, vbuf, held, resizes>>
  BY DEF RelPost, RepPost, clientVars
<1>2. /\ TypeOK /\ QueueInv /\ OwnerInv /\ MsgInv /\ FlushInv /\ PauseInv
      /\ LateInv
  BY DEF OutInv
<1>3. /\ vbuf \in Bufs /\ vbuf \notin held
      /\ Carried = {vbuf} /\ Carried' = {} /\ Uncounted' = Uncounted
      /\ vpc' \notin Giving /\ vpc' \notin Idling
  BY <1>1, <1>2 DEF QueueInv, Giving, Idling, Carried, Uncounted
<1>4. ~Returned(vbuf) /\ vbuf \notin client /\ vbuf \notin Entries(yuv_queue)
  BY <1>2, <1>3 DEF OwnerInv
<1>5. /\ msg_queue' \in Seq(Messages)
      /\ Entries(msg_queue') = Entries(msg_queue) \cup {OutputDone(vbuf)}
      /\ MsgInv'
  BY <1>1, <1>2, <1>3, <1>4, Post, MessageFacts DEF Returned
<1>6. TypeOK'
  BY <1>1, <1>2, <1>5 DEF TypeOK
<1>7. QueueInv'
  BY <1>1, <1>2, <1>3, QueueFrame
<1>8. OwnerInv'
  <2>1. \A b \in Bufs : Returned(b)' <=> Returned(b) \/ b = vbuf
    BY <1>5, MessageFacts DEF Returned
  <2> QED BY <1>1, <1>2, <1>3, <1>4, <2>1 DEF OwnerInv
<1>9. FlushPosted' = FlushPosted /\ FlushWaits' = FlushWaits
      /\ PausePosted' = PausePosted /\ PauseWaits' = PauseWaits
  BY <1>1, <1>5, MessageFacts
     DEF FlushPosted, FlushWaits, PausePosted, PauseWaits
<1>10. FlushInv'
  BY <1>1, <1>2, <1>9 DEF FlushInv, FlushPlaces, Linking
<1>11. PauseInv'
  BY <1>1, <1>2, <1>9 DEF PauseInv, PausePlaces
<1>12. LateInv'
  BY <1>1, <1>2, <1>3, <1>9, LatePost, MessageFacts
<1> QED BY <1>5, <1>6, <1>7, <1>8, <1>10, <1>11, <1>12 DEF OutInv

(* VPSS answers a pending pause.                                           *)
LEMMA PauseAnswerInv ==
    ASSUME OutInv, PauseAnswer
    PROVE  OutInv'
<1>1. CASE pause_pending = 0
  BY <1>1, VpssMoveInv
<1>2. CASE pause_pending = 1
  <2>1. /\ message_queue(PauseDone)
        /\ vpc = "pause_done" /\ vpc' = "pause_clear"
        /\ UNCHANGED <<state, yuv_queue, status, yuv_use_cnt,
                       output_flush_pending, pause_pending, recfg_flag, cpc,
                       reason, client, m_port_flushing, m_port_reconfig,
                       m_pausing, vbuf, held, resizes>>
        /\ Uncounted' = Uncounted /\ Carried' = Carried
    BY <1>2 DEF PauseAnswer, clientVars, Uncounted, Carried
  <2>2. /\ TypeOK /\ QueueInv /\ OwnerInv /\ MsgInv /\ FlushInv /\ PauseInv
        /\ LateInv
    BY DEF OutInv
  <2>3. PauseWaits /\ m_pausing = 1 /\ ~PausePosted /\ ~PauseWaits'
        /\ cpc \notin PausePlaces
    BY <1>2, <2>1, <2>2 DEF PauseInv, PauseWaits
  <2>4. /\ msg_queue' \in Seq(Messages)
        /\ Entries(msg_queue') = Entries(msg_queue) \cup {PauseDone}
        /\ MsgInv'
    BY <2>1, <2>2, <2>3, Post, MessageFacts DEF PausePosted
  <2>5. TypeOK'
    BY <2>1, <2>2, <2>4 DEF TypeOK
  <2>6. QueueInv'
    BY <2>1, <2>2, QueueFrame DEF Giving, Idling
  <2>7. OwnerInv'
    BY <2>1, <2>2, <2>4, MessageFacts DEF OwnerInv, Returned
  <2>8. FlushPosted' = FlushPosted /\ FlushWaits' = FlushWaits
    BY <2>1, <2>4, MessageFacts DEF FlushPosted, FlushWaits
  <2>9. FlushInv'
    BY <2>1, <2>2, <2>8 DEF FlushInv, FlushPlaces, Linking
  <2>10. PauseInv'
    BY <2>1, <2>2, <2>3 DEF PauseInv, PausePlaces
  <2>11. LateInv'
    BY <2>1, <2>2, <2>3, LatePost, MessageFacts
  <2> QED BY <2>4, <2>5, <2>6, <2>7, <2>9, <2>10, <2>11 DEF OutInv
<1> QED BY <1>1, <1>2 DEF OutInv, TypeOK

-------------------------------------------------------------------------------
(* The two places where a flush is answered.                               *)

LEMMA QueueFacts ==
    ASSUME TypeOK, QueueInv
    PROVE  /\ Cardinality(held) \in Nat /\ Uncounted \in {0, 1}
           /\ yuv_use_cnt = 0 => held = {} /\ Uncounted = 0
           /\ held = {} => Cardinality(held) = 0
           /\ Entries(yuv_queue) = {} => yuv_queue = <<>>
           /\ Entries(yuv_queue) \subseteq Bufs
<1>1. Cardinality(held) \in Nat /\ Uncounted \in {0, 1}
  BY FS_CardinalityType DEF QueueInv, Uncounted
<1>2. yuv_use_cnt = 0 => Cardinality(held) = 0 /\ Uncounted = 0
  BY <1>1 DEF QueueInv, FrameCount
<1>3. Cardinality(held) = 0 <=> held = {}
  BY FS_EmptySet DEF QueueInv
<1>4. yuv_queue # <<>> => yuv_queue[1] \in Entries(yuv_queue)
  <2>1. yuv_queue # <<>> => 1 \in 1..Len(yuv_queue)
    BY EmptySeq DEF TypeOK
  <2> QED BY <2>1 DEF Entries
<1>5. Entries(yuv_queue) \subseteq Bufs
  BY DEF TypeOK, Entries
<1> QED BY <1>1, <1>2, <1>3, <1>4, <1>5

(* FLUSH_OUTPUT_DONE is posted when no frame is in use or uncounted and    *)
(* nothing is linked.                                                      *)
LEMMA AnswerInv ==
    ASSUME OutInv, message_queue(FlushOutputDone),
           m_port_flushing = 1, ~FlushPosted,
           Entries(yuv_queue) = {}, held = {},
           Carried # {} => PauseWaits', ~FlushWaits', PauseInv',
           UNCHANGED <<yuv_queue, status, yuv_use_cnt, held, vbuf, client,
                       m_port_flushing>>,
           Carried' = Carried, Uncounted' = Uncounted,
           vpc' \in Giving => vpc \in Giving,
           cpc' \notin FlushPlaces,
           msg_queue' \in Seq(Messages) => TypeOK'
    PROVE  OutInv'
<1>1. /\ TypeOK /\ QueueInv /\ OwnerInv /\ MsgInv /\ FlushInv /\ LateInv
  BY DEF OutInv
<1>2. /\ msg_queue' \in Seq(Messages)
      /\ Entries(msg_queue') = Entries(msg_queue) \cup {FlushOutputDone}
      /\ MsgInv'
  BY <1>1, Post, MessageFacts DEF FlushPosted
<1>3. QueueInv'
  BY <1>1, QueueFrame
<1>4. OwnerInv'
  BY <1>1, <1>2, MessageFacts DEF OwnerInv, Returned
<1>5. yuv_queue = <<>>
  BY <1>1, QueueFacts
<1>6. FlushInv'
  BY <1>5 DEF FlushInv, FlushPlaces
<1>7. LateInv'
  BY <1>1, LateAnswer
<1> QED BY <1>2, <1>3, <1>4, <1>6, <1>7 DEF OutInv

LEMMA FlushDoneInv ==
    ASSUME OutInv, FlushDone
    PROVE  OutInv'
<1>1. CASE output_flush_pending = 0
  BY <1>1, VpssMoveInv
<1>2. CASE output_flush_pending = 1
  <2>1. /\ message_queue(FlushOutputDone)
        /\ vpc = "flush_done" /\ vpc' = "flush_clear"
        /\ UNCHANGED <<state, yuv_queue, status, yuv_use_cnt,
                       output_flush_pending, pause_pending, recfg_flag, cpc,
                       reason, client, m_port_flushing, m_port_reconfig,
                       m_pausing, vbuf, held, resizes>>
        /\ Uncounted' = Uncounted /\ Carried' = Carried /\ Carried = {}
    BY <1>2 DEF FlushDone, clientVars, Uncounted, Carried
  <2>2. TypeOK /\ QueueInv /\ FlushInv /\ PauseInv
    BY DEF OutInv
  <2>3. FlushWaits /\ ~FlushWaits'
    BY <1>2, <2>1 DEF FlushWaits
  <2>4. /\ m_port_flushing = 1 /\ ~FlushPosted /\ cpc \notin FlushPlaces
        /\ held = {} /\ Entries(yuv_queue) = {}
    BY <2>1, <2>2, <2>3 DEF FlushInv, QueueInv, Idling, Linking
  <2>5. msg_queue' \in Seq(Messages) => TypeOK'
    BY <2>1, <2>2 DEF TypeOK
  <2>6. PausePosted' = PausePosted /\ PauseWaits' = PauseWaits
    <3>1. Entries(msg_queue') = Entries(msg_queue) \cup {FlushOutputDone}
      BY <2>1, <2>2, Post, MessageFacts
    <3> QED BY <2>1, <3>1, MessageFacts DEF PausePosted, PauseWaits
  <2>7. PauseInv'
    BY <2>1, <2>2, <2>6 DEF PauseInv, PausePlaces
  <2>8. vpc' \notin Giving
    BY <2>1 DEF Giving
  <2> QED BY <2>1, <2>3, <2>4, <2>5, <2>7, <2>8, AnswerInv
<1> QED BY <1>1, <1>2 DEF OutInv, TypeOK

LEMMA FlushAnswerInv ==
    ASSUME OutInv, FlushAnswer
    PROVE  OutInv'
<1>1. /\ cpc = "flush_loop"
      /\ \A b \in Entries(yuv_queue) : status[b] = "USING"
      /\ UNCHANGED <<state, yuv_queue, status, yuv_use_cnt,
                     output_flush_pending, pause_pending, recfg_flag, reason,
                     client, m_port_flushing, m_port_reconfig, m_pausing, vpc,
                     vbuf, held, resizes>>
      /\ Uncounted' = Uncounted /\ Carried' = Carried
  BY DEF FlushAnswer, vpssVars, Uncounted, Carried
<1>2. TypeOK /\ QueueInv /\ FlushInv /\ PauseInv
  BY DEF OutInv
<1>3. Entries(yuv_queue) \subseteq held
  BY <1>1, <1>2, QueueFacts DEF QueueInv, FrameCount, Using
<1>4. /\ m_port_flushing = 1 /\ ~FlushPosted /\ ~FlushWaits
      /\ FlushWaits' = FlushWaits /\ PauseWaits' = PauseWaits
  BY <1>1, <1>2 DEF FlushInv, FlushPlaces, FlushWaits, PauseWaits
<1>5. CASE yuv_use_cnt > 0
  <2>1. cpc' = "flush_set" /\ msg_queue' = msg_queue
    BY <1>5 DEF FlushAnswer
  <2>2. vpc # "flush_clear"
    <3>1. vpc = "flush_clear" => held = {} /\ Uncounted = 0
      BY <1>2 DEF QueueInv, Idling, Uncounted
    <3> QED BY <1>2, <1>5, <3>1, QueueFacts DEF QueueInv, FrameCount, TypeOK
  <2>3. output_flush_pending = 0
    BY <1>2, <1>4, <2>2 DEF FlushWaits, TypeOK
  <2>4. TypeOK'
    BY <1>1, <1>2, <2>1 DEF TypeOK
  <2>5. FlushPosted' = FlushPosted /\ PausePosted' = PausePosted
    BY <2>1 DEF FlushPosted, PausePosted
  <2>6. FlushInv'
    BY <1>1, <1>3, <1>4, <2>1, <2>3, <2>5 DEF FlushInv
  <2>7. PauseInv'
    BY <1>1, <1>2, <1>4, <2>1, <2>5 DEF PauseInv, PausePlaces
  <2> QED BY <1>1, <1>4, <2>1, <2>4, <2>6, <2>7, QuietStep
<1>6. CASE ~(yuv_use_cnt > 0)
  <2>1. /\ cpc' = "ready" /\ message_queue(FlushOutputDone)
        /\ cpc' \notin FlushPlaces
    BY <1>6 DEF FlushAnswer, FlushPlaces
  <2>2. held = {} /\ Uncounted = 0 /\ Entries(yuv_queue) = {}
    BY <1>2, <1>3, <1>6, QueueFacts DEF TypeOK
  <2>3. Carried # {} => PauseWaits'
    <3>1. Carried # {} => vpc = "rel_post"
      BY <2>2 DEF Carried, Uncounted
    <3> QED BY <1>2, <1>4, <3>1 DEF PauseInv, PauseWaits, FlushWaits
  <2>4. msg_queue' \in Seq(Messages) => TypeOK'
    BY <1>1, <1>2, <2>1 DEF TypeOK
  <2>5. PausePosted' = PausePosted
    <3>1. Entries(msg_queue') = Entries(msg_queue) \cup {FlushOutputDone}
      BY <1>2, <2>1, Post, MessageFacts
    <3> QED BY <3>1, MessageFacts DEF PausePosted
  <2>6. PauseInv'
    BY <1>1, <1>2, <1>4, <2>1, <2>5 DEF PauseInv, PausePlaces
  <2> QED BY <1>1, <1>4, <2>1, <2>2, <2>3, <2>4, <2>6, AnswerInv
<1> QED BY <1>5, <1>6

-------------------------------------------------------------------------------
(* The steps that change yuv_queue, a status or the counter.               *)

(* Without a FLUSH_OUTPUT_DONE in the queue no frame can be late.          *)
LEMMA NothingLate ==
    ASSUME ~FlushPosted' PROVE LateInv'
  BY DEF FlushPosted, LateInv, Entries

(* Unlinking a buffer.                                                     *)
LEMMA Unlink ==
    ASSUME TypeOK, QueueInv, NEW b \in Entries(yuv_queue),
           yuv_queue' = list_del(b, yuv_queue)
    PROVE  /\ yuv_queue' \in Seq(Bufs) /\ LinkedOnce(yuv_queue')
           /\ Entries(yuv_queue)' = Entries(yuv_queue) \ {b}
<1>1. yuv_queue \in Seq(Bufs) /\ LinkedOnce(yuv_queue)
  BY DEF TypeOK, QueueInv, FramesLinkedOnce
<1>2. PICK k \in 1..Len(yuv_queue) : yuv_queue[k] = b
  BY DEF Entries
<1>3. /\ list_del(yuv_queue[k], yuv_queue) \in Seq(Bufs)
      /\ LinkedOnce(list_del(yuv_queue[k], yuv_queue))
      /\ Entries(list_del(yuv_queue[k], yuv_queue))
           = Entries(yuv_queue) \ {yuv_queue[k]}
  BY <1>1, ListDel
<1>4. Entries(yuv_queue)' = Entries(yuv_queue')
  BY DEF Entries
<1> QED BY <1>2, <1>3, <1>4

(* FTB: the refusal of a linked buffer is unreachable.                     *)
LEMMA FillInv ==
    ASSUME OutInv, NEW b \in Bufs, channel_fill_this_frame(b)
    PROVE  OutInv'
<1>1. /\ TypeOK /\ QueueInv /\ OwnerInv /\ MsgInv /\ FlushInv /\ PauseInv
      /\ cpc = "ready" /\ m_port_flushing = 0 /\ b \in client
      /\ client' = client \ {b}
  BY DEF OutInv, channel_fill_this_frame
<1>2. b \notin Entries(yuv_queue) /\ b \notin Carried /\ ~Returned(b)
  BY <1>1 DEF OwnerInv
<1>3. /\ yuv_queue' = list_add_tail(b, yuv_queue)
      /\ status' = [status EXCEPT ![b] = "QUEUED"]
      /\ UNCHANGED <<state, yuv_use_cnt, output_flush_pending, pause_pending,
                     recfg_flag, msg_queue, cpc, reason, m_port_flushing,
                     m_port_reconfig, m_pausing, vpc, vbuf, held, resizes>>
      /\ Uncounted' = Uncounted /\ Carried' = Carried
  BY <1>2 DEF channel_fill_this_frame, channel_insert_in_yuv_list, vpssVars,
              Uncounted, Carried
<1>4. /\ yuv_queue' \in Seq(Bufs) /\ LinkedOnce(yuv_queue')
      /\ Entries(yuv_queue)' = Entries(yuv_queue) \cup {b}
  <2>1. yuv_queue \in Seq(Bufs) /\ LinkedOnce(yuv_queue)
    BY <1>1 DEF TypeOK, QueueInv, FramesLinkedOnce
  <2>2. /\ list_add_tail(b, yuv_queue) \in Seq(Bufs)
        /\ LinkedOnce(list_add_tail(b, yuv_queue))
        /\ Entries(list_add_tail(b, yuv_queue)) = Entries(yuv_queue) \cup {b}
    BY <1>2, <2>1, ListAddTail
  <2>3. Entries(yuv_queue)' = Entries(yuv_queue')
    BY DEF Entries
  <2> QED BY <1>3, <2>2, <2>3
<1>5. TypeOK'
  BY <1>1, <1>3, <1>4 DEF TypeOK
<1>6. QueueInv'
  <2>1. b \notin held
    BY <1>1, <1>2 DEF QueueInv, FrameCount
  <2>2. Using' = Using
    BY <1>1, <1>3, <2>1 DEF Using, TypeOK, QueueInv, FrameCount
  <2> QED BY <1>1, <1>3, <1>4, <2>2
          DEF QueueInv, FrameCount, FramesLinkedOnce
<1>7. OwnerInv'
  BY <1>1, <1>2, <1>3, <1>4 DEF OwnerInv, Returned
<1>8. ~FlushPosted /\ ~FlushWaits /\ ~FlushPosted' /\ ~FlushWaits'
  BY <1>1, <1>3 DEF FlushInv, FlushPosted, FlushWaits
<1>9. FlushInv'
  BY <1>1, <1>3, <1>8 DEF FlushInv, FlushPlaces
<1>10. PauseInv'
  BY <1>1, <1>3 DEF PauseInv, PausePlaces, PauseWaits, PausePosted
<1> QED BY <1>1, <1>3, <1>5, <1>6, <1>7, <1>8, <1>9, <1>10, MsgFrame,
           NothingLate DEF OutInv

(* One turn of the flush loop.                                             *)
LEMMA FlushUnlinkInv ==
    ASSUME OutInv, FlushUnlink
    PROVE  OutInv'
<1>1. /\ TypeOK /\ QueueInv /\ OwnerInv /\ MsgInv /\ FlushInv /\ PauseInv
      /\ cpc = "flush_loop"
      /\ UNCHANGED <<state, yuv_use_cnt, output_flush_pending, pause_pending,
                     recfg_flag, cpc, reason, client, m_port_flushing,
                     m_port_reconfig, m_pausing, vpc, vbuf, held, resizes>>
      /\ Uncounted' = Uncounted /\ Carried' = Carried
  BY DEF OutInv, FlushUnlink, clientVars, vpssVars, Uncounted, Carried
<1>2. PICK b \in Entries(yuv_queue) :
        /\ status[b] # "USING"
        /\ status' = [status EXCEPT ![b] = "IDLE"]
        /\ yuv_queue' = list_del(b, yuv_queue)
        /\ message_queue(OutputDone(b))
  BY DEF FlushUnlink, Entries
<1>3. /\ yuv_queue' \in Seq(Bufs) /\ LinkedOnce(yuv_queue')
      /\ Entries(yuv_queue)' = Entries(yuv_queue) \ {b} /\ b \in Bufs
  BY <1>1, <1>2, Unlink, QueueFacts
<1>4. b \notin client /\ b \notin Carried /\ ~Returned(b)
  BY <1>1, <1>3 DEF OwnerInv
<1>5. /\ msg_queue' \in Seq(Messages)
      /\ Entries(msg_queue') = Entries(msg_queue) \cup {OutputDone(b)}
      /\ MsgInv'
  BY <1>1, <1>2, <1>3, <1>4, Post, MessageFacts DEF Returned
<1>6. TypeOK'
  BY <1>1, <1>2, <1>3, <1>5 DEF TypeOK
<1>7. QueueInv'
  <2>1. b \notin held
    BY <1>1, <1>2 DEF QueueInv, FrameCount, Using
  <2>2. Using' = Using
    BY <1>1, <1>2, <1>3 DEF Using, TypeOK
  <2> QED BY <1>1, <1>3, <2>1, <2>2
          DEF QueueInv, FrameCount, FramesLinkedOnce
<1>8. OwnerInv'
  <2>1. \A x \in Bufs : Returned(x)' <=> Returned(x) \/ x = b
    BY <1>5, MessageFacts DEF Returned
  <2> QED BY <1>1, <1>3, <1>4, <2>1 DEF OwnerInv
<1>9. ~FlushPosted /\ ~FlushWaits /\ ~FlushPosted' /\ ~FlushWaits'
      /\ PausePosted' = PausePosted /\ PauseWaits' = PauseWaits
  BY <1>1, <1>5, MessageFacts
     DEF FlushInv, FlushPlaces, FlushPosted, FlushWaits, PausePosted, PauseWaits
<1>10. FlushInv'
  BY <1>1, <1>9 DEF FlushInv, FlushPlaces
<1>11. PauseInv'
  BY <1>1, <1>9 DEF PauseInv, PausePlaces
<1> QED BY <1>5, <1>6, <1>7, <1>8, <1>9, <1>10, <1>11, NothingLate DEF OutInv

(* VPSS takes a frame.  It finds none while a flush waits for it or has    *)
(* been answered.                                                          *)
LEMMA GetFrameTakeInv ==
    ASSUME OutInv, GetFrameTake
    PROVE  OutInv'
<1>1. /\ TypeOK /\ QueueInv /\ OwnerInv /\ MsgInv /\ FlushInv /\ PauseInv
      /\ vpc = "get_take" /\ vpc' = "idle"
      /\ cpc # "flush_set" /\ yuv_use_cnt' = yuv_use_cnt + 1
      /\ UNCHANGED <<state, yuv_queue, output_flush_pending, pause_pending,
                     recfg_flag, msg_queue, cpc, reason, client,
                     m_port_flushing, m_port_reconfig, m_pausing, vbuf,
                     resizes>>
      /\ Uncounted' = Uncounted /\ Carried' = Carried
  BY DEF OutInv, GetFrameTake, yuv_lock_free, clientVars, Uncounted, Carried
<1>2. PICK b \in Entries(yuv_queue) :
        /\ status[b] # "USING" /\ held' = held \cup {b}
        /\ status' = [status EXCEPT ![b] = "USING"]
  BY DEF GetFrameTake
<1>3. b \in Bufs /\ b \notin held
  BY <1>1, <1>2, QueueFacts DEF QueueInv, FrameCount, Using
<1>4. TypeOK'
  BY <1>1, <1>2, <1>3 DEF TypeOK
<1>5. QueueInv'
  <2>1. Using' = Using \cup {b}
    BY <1>1, <1>2, <1>3 DEF Using, TypeOK
  <2>2. IsFiniteSet(held') /\ Cardinality(held') = Cardinality(held) + 1
    BY <1>1, <1>2, <1>3, FS_AddElement DEF QueueInv
  <2>3. FrameCount'
    <3>1. held' \subseteq Entries(yuv_queue)'
      BY <1>1, <1>2 DEF QueueInv, FrameCount
    <3>2. yuv_use_cnt' = Cardinality(held') + Uncounted'
      BY <1>1, <2>2, QueueFacts DEF QueueInv, FrameCount
    <3> QED BY <1>1, <1>2, <2>1, <3>1, <3>2 DEF QueueInv, FrameCount
  <2> QED BY <1>1, <2>2, <2>3 DEF QueueInv, FramesLinkedOnce, Giving, Idling
<1>6. OwnerInv'
  BY <1>1, OwnerFrame
<1>7. ~FlushPosted /\ ~FlushPosted' /\ ~FlushWaits /\ ~FlushWaits'
  <2>1. ~FlushPosted
    BY <1>1, <1>2 DEF FlushInv, Entries
  <2>2. ~FlushWaits
    BY <1>1, <1>2, <1>3 DEF FlushInv, Linking
  <2> QED BY <1>1, <2>1, <2>2 DEF FlushPosted, FlushWaits
<1>8. FlushInv'
  BY <1>1, <1>7 DEF FlushInv, FlushPlaces
<1>9. PauseInv'
  BY <1>1 DEF PauseInv, PausePlaces, PauseWaits, PausePosted
<1> QED BY <1>1, <1>4, <1>5, <1>6, <1>7, <1>8, <1>9, MsgFrame, NothingLate
        DEF OutInv

(* VPSS gives a frame up: it was in held and is uncounted from now on.     *)
LEMMA GiveUpFrame ==
    ASSUME TypeOK, QueueInv, NEW b \in held, held' = held \ {b},
           status' = [status EXCEPT ![b] = "IDLE"],
           yuv_use_cnt' = yuv_use_cnt, Uncounted = 0, Uncounted' = 1,
           LinkedOnce(yuv_queue'), held' \subseteq Entries(yuv_queue)',
           vbuf' = b, vpc' \notin Idling
    PROVE  QueueInv'
<1>1. b \in Bufs
  BY DEF TypeOK
<1>2. Using' = Using \ {b}
  BY <1>1 DEF Using, TypeOK
<1>3. /\ IsFiniteSet(held') /\ Cardinality(held') = Cardinality(held) - 1
      /\ Cardinality(held) \in Nat
  BY FS_RemoveElement, FS_CardinalityType DEF QueueInv
<1>4. yuv_use_cnt' = Cardinality(held') + Uncounted'
  BY <1>3 DEF QueueInv, FrameCount
<1>5. FrameCount'
  BY <1>2, <1>4 DEF QueueInv, FrameCount
<1> QED BY <1>1, <1>3, <1>5 DEF QueueInv, FramesLinkedOnce

LEMMA ReleaseFrameInv ==
    ASSUME OutInv, NEW b \in Bufs, processor_release_frame(b)
    PROVE  OutInv'
<1>1. /\ TypeOK /\ QueueInv /\ OwnerInv /\ MsgInv /\ FlushInv /\ PauseInv
      /\ b \in held /\ b \in Entries(yuv_queue)
  BY DEF OutInv, processor_release_frame, QueueInv, FrameCount
<1>2. /\ vpc = "idle" /\ vpc' = "rel_count" /\ vbuf' = b
      /\ cpc # "flush_set" /\ held' = held \ {b}
      /\ status' = [status EXCEPT ![b] = "IDLE"]
      /\ UNCHANGED <<state, yuv_queue, yuv_use_cnt, output_flush_pending,
                     pause_pending, recfg_flag, msg_queue, cpc, reason, client,
                     m_port_flushing, m_port_reconfig, m_pausing, resizes>>
      /\ Uncounted = 0 /\ Uncounted' = 1 /\ Carried' = Carried
  BY <1>1 DEF processor_release_frame, yuv_lock_free, clientVars, Uncounted,
              Carried
<1>3. TypeOK'
  BY <1>1, <1>2 DEF TypeOK
<1>4. QueueInv'
  <2>1. LinkedOnce(yuv_queue') /\ held' \subseteq Entries(yuv_queue)'
    BY <1>1, <1>2 DEF QueueInv, FramesLinkedOnce, FrameCount
  <2>2. vpc' \notin Idling
    BY <1>2 DEF Idling
  <2> QED BY <1>1, <1>2, <2>1, <2>2, GiveUpFrame
<1>5. OwnerInv'
  BY <1>1, <1>2, OwnerFrame
<1>6. ~FlushPosted /\ ~FlushPosted' /\ FlushWaits' = FlushWaits
  BY <1>1, <1>2 DEF FlushInv, FlushPosted, FlushWaits
<1>7. FlushInv'
  BY <1>1, <1>2, <1>6 DEF FlushInv, FlushPlaces, Linking
<1>8. PauseInv'
  BY <1>1, <1>2 DEF PauseInv, PausePlaces, PauseWaits, PausePosted
<1> QED BY <1>1, <1>2, <1>3, <1>4, <1>5, <1>6, <1>7, <1>8, MsgFrame,
           NothingLate DEF OutInv

LEMMA ReportFrameInv ==
    ASSUME OutInv, NEW b \in Bufs, processor_report_frame(b)
    PROVE  OutInv'
<1>1. /\ TypeOK /\ QueueInv /\ OwnerInv /\ MsgInv /\ FlushInv /\ PauseInv
      /\ b \in held /\ b \in Entries(yuv_queue)
  BY DEF OutInv, processor_report_frame, QueueInv, FrameCount
<1>2. /\ vpc = "idle" /\ vpc' = "rep_post" /\ vbuf' = b
      /\ cpc # "flush_set" /\ held' = held \ {b}
      /\ status' = [status EXCEPT ![b] = "IDLE"]
      /\ yuv_queue' = list_del(b, yuv_queue)
      /\ UNCHANGED <<state, yuv_use_cnt, output_flush_pending,
                     pause_pending, recfg_flag, msg_queue, cpc, reason, client,
                     m_port_flushing, m_port_reconfig, m_pausing, resizes>>
      /\ Uncounted = 0 /\ Uncounted' = 1 /\ Carried = {} /\ Carried' = {b}
  BY <1>1 DEF processor_report_frame, yuv_lock_free, clientVars, Uncounted,
              Carried
<1>3. /\ yuv_queue' \in Seq(Bufs) /\ LinkedOnce(yuv_queue')
      /\ Entries(yuv_queue)' = Entries(yuv_queue) \ {b}
  BY <1>1, <1>2, Unlink
<1>4. TypeOK'
  BY <1>1, <1>2, <1>3 DEF TypeOK
<1>5. QueueInv'
  <2>1. held' \subseteq Entries(yuv_queue)'
    BY <1>1, <1>2, <1>3 DEF QueueInv, FrameCount
  <2>2. vpc' \notin Idling
    BY <1>2 DEF Idling
  <2> QED BY <1>1, <1>2, <1>3, <2>1, <2>2, GiveUpFrame
<1>6. OwnerInv'
  BY <1>1, <1>2, <1>3 DEF OwnerInv, Returned
<1>7. ~FlushPosted /\ ~FlushPosted' /\ FlushWaits' = FlushWaits
  BY <1>1, <1>2 DEF FlushInv, FlushPosted, FlushWaits
<1>8. FlushInv'
  BY <1>1, <1>2, <1>3, <1>7 DEF FlushInv, FlushPlaces, Linking
<1>9. PauseInv'
  BY <1>1, <1>2 DEF PauseInv, PausePlaces, PauseWaits, PausePosted
<1> QED BY <1>1, <1>2, <1>4, <1>5, <1>6, <1>7, <1>8, <1>9, MsgFrame,
           NothingLate DEF OutInv

(* The frame is counted out.                                               *)
LEMMA CountOutInv ==
    ASSUME OutInv, RelCount \/ RepCount
    PROVE  OutInv'
<1>1. /\ TypeOK /\ QueueInv /\ OwnerInv /\ MsgInv /\ FlushInv /\ PauseInv
      /\ LateInv
  BY DEF OutInv
<1>2. /\ vpc \in {"rel_count", "rep_count"}
      /\ vpc' = IF vpc = "rel_count" THEN "rel_test" ELSE "zero_test"
      /\ yuv_use_cnt' = Dec(yuv_use_cnt)
      /\ UNCHANGED <<state, yuv_queue, status, output_flush_pending,
                     pause_pending, recfg_flag, msg_queue, cpc, reason, client,
                     m_port_flushing, m_port_reconfig, m_pausing, vbuf, held,
                     resizes>>
      /\ Uncounted = 1 /\ Uncounted' = 0 /\ Carried' = Carried
  BY DEF RelCount, RepCount, clientVars, Uncounted, Carried
<1>3. /\ Cardinality(held) \in Nat
      /\ yuv_use_cnt = Cardinality(held) + 1
      /\ yuv_use_cnt' = Cardinality(held)
  BY <1>1, <1>2, QueueFacts DEF QueueInv, FrameCount, Dec
<1>4. TypeOK'
  BY <1>1, <1>2, <1>3 DEF TypeOK
<1>5. QueueInv'
  BY <1>1, <1>2, <1>3
     DEF QueueInv, FrameCount, Using, FramesLinkedOnce, Giving, Idling
<1>6. OwnerInv'
  BY <1>1, <1>2, OwnerFrame
<1>7. FlushPosted' = FlushPosted /\ FlushWaits' = FlushWaits
      /\ PausePosted' = PausePosted /\ PauseWaits' = PauseWaits
  BY <1>2 DEF FlushPosted, FlushWaits, PausePosted, PauseWaits
<1>8. FlushInv'
  BY <1>1, <1>2, <1>7 DEF FlushInv, FlushPlaces, Linking
<1>9. PauseInv'
  BY <1>1, <1>2, <1>7 DEF PauseInv, PausePlaces
<1>10. LateInv'
  BY <1>1, <1>2, <1>7, LateFrame
<1> QED BY <1>1, <1>2, <1>4, <1>5, <1>6, <1>8, <1>9, <1>10, MsgFrame
        DEF OutInv

(* The frame is unlinked, or found unlinked.                               *)
LEMMA RelUnlinkInv ==
    ASSUME OutInv, RelUnlink
    PROVE  OutInv'
<1>1. /\ TypeOK /\ QueueInv /\ OwnerInv /\ MsgInv /\ FlushInv /\ PauseInv
      /\ LateInv
  BY DEF OutInv
<1>2. /\ vpc = "rel_unlink" /\ cpc # "flush_set"
      /\ UNCHANGED <<state, status, yuv_use_cnt, output_flush_pending,
                     pause_pending, recfg_flag, msg_queue, cpc, reason, client,
                     m_port_flushing, m_port_reconfig, m_pausing, vbuf, held,
                     resizes>>
      /\ \/ vpc' = "rel_post" /\ vbuf \in Entries(yuv_queue)
            /\ yuv_queue' = list_del(vbuf, yuv_queue)
         \/ vpc' = "oops" /\ vbuf \notin Entries(yuv_queue)
            /\ yuv_queue' = yuv_queue
      /\ Uncounted' = Uncounted /\ Carried = {}
      /\ Carried' = IF vpc' = "rel_post" THEN {vbuf} ELSE {}
  BY DEF RelUnlink, yuv_lock_free, clientVars, Uncounted, Carried
<1>3. vbuf \in Bufs /\ vbuf \notin held
  BY <1>1, <1>2 DEF QueueInv, Giving
<1>4. /\ yuv_queue' \in Seq(Bufs) /\ LinkedOnce(yuv_queue')
      /\ Entries(yuv_queue)' = Entries(yuv_queue) \ {vbuf}
  <2>1. CASE vpc' = "rel_post"
    BY <1>1, <1>2, <2>1, Unlink
  <2>2. CASE vpc' = "oops"
    <3>1. yuv_queue' = yuv_queue /\ vbuf \notin Entries(yuv_queue)
      BY <1>2, <2>2
    <3>2. Entries(yuv_queue)' = Entries(yuv_queue)
      BY <3>1 DEF Entries
    <3> QED BY <1>1, <3>1, <3>2 DEF TypeOK, QueueInv, FramesLinkedOnce
  <2> QED BY <1>2, <2>1, <2>2
<1>5. TypeOK'
  BY <1>1, <1>2, <1>4 DEF TypeOK
<1>6. QueueInv'
  BY <1>1, <1>2, <1>3, <1>4
     DEF QueueInv, FrameCount, Using, FramesLinkedOnce, Giving, Idling
<1>7. OwnerInv'
  BY <1>1, <1>2, <1>3, <1>4 DEF OwnerInv, Returned
<1>8. FlushPosted' = FlushPosted /\ FlushWaits' = FlushWaits
      /\ PausePosted' = PausePosted /\ PauseWaits' = PauseWaits
  BY <1>2 DEF FlushPosted, FlushWaits, PausePosted, PauseWaits
<1>9. FlushInv'
  <2>1. FlushPosted => yuv_queue' = yuv_queue
    BY <1>1, <1>2 DEF FlushInv, Entries
  <2> QED BY <1>1, <1>2, <1>4, <1>8, <2>1 DEF FlushInv, FlushPlaces
<1>10. PauseInv'
  BY <1>1, <1>2, <1>8 DEF PauseInv, PausePlaces
<1>11. LateInv'
  BY <1>1, <1>2, <1>8, LateFrame
<1> QED BY <1>1, <1>2, <1>5, <1>6, <1>7, <1>9, <1>10, <1>11, MsgFrame
        DEF OutInv

(* The frame stays linked, or has been flushed meanwhile; either way only  *)
(* its status is written.                                                  *)
LEMMA RelRequeueInv ==
    ASSUME OutInv, RelRequeue
    PROVE  OutInv'
<1>1. /\ TypeOK /\ QueueInv /\ OwnerInv /\ MsgInv /\ FlushInv /\ PauseInv
      /\ LateInv
  BY DEF OutInv
<1>2. /\ vpc = "rel_requeue" /\ vpc' = "idle"
      /\ status' = [status EXCEPT ![vbuf] = "QUEUED"]
      /\ UNCHANGED <<state, yuv_queue, yuv_use_cnt, output_flush_pending,
                     pause_pending, recfg_flag, msg_queue, cpc, reason, client,
                     m_port_flushing, m_port_reconfig, m_pausing, vbuf, held,
                     resizes>>
      /\ Uncounted' = Uncounted /\ Carried' = Carried
  BY DEF RelRequeue, clientVars, Uncounted, Carried
<1>3. vbuf \in Bufs /\ vbuf \notin held
  BY <1>1, <1>2 DEF QueueInv, Giving
<1>4. TypeOK'
  BY <1>1, <1>2, <1>3 DEF TypeOK
<1>5. QueueInv'
  <2>1. Using' = Using
    BY <1>1, <1>2, <1>3 DEF Using, TypeOK, QueueInv, FrameCount
  <2> QED BY <1>1, <1>2, <2>1
          DEF QueueInv, FrameCount, FramesLinkedOnce, Giving, Idling
<1>6. OwnerInv'
  BY <1>1, <1>2, OwnerFrame
<1>7. FlushPosted' = FlushPosted /\ FlushWaits' = FlushWaits
      /\ PausePosted' = PausePosted /\ PauseWaits' = PauseWaits
  BY <1>2 DEF FlushPosted, FlushWaits, PausePosted, PauseWaits
<1>8. FlushInv'
  BY <1>1, <1>2, <1>7 DEF FlushInv, FlushPlaces, Linking
<1>9. PauseInv'
  BY <1>1, <1>2, <1>7 DEF PauseInv, PausePlaces
<1>10. LateInv'
  BY <1>1, <1>2, <1>7, LateFrame
<1> QED BY <1>1, <1>2, <1>4, <1>5, <1>6, <1>8, <1>9, <1>10, MsgFrame
        DEF OutInv

-------------------------------------------------------------------------------
(* The client reads a message: everything moves up one place, and whatever *)
(* the message was about is the client's.                                  *)
LEMMA GetMessageInv ==
    ASSUME OutInv, channel_get_message
    PROVE  OutInv'
<1> DEFINE m == Head(msg_queue)
<1>1. /\ TypeOK /\ QueueInv /\ OwnerInv /\ MsgInv /\ FlushInv /\ PauseInv
      /\ LateInv
  BY DEF OutInv
<1>2. /\ msg_queue # <<>> /\ msg_queue' = Tail(msg_queue)
      /\ client' = IF m.msgcode = "OUTPUT_DONE" THEN client \cup {m.buf}
                                                ELSE client
      /\ m_port_flushing' = IF m = FlushOutputDone THEN 0 ELSE m_port_flushing
      /\ m_pausing' = IF m = PauseDone THEN 0 ELSE m_pausing
      /\ m_port_reconfig' = IF m = ImgSizeChg THEN 1 ELSE m_port_reconfig
      /\ UNCHANGED <<state, yuv_queue, status, yuv_use_cnt,
                     output_flush_pending, pause_pending, recfg_flag, cpc,
                     reason, vpc, vbuf, held, resizes>>
      /\ Uncounted' = Uncounted /\ Carried' = Carried
  BY DEF channel_get_message, vpssVars, Uncounted, Carried
<1>3. /\ msg_queue' \in Seq(Messages)
      /\ Len(msg_queue') = Len(msg_queue) - 1 /\ Len(msg_queue) \in Nat \ {0}
      /\ m = msg_queue[1] /\ m \in Messages /\ m \in Entries(msg_queue)
      /\ \A j \in 1..Len(msg_queue') : msg_queue'[j] = msg_queue[j + 1]
      /\ MsgInv'
      /\ Entries(msg_queue') \subseteq Entries(msg_queue)
      /\ \A x \in Entries(msg_queue) : x # m => x \in Entries(msg_queue')
      /\ m # ImgSizeChg => m \notin Entries(msg_queue')
  BY <1>1, <1>2, Read
<1> HIDE DEF m
<1>4. \/ m \in {FlushOutputDone, PauseDone, ImgSizeChg}
           /\ client' = client
      \/ \E b \in Bufs : m = OutputDone(b) /\ client' = client \cup {b}
  BY <1>2, <1>3, MessageFacts
<1>5. TypeOK'
  <2>1. client' \subseteq Bufs
    BY <1>1, <1>4 DEF TypeOK
  <2> QED BY <1>1, <1>2, <1>3, <2>1 DEF TypeOK
<1>6. QueueInv'
  BY <1>1, <1>2, QueueFrame
<1>7. OwnerInv'
  <2>1. CASE m \in {FlushOutputDone, PauseDone, ImgSizeChg} /\ client' = client
    <3>1. \A b \in Bufs : Returned(b)' <=> Returned(b)
      BY <1>3, <2>1, MessageFacts DEF Returned
    <3> QED BY <1>1, <1>2, <2>1, <3>1 DEF OwnerInv
  <2>2. ASSUME NEW b \in Bufs, m = OutputDone(b), client' = client \cup {b}
        PROVE  OwnerInv'
    <3>1. Returned(b) /\ ~Returned(b)'
      BY <1>3, <2>2, MessageFacts DEF Returned
    <3>2. \A x \in Bufs \ {b} : Returned(x)' <=> Returned(x)
      BY <1>3, <2>2, MessageFacts DEF Returned
    <3> QED BY <1>1, <1>2, <2>2, <3>1, <3>2 DEF OwnerInv
  <2> QED BY <1>4, <2>1, <2>2
<1>8. /\ FlushPosted' <=> FlushPosted /\ m # FlushOutputDone
      /\ PausePosted' <=> PausePosted /\ m # PauseDone
      /\ m = FlushOutputDone => FlushPosted
      /\ m = PauseDone => PausePosted
      /\ FlushWaits' = FlushWaits /\ PauseWaits' = PauseWaits
  BY <1>2, <1>3, MessageFacts
     DEF FlushPosted, PausePosted, FlushWaits, PauseWaits
<1>9. FlushInv'
  BY <1>1, <1>2, <1>8 DEF FlushInv
<1>10. PauseInv'
  BY <1>1, <1>2, <1>8 DEF PauseInv
<1>11. LateInv'
  <2> SUFFICES ASSUME NEW i \in 1..Len(msg_queue'),
                      msg_queue'[i] = FlushOutputDone
               PROVE  /\ LateFrames(i)' \subseteq {vbuf'}
                      /\ LateFrames(i)' # {} =>
                           \/ PauseWaits'
                           \/ \E j \in (i + 1)..Len(msg_queue') :
                                msg_queue'[j] = PauseDone
    BY DEF LateInv
  <2>1. i + 1 \in 1..Len(msg_queue) /\ msg_queue[i + 1] = FlushOutputDone
    BY <1>3
  <2>2. LateFrames(i)' \subseteq LateFrames(i + 1)
    <3> SUFFICES ASSUME NEW b \in Bufs, b \notin client',
                        \A j \in 1..(i - 1) : msg_queue'[j] # OutputDone(b),
                        NEW j \in 1..((i + 1) - 1)
                 PROVE  b \notin client /\ msg_queue[j] # OutputDone(b)
      <4>1. client \subseteq client'
        BY <1>4
      <4> QED BY <4>1 DEF LateFrames
    <3>1. CASE j = 1
      <4>1. m # OutputDone(b)
        BY <1>4, MessageFacts
      <4> QED BY <1>3, <1>4, <3>1, <4>1
    <3>2. CASE j # 1
      <4>1. /\ j - 1 \in 1..(i - 1) /\ j - 1 \in 1..Len(msg_queue')
            /\ (j - 1) + 1 = j
        BY <1>3, <3>2
      <4>2. msg_queue'[j - 1] = msg_queue[j]
        BY <1>3, <4>1
      <4> QED BY <1>4, <4>1, <4>2
    <3> QED BY <3>1, <3>2
  <2>3. /\ LateFrames(i + 1) \subseteq {vbuf}
        /\ LateFrames(i + 1) # {} =>
             \/ PauseWaits
             \/ \E j \in ((i + 1) + 1)..Len(msg_queue) :
                  msg_queue[j] = PauseDone
    BY <1>1, <2>1 DEF LateInv
  <2>4. ASSUME NEW j \in ((i + 1) + 1)..Len(msg_queue),
               msg_queue[j] = PauseDone
        PROVE  \E k \in (i + 1)..Len(msg_queue') : msg_queue'[k] = PauseDone
    <3>1. /\ j - 1 \in (i + 1)..Len(msg_queue') /\ j - 1 \in 1..Len(msg_queue')
          /\ (j - 1) + 1 = j
      BY <1>3
    <3>2. msg_queue'[j - 1] = PauseDone
      BY <1>3, <2>4, <3>1
    <3> QED BY <3>1, <3>2
  <2>5. LateFrames(i)' # {} => LateFrames(i + 1) # {}
    BY <2>2
  <2> QED BY <1>2, <1>8, <2>2, <2>3, <2>4, <2>5
<1> QED BY <1>3, <1>5, <1>6, <1>7, <1>9, <1>10, <1>11 DEF OutInv

-------------------------------------------------------------------------------
LEMMA InitInv == Init => OutInv
<1> SUFFICES ASSUME Init PROVE OutInv
  OBVIOUS
<1> USE OutputAssumption
<1>1. /\ Entries(yuv_queue) = {} /\ Entries(msg_queue) = {}
      /\ Len(msg_queue) = 0 /\ Len(yuv_queue) = 0
  BY DEF Init, Entries
<1>2. TypeOK
  <2>1. yuv_queue \in Seq(Bufs) /\ msg_queue \in Seq(Messages)
    BY DEF Init
  <2>2. resizes \in 0..MaxResize
    BY DEF Init
  <2> QED BY <2>1, <2>2 DEF Init, TypeOK
<1>3. QueueInv
  <2>1. Using = {} /\ Uncounted = 0
    BY DEF Init, Using, Uncounted
  <2> QED BY <1>1, <2>1, FS_EmptySet
      DEF Init, QueueInv, FrameCount, FramesLinkedOnce, LinkedOnce, Giving,
          Idling
<1>4. OwnerInv
  BY <1>1 DEF Init, OwnerInv, Carried, Returned
<1>5. MsgInv /\ LateInv
  BY <1>1 DEF MsgInv, LateInv
<1>6. FlushInv /\ PauseInv
  BY <1>1 DEF Init, FlushInv, PauseInv, FlushPlaces, PausePlaces, FlushWaits,
              PauseWaits, FlushPosted, PausePosted
<1> QED BY <1>2, <1>3, <1>4, <1>5, <1>6 DEF OutInv

LEMMA NextInv == OutInv /\ [Next]_vars => OutInv'
<1> SUFFICES ASSUME OutInv, [Next]_vars PROVE OutInv'
  OBVIOUS
<1>1. CASE \/ channel_start_inst \/ channel_stop_inst
           \/ channel_pause_inst \/ channel_resume_inst
  BY <1>1, CommandInv
<1>2. ASSUME NEW b \in Bufs, channel_fill_this_frame(b) PROVE OutInv'
  BY <1>2, FillInv
<1>3. CASE \E why \in {"seek", "reconfig"} : channel_flush_out_port(why)
  BY <1>3, FlushCommandInv
<1>4. CASE EventThread
  BY <1>4, CommandInv, PausePostInv, FlushCommandInv, FlushUnlinkInv,
     FlushAnswerInv DEF EventThread
<1>5. CASE ReportImgSize
  BY <1>5, ReportImgSizeInv
<1>6. CASE processor_get_frame
  BY <1>6, VpssMoveInv
<1>7. ASSUME NEW b \in Bufs,
             processor_release_frame(b) \/ processor_report_frame(b)
      PROVE  OutInv'
  BY <1>7, ReleaseFrameInv, ReportFrameInv
<1>8. CASE VpssThread
  BY <1>8, VpssMoveInv, GetFrameTakeInv, CountOutInv, RelUnlinkInv,
     ReturnFrameInv, RelRequeueInv, FlushDoneInv, PauseAnswerInv
     DEF VpssThread
<1>9. CASE channel_get_message
  BY <1>9, GetMessageInv
<1>10. CASE PortEnable
  BY <1>10, FlushCommandInv
<1>11. CASE UNCHANGED vars
  <2>1. UNCHANGED <<channelVars, clientVars, vpssVars>>
    BY <1>11 DEF vars
  <2>2. /\ TypeOK' /\ Uncounted' = Uncounted /\ Carried' = Carried
    BY <2>1 DEF OutInv, TypeOK, Uncounted, Carried, channelVars, clientVars,
                vpssVars
  <2>3. FlushPosted' = FlushPosted /\ FlushWaits' = FlushWaits
        /\ PausePosted' = PausePosted /\ PauseWaits' = PauseWaits
    BY <2>1 DEF FlushPosted, FlushWaits, PausePosted, PauseWaits, channelVars,
                vpssVars
  <2>4. FlushInv' /\ PauseInv'
    BY <2>1, <2>3 DEF OutInv, FlushInv, PauseInv, channelVars, clientVars,
                      vpssVars
  <2>5. UNCHANGED <<yuv_queue, status, yuv_use_cnt, held, vbuf, msg_queue,
                    client, vpc>>
    BY <2>1 DEF channelVars, clientVars, vpssVars
  <2> QED BY <2>2, <2>3, <2>4, <2>5, QuietStep
<1> QED BY <1>1, <1>2, <1>3, <1>4, <1>5, <1>6, <1>7, <1>8, <1>9, <1>10, <1>11
        DEF Next

(* OutInv holds in every reachable state of the output port.               *)
THEOREM OutputInvariance == Spec => []OutInv
BY InitInv, NextInv, PTL DEF Spec

(* Every field of the channel and every place of its threads stays within  *)
(* its type.                                                               *)
THEOREM OutputTypeCorrect == Spec => []TypeOK
<1>1. OutInv => TypeOK
  BY DEF OutInv
<1> QED BY <1>1, OutputInvariance, PTL

(* yuv_use_cnt, changed outside yuv_lock, counts the frames VPSS holds and *)
(* the one it is giving back; what VPSS holds is linked and USING.         *)
THEOREM FramesAreCounted == Spec => []FrameCount
<1>1. OutInv => FrameCount
  BY DEF OutInv, QueueInv
<1> QED BY <1>1, OutputInvariance, PTL

(* No step of any thread links a frame buffer that is already linked.      *)
THEOREM FramesAreLinkedOnce == Spec => []FramesLinkedOnce
<1>1. OutInv => FramesLinkedOnce
  BY DEF OutInv, QueueInv
<1> QED BY <1>1, OutputInvariance, PTL

(* The client, yuv_queue, the VPSS thread and the messages never share a   *)
(* frame buffer, and none is lost.                                         *)
THEOREM FramesHaveOneOwner == Spec => []OneFrameOwner
<1>1. OutInv => OneFrameOwner
  <2> SUFFICES ASSUME OutInv PROVE OneFrameOwner
    OBVIOUS
  <2>1. OwnerInv /\ MsgInv
    BY DEF OutInv
  <2>2. ASSUME NEW b \in Bufs
        PROVE  Cardinality({o \in {"client", "queue", "vpss", "message"} :
                              \/ o = "client" /\ b \in client
                              \/ o = "queue" /\ b \in Entries(yuv_queue)
                              \/ o = "vpss" /\ b \in Carried
                              \/ o = "message" /\ Returned(b)}) = 1
    <3> DEFINE S == {o \in {"client", "queue", "vpss", "message"} :
                       \/ o = "client" /\ b \in client
                       \/ o = "queue" /\ b \in Entries(yuv_queue)
                       \/ o = "vpss" /\ b \in Carried
                       \/ o = "message" /\ Returned(b)}
    <3>1. \E x : S = {x}
      <4>1. CASE b \in client
        <5>1. S = {"client"}
          BY <2>1, <4>1 DEF OwnerInv
        <5> QED BY <5>1
      <4>2. CASE b \in Entries(yuv_queue)
        <5>1. S = {"queue"}
          BY <2>1, <4>2 DEF OwnerInv
        <5> QED BY <5>1
      <4>3. CASE b \in Carried
        <5>1. S = {"vpss"}
          BY <2>1, <4>3 DEF OwnerInv
        <5> QED BY <5>1
      <4>4. CASE Returned(b)
        <5>1. S = {"message"}
          BY <2>1, <4>4 DEF OwnerInv
        <5> QED BY <5>1
      <4> QED BY <2>1, <4>1, <4>2, <4>3, <4>4 DEF OwnerInv
    <3> HIDE DEF S
    <3>2. Cardinality(S) = 1
      BY <3>1, FS_Singleton
    <3> QED BY <3>2 DEF S
  <2>3. ASSUME NEW b \in Bufs,
               NEW i \in 1..Len(msg_queue), NEW j \in 1..Len(msg_queue),
               msg_queue[i] = OutputDone(b), msg_queue[j] = OutputDone(b)
        PROVE  i = j
    BY <2>1, <2>3, MessageFacts DEF MsgInv
  <2> QED BY <2>2, <2>3 DEF OneFrameOwner
<1> QED BY <1>1, OutputInvariance, PTL

(* FLUSH_OUTPUT_DONE is posted when nothing is linked and VPSS holds no    *)
(* frame; at most one frame returns behind it, and only because of a       *)
(* pause.                                                                  *)
THEOREM FlushDrainsFrames == Spec => []FrameFlushDrains
<1>1. OutInv => FrameFlushDrains
  <2> SUFFICES ASSUME OutInv, NEW i \in 1..Len(msg_queue),
                      msg_queue[i] = FlushOutputDone
               PROVE  /\ yuv_queue = <<>> /\ held = {}
                      /\ Cardinality(LateFrames(i)) <= 1
                      /\ LateFrames(i) # {} =>
                           pause_pending = 1 \/ PauseDone \in Entries(msg_queue)
    BY DEF FrameFlushDrains
  <2>1. FlushPosted
    BY DEF FlushPosted, Entries
  <2>2. yuv_queue = <<>> /\ held = {}
    BY <2>1 DEF OutInv, FlushInv
  <2>3. /\ LateFrames(i) \subseteq {vbuf}
        /\ LateFrames(i) # {} =>
             \/ PauseWaits
             \/ \E j \in (i + 1)..Len(msg_queue) : msg_queue[j] = PauseDone
    BY DEF OutInv, LateInv
  <2>4. Cardinality(LateFrames(i)) <= 1
    <3>1. LateFrames(i) = {} \/ LateFrames(i) = {vbuf}
      BY <2>3
    <3>2. Cardinality({}) = 0 /\ Cardinality({vbuf}) = 1
      BY FS_EmptySet, FS_Singleton
    <3>3. Cardinality(LateFrames(i)) = 0 \/ Cardinality(LateFrames(i)) = 1
      BY <3>1, <3>2, Zenon
    <3> QED BY <3>3
  <2>5. ASSUME NEW j \in (i + 1)..Len(msg_queue), msg_queue[j] = PauseDone
        PROVE  PauseDone \in Entries(msg_queue)
    <3>1. j \in 1..Len(msg_queue)
      BY DEF OutInv, TypeOK
    <3> QED BY <2>5, <3>1 DEF Entries
  <2> QED BY <2>2, <2>3, <2>4, <2>5 DEF PauseWaits
<1> QED BY <1>1, OutputInvariance, PTL

-------------------------------------------------------------------------------
(* OmxOutputPort implements BufferPort for any set of frame buffers, but   *)
(* for LateEnd: with a pause the last frame may return behind              *)
(* FLUSH_OUTPUT_DONE (FrameFlushDrains), and the client's flush then ends  *)
(* before it owns every buffer.                                            *)

(* What holds in a channel whose client never pauses.                      *)
NoPause ==
    /\ cpc \notin PausePlaces /\ pause_pending = 0 /\ ~PausePosted
    /\ m_pausing = 0

(* A step that moves no buffer and leaves the flush alone is a stutter.    *)
LEMMA Stutter ==
    ASSUME UNCHANGED <<client, m_port_flushing>>,
           \A b \in Bufs : Returned(b)' <=> Returned(b)
    PROVE  [Port!PortNext]_(Port!portVars)
<1>1. ClientOwner' = ClientOwner
  BY DEF ClientOwner
<1> QED BY <1>1 DEF Port!portVars

(* Posting a message that is no OUTPUT_DONE is invisible to the client.    *)
LEMMA OtherMessage ==
    ASSUME TypeOK, NEW m \in {FlushOutputDone, PauseDone, ImgSizeChg},
           message_queue(m), UNCHANGED <<client, m_port_flushing>>
    PROVE  [Port!PortNext]_(Port!portVars)
<1>1. m \in Messages
  BY MessageFacts
<1>2. Entries(msg_queue') = Entries(msg_queue) \cup {m}
  BY <1>1, Post
<1>3. \A b \in Bufs : Returned(b)' <=> Returned(b)
  BY <1>2, MessageFacts DEF Returned
<1> QED BY <1>3, Stutter

(* Posting the OUTPUT_DONE of a buffer that the driver has is a Return.    *)
LEMMA Returns ==
    ASSUME TypeOK, NEW b \in Bufs, b \notin client, ~Returned(b),
           message_queue(OutputDone(b)), UNCHANGED <<client, m_port_flushing>>
    PROVE  [Port!PortNext]_(Port!portVars)
<1>1. OutputDone(b) \in Messages
  BY MessageFacts
<1>2. Entries(msg_queue') = Entries(msg_queue) \cup {OutputDone(b)}
  BY <1>1, Post
<1>3. \A c \in Bufs : Returned(c)' <=> Returned(c) \/ c = b
  BY <1>2, MessageFacts DEF Returned
<1>4. ClientOwner[b] = "driver"
  BY DEF ClientOwner
<1>5. ClientOwner' = [ClientOwner EXCEPT ![b] = "message"]
  BY <1>3 DEF ClientOwner
<1>6. Port!Return(b)
  BY <1>4, <1>5 DEF Port!Return
<1> QED BY <1>6 DEF Port!PortNext

-------------------------------------------------------------------------------
(* An FTB is a Submit: the client's buffers are never linked.              *)
LEMMA FillRefines ==
    ASSUME OutInv, NEW b \in Bufs, channel_fill_this_frame(b)
    PROVE  [Port!PortNext]_(Port!portVars)
<1>1. b \in client /\ b \notin Entries(yuv_queue) /\ ~Returned(b)
  BY DEF channel_fill_this_frame, OutInv, OwnerInv
<1>2. /\ client' = client \ {b} /\ m_port_flushing = 0
      /\ UNCHANGED <<msg_queue, m_port_flushing>>
  BY <1>1 DEF channel_fill_this_frame
<1>3. \A c \in Bufs : Returned(c)' <=> Returned(c)
  BY <1>2 DEF Returned
<1>4. ClientOwner[b] = "client"
  BY <1>1 DEF ClientOwner
<1>5. ClientOwner' = [ClientOwner EXCEPT ![b] = "driver"]
  BY <1>1, <1>2, <1>3 DEF ClientOwner
<1>6. Port!Submit(b)
  BY <1>2, <1>4, <1>5 DEF Port!Submit
<1> QED BY <1>6 DEF Port!PortNext

(* The flush loop returns the buffer it unlinks.                           *)
LEMMA FlushUnlinkRefines ==
    ASSUME OutInv, FlushUnlink
    PROVE  [Port!PortNext]_(Port!portVars)
<1>1. PICK b \in Entries(yuv_queue) : message_queue(OutputDone(b))
  BY DEF FlushUnlink, Entries
<1>2. TypeOK /\ b \in Bufs /\ b \notin client /\ ~Returned(b)
  BY QueueFacts DEF OutInv, OwnerInv
<1>3. UNCHANGED <<client, m_port_flushing>>
  BY DEF FlushUnlink, clientVars
<1> QED BY <1>1, <1>2, <1>3, Returns

(* VPSS returns the buffer it carries.                                     *)
LEMMA ReturnRefines ==
    ASSUME OutInv, RelPost \/ RepPost
    PROVE  [Port!PortNext]_(Port!portVars)
<1>1. /\ vpc \in {"rel_post", "rep_post"} /\ message_queue(OutputDone(vbuf))
      /\ UNCHANGED <<client, m_port_flushing>>
  BY DEF RelPost, RepPost, clientVars
<1>2. vbuf \in Bufs /\ vbuf \in Carried
  BY <1>1 DEF OutInv, QueueInv, Giving, Carried
<1>3. TypeOK /\ vbuf \notin client /\ ~Returned(vbuf)
  BY <1>2 DEF OutInv, OwnerInv
<1> QED BY <1>1, <1>2, <1>3, Returns

(* Reading OUTPUT_DONE collects its buffer.  Reading FLUSH_OUTPUT_DONE     *)
(* ends the flush, or is the LateEnd that a pause allows.                  *)
LEMMA GetMessageRefines ==
    ASSUME OutInv, channel_get_message
    PROVE  [Port!PortNext]_(Port!portVars) \/ LateEnd
<1> DEFINE m == Head(msg_queue)
<1>1. TypeOK /\ OwnerInv /\ MsgInv /\ FlushInv /\ LateInv
  BY DEF OutInv
<1>2. /\ msg_queue # <<>> /\ msg_queue' = Tail(msg_queue)
      /\ client' = IF m.msgcode = "OUTPUT_DONE" THEN client \cup {m.buf}
                                                ELSE client
      /\ m_port_flushing' = IF m = FlushOutputDone THEN 0 ELSE m_port_flushing
  BY DEF channel_get_message
<1>3. /\ Len(msg_queue) \in Nat \ {0}
      /\ m = msg_queue[1] /\ m \in Messages /\ m \in Entries(msg_queue)
      /\ Entries(msg_queue') \subseteq Entries(msg_queue)
      /\ \A x \in Entries(msg_queue) : x # m => x \in Entries(msg_queue')
      /\ m # ImgSizeChg => m \notin Entries(msg_queue')
  BY <1>1, <1>2, Read
<1> HIDE DEF m
<1>4. ASSUME NEW b \in Bufs, m = OutputDone(b)
      PROVE  [Port!PortNext]_(Port!portVars)
  <2>1. client' = client \cup {b} /\ UNCHANGED m_port_flushing
    BY <1>2, <1>4, MessageFacts
  <2>2. Returned(b) /\ b \notin client
    BY <1>1, <1>3, <1>4 DEF Returned, OwnerInv
  <2>3. \A c \in Bufs : c # b => (Returned(c)' <=> Returned(c))
    BY <1>3, <1>4, MessageFacts DEF Returned
  <2>4. ClientOwner[b] = "message"
    BY <2>2 DEF ClientOwner
  <2>5. ClientOwner' = [ClientOwner EXCEPT ![b] = "client"]
    BY <2>1, <2>3 DEF ClientOwner
  <2>6. Port!Collect(b)
    BY <2>1, <2>4, <2>5 DEF Port!Collect
  <2> QED BY <2>6 DEF Port!PortNext
<1>5. ASSUME m \in {FlushOutputDone, PauseDone, ImgSizeChg}
      PROVE  client' = client /\ \A b \in Bufs : Returned(b)' <=> Returned(b)
  BY <1>2, <1>3, <1>5, MessageFacts DEF Returned
<1>6. CASE m = FlushOutputDone
  <2>1. m_port_flushing = 1 /\ m_port_flushing' = 0
    BY <1>1, <1>2, <1>3, <1>6 DEF FlushInv, FlushPosted
  <2>2. /\ LateFrames(1) \subseteq {vbuf}
        /\ LateFrames(1) # {} =>
             \/ PauseWaits
             \/ \E j \in (1 + 1)..Len(msg_queue) : msg_queue[j] = PauseDone
    <3>1. 1 \in 1..Len(msg_queue) /\ msg_queue[1] = FlushOutputDone
      BY <1>3, <1>6
    <3> QED BY <1>1, <3>1 DEF LateInv
  <2>3. LateFrames(1) = Bufs \ client
    <3>1. \A j \in 1..(1 - 1) : FALSE
      OBVIOUS
    <3> QED BY <3>1 DEF LateFrames
  <2>4. ClientOwner' = ClientOwner
    BY <1>5, <1>6 DEF ClientOwner
  <2>5. CASE LateFrames(1) = {}
    <3>1. \A b \in Bufs : ClientOwner[b] = "client"
      BY <2>3, <2>5 DEF ClientOwner
    <3>2. Port!EndFlush
      BY <2>1, <2>4, <3>1 DEF Port!EndFlush
    <3> QED BY <3>2 DEF Port!PortNext
  <2>6. CASE LateFrames(1) # {}
    <3>1. vbuf \in Bufs /\ client = Bufs \ {vbuf}
      BY <1>1, <2>2, <2>3, <2>6 DEF TypeOK
    <3>2. m_pausing = 1
      <4>1. CASE PauseWaits
        BY <4>1 DEF OutInv, PauseInv
      <4>2. CASE \E j \in (1 + 1)..Len(msg_queue) : msg_queue[j] = PauseDone
        <5>1. PICK j \in (1 + 1)..Len(msg_queue) : msg_queue[j] = PauseDone
          BY <4>2
        <5>2. j \in 1..Len(msg_queue)
          BY <1>3, <5>1
        <5>3. PausePosted
          BY <5>1, <5>2 DEF PausePosted, Entries
        <5> QED BY <5>3 DEF OutInv, PauseInv
      <4> QED BY <2>2, <2>6, <4>1, <4>2
    <3> QED BY <2>1, <2>4, <3>1, <3>2 DEF LateEnd
  <2> QED BY <2>5, <2>6
<1>7. CASE m \in {PauseDone, ImgSizeChg}
  <2>1. UNCHANGED m_port_flushing
    BY <1>2, <1>7, MessageFacts
  <2> QED BY <1>5, <1>7, <2>1, Stutter
<1> QED BY <1>3, <1>4, <1>6, <1>7, MessageFacts

-------------------------------------------------------------------------------
(* Every step of the driver is a step of BufferPort, a stutter or the late *)
(* end of a flush.                                                         *)
LEMMA NextRefines ==
    OutInv /\ [Next]_vars => [Port!PortNext \/ LateEnd]_(Port!portVars)
<1> SUFFICES ASSUME OutInv, [Next]_vars
             PROVE  [Port!PortNext]_(Port!portVars) \/ LateEnd
  OBVIOUS
<1>0. TypeOK
  BY DEF OutInv
<1>1. ASSUME UNCHANGED <<msg_queue, client, m_port_flushing>>
      PROVE  [Port!PortNext]_(Port!portVars)
  <2>1. \A c \in Bufs : Returned(c)' <=> Returned(c)
    BY <1>1 DEF Returned
  <2> QED BY <1>1, <2>1, Stutter
<1>2. ASSUME NEW why \in {"seek", "reconfig"}, channel_flush_out_port(why)
      PROVE  [Port!PortNext]_(Port!portVars)
  <2>1. ClientOwner' = ClientOwner
    BY <1>2 DEF channel_flush_out_port, channelVars, ClientOwner, Returned
  <2>2. Port!BeginFlush
    BY <1>2, <2>1 DEF channel_flush_out_port, Port!BeginFlush
  <2> QED BY <2>2 DEF Port!PortNext
<1>3. ASSUME NEW b \in Bufs, channel_fill_this_frame(b)
      PROVE  [Port!PortNext]_(Port!portVars)
  BY <1>3, FillRefines
<1>4. CASE PausePost \/ FlushAnswer \/ FlushDone \/ PauseAnswer \/ ReportImgSize
  <2>1. UNCHANGED <<client, m_port_flushing>>
    BY <1>4 DEF PausePost, FlushAnswer, FlushDone, PauseAnswer, ReportImgSize,
                clientVars
  <2>2. \/ UNCHANGED msg_queue
        \/ \E m \in {FlushOutputDone, PauseDone, ImgSizeChg} : message_queue(m)
    BY <1>4 DEF PausePost, FlushAnswer, FlushDone, PauseAnswer, ReportImgSize
  <2> QED BY <1>0, <1>1, <2>1, <2>2, OtherMessage
<1>5. CASE FlushUnlink \/ RelPost \/ RepPost
  BY <1>5, FlushUnlinkRefines, ReturnRefines
<1>6. CASE channel_get_message
  BY <1>6, GetMessageRefines
<1>7. CASE \/ channel_start_inst \/ channel_stop_inst \/ channel_pause_inst
           \/ channel_resume_inst \/ PortEnable
           \/ PauseSet \/ FlushKind \/ FlushLock \/ FlushSetPending
  BY <1>1, <1>7
     DEF channel_start_inst, channel_stop_inst, channel_pause_inst,
         channel_resume_inst, PortEnable, PauseSet, FlushKind, FlushLock,
         FlushSetPending, channelVars, clientVars
<1>8. CASE \/ processor_get_frame \/ GetFrameTestFlush \/ GetFrameTake
           \/ GetFrameFail \/ RelCount \/ RelTest \/ RelUnlink \/ RelRequeue
           \/ RepCount \/ ZeroTest \/ FlushClear \/ PauseClear
  BY <1>1, <1>8
     DEF processor_get_frame, GetFrameTestFlush, GetFrameTake, GetFrameFail,
         RelCount, RelTest, RelUnlink, RelRequeue, RepCount, ZeroTest,
         FlushClear, PauseClear, channelVars, clientVars
<1>9. ASSUME NEW b \in Bufs,
             processor_release_frame(b) \/ processor_report_frame(b)
      PROVE  [Port!PortNext]_(Port!portVars)
  BY <1>1, <1>9
     DEF processor_release_frame, processor_report_frame, clientVars
<1>10. CASE UNCHANGED vars
  BY <1>1, <1>10 DEF vars, channelVars, clientVars
<1> QED BY <1>2, <1>3, <1>4, <1>5, <1>6, <1>7, <1>8, <1>9, <1>10
        DEF Next, EventThread, VpssThread

(* Without the pause command nothing ever waits for a pause.               *)
LEMMA NoPauseInv ==
    ASSUME CanPause = FALSE
    PROVE  /\ Init => NoPause
           /\ OutInv /\ NoPause /\ [Next]_vars => NoPause'
<1>1. Init => NoPause
  BY DEF Init, NoPause, PausePlaces, PausePosted, Entries
<1>2. ASSUME OutInv, NoPause, [Next]_vars PROVE NoPause'
  <2>1. cpc' \notin PausePlaces /\ pause_pending' = 0 /\ m_pausing' = 0
    BY <1>2
       DEF Next, EventThread, VpssThread, NoPause, PausePlaces,
           channel_start_inst, channel_stop_inst, channel_pause_inst,
           channel_resume_inst, PortEnable, PauseSet, PausePost, FlushKind,
           FlushLock, FlushSetPending, FlushUnlink, FlushAnswer,
           channel_flush_out_port, channel_fill_this_frame, ReportImgSize,
           processor_get_frame, GetFrameTestFlush, GetFrameTake, GetFrameFail,
           RelCount, RelTest, RelUnlink, RelPost, RelRequeue, RepPost,
           RepCount, ZeroTest, FlushDone, FlushClear, PauseAnswer, PauseClear,
           processor_release_frame, processor_report_frame,
           channel_get_message, vars, channelVars, clientVars, vpssVars
  <2>2. \/ UNCHANGED msg_queue
        \/ \E b \in Bufs : message_queue(OutputDone(b))
        \/ message_queue(FlushOutputDone) \/ message_queue(ImgSizeChg)
        \/ channel_get_message
    <3>1. CASE FlushUnlink
      <4>1. PICK b \in Entries(yuv_queue) : message_queue(OutputDone(b))
        BY <3>1 DEF FlushUnlink, Entries
      <4>2. b \in Bufs
        BY <1>2, QueueFacts DEF OutInv
      <4> QED BY <4>1, <4>2
    <3>2. CASE RelPost \/ RepPost
      BY <1>2, <3>2 DEF RelPost, RepPost, OutInv, QueueInv, Giving
    <3>3. CASE \E b \in Bufs : channel_fill_this_frame(b)
      BY <3>3 DEF channel_fill_this_frame
    <3>4. CASE PausePost \/ FlushAnswer \/ FlushDone \/ PauseAnswer
               \/ ReportImgSize
      BY <1>2, <3>4 DEF PausePost, FlushAnswer, FlushDone, PauseAnswer,
                        ReportImgSize, NoPause, PausePlaces
    <3>5. CASE \/ channel_start_inst \/ channel_stop_inst \/ channel_pause_inst
               \/ channel_resume_inst \/ PortEnable
               \/ PauseSet \/ FlushKind \/ FlushLock \/ FlushSetPending
               \/ \E why \in {"seek", "reconfig"} : channel_flush_out_port(why)
      BY <3>5
         DEF channel_start_inst, channel_stop_inst, channel_pause_inst,
             channel_resume_inst, PortEnable, PauseSet, FlushKind, FlushLock,
             FlushSetPending, channel_flush_out_port, channelVars
    <3>6. CASE \/ processor_get_frame \/ GetFrameTestFlush \/ GetFrameTake
               \/ GetFrameFail \/ RelCount \/ RelTest \/ RelUnlink \/ RelRequeue
               \/ RepCount \/ ZeroTest \/ FlushClear \/ PauseClear
               \/ \E b \in Bufs : \/ processor_release_frame(b)
                                  \/ processor_report_frame(b)
      BY <3>6
         DEF processor_get_frame, GetFrameTestFlush, GetFrameTake,
             GetFrameFail, RelCount, RelTest, RelUnlink, RelRequeue, RepCount,
             ZeroTest, FlushClear, PauseClear, processor_release_frame,
             processor_report_frame, channelVars
    <3>7. CASE UNCHANGED vars
      BY <3>7 DEF vars, channelVars
    <3> QED BY <1>2, <3>1, <3>2, <3>3, <3>4, <3>5, <3>6, <3>7
            DEF Next, EventThread, VpssThread
  <2>3. \A m \in Messages : message_queue(m) =>
          Entries(msg_queue') = Entries(msg_queue) \cup {m}
    BY <1>2, Post DEF OutInv
  <2>4. channel_get_message => Entries(msg_queue') \subseteq Entries(msg_queue)
    BY <1>2, Read DEF OutInv, channel_get_message
  <2>5. ~PausePosted'
    BY <1>2, <2>2, <2>3, <2>4, MessageFacts DEF NoPause, PausePosted
  <2> QED BY <2>1, <2>5 DEF NoPause
<1> QED BY <1>1, <1>2

(* A new channel maps to a port whose buffers are all with the client.     *)
LEMMA InitRefines == Init => Port!PortInit
<1> SUFFICES ASSUME Init PROVE Port!PortInit
  OBVIOUS
<1>1. \A b \in Bufs : ClientOwner[b] = "client"
  BY DEF Init, ClientOwner
<1>2. ClientOwner = [b \in Bufs |-> "client"]
  BY <1>1 DEF ClientOwner
<1> QED BY <1>2 DEF Init, Port!PortInit

(* The output port keeps the promise of BufferPort, whatever the client    *)
(* does: a submitted frame buffer comes back exactly once, and a flush     *)
(* ends only when the client owns every frame buffer, but for the one that *)
(* a pause under way lets come late.                                       *)
THEOREM OutputPortImplementsPort == Spec => ImplementsPort
  BY InitRefines, NextRefines, OutputInvariance, PTL DEF Spec, ImplementsPort

(* For a client that does not pause, as ACodec does not, the port keeps    *)
(* the whole promise: no flush ends early.                                 *)
THEOREM OutputPortKeepsPromise ==
    ASSUME CanPause = FALSE
    PROVE  Spec => Port!PortSpec
<1>1. Spec => []NoPause
  BY NoPauseInv, OutputInvariance, PTL DEF Spec
<1>2. OutInv /\ NoPause /\ [Next]_vars => [Port!PortNext]_(Port!portVars)
  <2> SUFFICES ASSUME OutInv, NoPause, [Next]_vars
               PROVE  [Port!PortNext]_(Port!portVars)
    OBVIOUS
  <2>1. m_pausing = 0
    BY DEF NoPause
  <2>2. ~LateEnd
    BY <2>1 DEF LateEnd
  <2> QED BY <2>2, NextRefines
<1> QED BY <1>1, <1>2, InitRefines, OutputInvariance, PTL
        DEF Spec, Port!PortSpec
===============================================================================
