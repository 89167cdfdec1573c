-------------------------- MODULE OmxInputPortProofs --------------------------
(***************************************************************************)
(* The safety properties of OmxInputPort for any set of buffers.  IInv is  *)
(* the inductive invariant: the properties themselves, plus the places of  *)
(* the event thread in which the flush and the end-of-stream flags may     *)
(* have each of their values.                                              *)
(***************************************************************************)
EXTENDS OmxInputPort, KernelListProofs, FiniteSetTheorems

FlushPosted == FlushInputDone \in Entries(msg_queue)

EtbPlaces == {"eos_check", "eos_add", "eos_set", "etb_end"}

(* The queue, the statuses and the use counter agree.                      *)
QueueInv ==
    /\ UseCount
    /\ IsFiniteSet(held)
    /\ QueueLinkedOnce
    /\ DecodeOrder

(* What the end-of-stream steps of an ETB know of last_frame and of the    *)
(* buffer they carry.                                                      *)
EosInv ==
    /\ LinkedLastFrameIsFlagged
    /\ cpc = "eos_add" => /\ LastFrame \notin Entries(raw_queue)
                          /\ eos_in_list = 0
    /\ cpc = "etb_end" => cbuf # HI_NULL
    /\ cbuf # HI_NULL => cpc \in EtbPlaces

(* A pending flush keeps the queue to what VFMW holds; an answered one has *)
(* emptied it, and its message is the last in the queue.                   *)
FlushInv ==
    /\ input_flush_pending = 1 =>
         /\ m_port_flushing = 1 /\ ~FlushPosted
         /\ cpc \in {"ready", "flush_clear"}
         /\ held # {}
         /\ \A b \in Entries(raw_queue) : status[b] = "USING"
    /\ FlushPosted =>
         /\ m_port_flushing = 1
         /\ cpc \in {"ready", "flush_clear"}
         /\ raw_queue = <<>>
         /\ msg_queue[Len(msg_queue)] = FlushInputDone
    /\ cpc = "flush_loop" =>
         m_port_flushing = 1 /\ input_flush_pending = 0 /\ ~FlushPosted
    /\ cpc \in EtbPlaces => m_port_flushing = 0

IInv == TypeOK /\ QueueInv /\ EosInv /\ OneOwner /\ FlushInv

-------------------------------------------------------------------------------
(* The invariant holds in a freshly created channel.                       *)
LEMMA InitInv == Init => IInv
<1> SUFFICES ASSUME Init PROVE IInv
  OBVIOUS
<1> USE InputAssumption DEF Init
<1>1. Entries(raw_queue) = {} /\ Entries(msg_queue) = {}
  BY DEF Entries
<1>2. LinkedOnce(raw_queue) /\ LinkedOnce(msg_queue)
  BY DEF LinkedOnce
<1>3. TypeOK
  BY DEF TypeOK, AllBufs
<1>4. QueueInv
  BY <1>1, <1>2, FS_EmptySet
     DEF QueueInv, UseCount, Using, QueueLinkedOnce, DecodeOrder
<1>5. EosInv
  BY <1>1 DEF EosInv, LinkedLastFrameIsFlagged
<1>6. OneOwner
  BY <1>1, <1>2 DEF OneOwner, Returned
<1>7. FlushInv
  BY <1>1 DEF FlushInv, FlushPosted, EtbPlaces
<1> QED BY <1>3, <1>4, <1>5, <1>6, <1>7 DEF IInv

-------------------------------------------------------------------------------
(* The messages of this port are told apart by code and buffer.            *)
LEMMA MessageFacts ==
    /\ FlushInputDone \in Messages
    /\ \A b \in Bufs : InputDone(b) \in Messages
    /\ \A b, c : InputDone(b) = InputDone(c) => b = c
    /\ \A b : InputDone(b) # FlushInputDone
    /\ \A b : InputDone(b).msgcode = "INPUT_DONE" /\ InputDone(b).buf = b
    /\ FlushInputDone.msgcode # "INPUT_DONE"
    /\ \A m \in Messages : m = FlushInputDone \/ \E b \in Bufs : m = InputDone(b)
  BY DEF Messages, InputDone, FlushInputDone

(* Posting a message to the queue.                                         *)
LEMMA Post ==
    ASSUME NEW q \in Seq(Messages), NEW m \in Messages
    PROVE  /\ Append(q, m) \in Seq(Messages)
           /\ Entries(Append(q, m)) = Entries(q) \cup {m}
           /\ Append(q, m)[Len(Append(q, m))] = m
           /\ LinkedOnce(q) /\ m \notin Entries(q) => LinkedOnce(Append(q, m))
  BY ListAddTail DEF list_add_tail

(* Which steps leave a conjunct of the invariant alone.                    *)
LEMMA QueueFrame ==
    ASSUME QueueInv, UNCHANGED <<raw_queue, status, raw_use_cnt, held>>
    PROVE  QueueInv'
  BY DEF QueueInv, UseCount, Using, QueueLinkedOnce, DecodeOrder

LEMMA OwnerFrame ==
    ASSUME OneOwner, UNCHANGED <<raw_queue, msg_queue, cbuf, client>>
    PROVE  OneOwner'
  BY DEF OneOwner, Returned

LEMMA FlushFrame ==
    ASSUME FlushInv,
           UNCHANGED <<raw_queue, status, held, msg_queue, input_flush_pending,
                       m_port_flushing>>,
           cpc' = cpc \/ (m_port_flushing = 0 /\ cpc' # "flush_loop")
    PROVE  FlushInv'
  BY DEF FlushInv, FlushPosted

LEMMA EosFrame ==
    ASSUME EosInv, UNCHANGED <<raw_queue, eos_in_list, cpc, cbuf>>
    PROVE  EosInv'
  BY DEF EosInv, LinkedLastFrameIsFlagged

-------------------------------------------------------------------------------
(* The state commands touch nothing of the port.                           *)
LEMMA SetStateStep ==
    ASSUME IInv, NEW from, NEW to \in {"IDLE", "WORK", "PAUSE"}, SetState(from, to)
    PROVE  IInv'
<1> USE DEF SetState, IInv
<1>1. TypeOK'
  BY DEF TypeOK
<1>2. QueueInv'
  BY QueueFrame
<1>3. EosInv'
  BY EosFrame
<1>4. OneOwner'
  BY OwnerFrame
<1>5. FlushInv'
  BY FlushFrame
<1> QED BY <1>1, <1>2, <1>3, <1>4, <1>5

(* Linking a buffer that VFMW does not hold.                               *)
LEMMA QueueAppend ==
    ASSUME TypeOK, QueueInv, NEW b \in AllBufs, b \notin Entries(raw_queue),
           raw_queue' = list_add_tail(b, raw_queue),
           status' \in [AllBufs -> {"IDLE", "QUEUED", "USING"}],
           status'[b] # "USING",
           \A x \in AllBufs \ {b} : status'[x] = status[x],
           UNCHANGED <<raw_use_cnt, held>>
    PROVE  /\ QueueInv'
           /\ raw_queue' \in Seq(AllBufs)
           /\ Entries(raw_queue') = Entries(raw_queue) \cup {b}
<1>1. raw_queue \in Seq(AllBufs) /\ LinkedOnce(raw_queue)
  BY DEF TypeOK, QueueInv, QueueLinkedOnce
<1>2. ASSUME NEW q \in Seq(AllBufs), NEW x \in AllBufs
      PROVE  /\ list_add_tail(x, q) \in Seq(AllBufs)
             /\ Len(list_add_tail(x, q)) = Len(q) + 1
             /\ \A j \in 1..Len(q) : list_add_tail(x, q)[j] = q[j]
             /\ list_add_tail(x, q)[Len(q) + 1] = x
             /\ Entries(list_add_tail(x, q)) = Entries(q) \cup {x}
             /\ LinkedOnce(q) /\ x \notin Entries(q)
                  => LinkedOnce(list_add_tail(x, q))
  BY ListAddTail
<1>3. /\ raw_queue' \in Seq(AllBufs)
      /\ Len(raw_queue') = Len(raw_queue) + 1
      /\ \A j \in 1..Len(raw_queue) : raw_queue'[j] = raw_queue[j]
      /\ raw_queue'[Len(raw_queue) + 1] = b
      /\ Entries(raw_queue') = Entries(raw_queue) \cup {b}
      /\ LinkedOnce(raw_queue')
  BY <1>1, <1>2
<1>4. held \subseteq Entries(raw_queue) /\ held = Using
  BY DEF QueueInv, UseCount
<1>5. Using' = Using
  BY <1>4 DEF Using
<1>6. UseCount' /\ IsFiniteSet(held')
  BY <1>3, <1>4, <1>5 DEF QueueInv, UseCount
<1>7. DecodeOrder'
  <2>1. \A j \in 1..Len(raw_queue) : raw_queue[j] \in AllBufs \ {b}
    BY <1>1 DEF Entries
  <2>2. \A j \in 1..Len(raw_queue) :
          status'[raw_queue'[j]] = status[raw_queue[j]]
    BY <1>3, <2>1
  <2>3. status'[raw_queue'[Len(raw_queue) + 1]] # "USING"
    BY <1>3
  <2>4. Len(raw_queue) \in Nat
    BY <1>1
  <2> QED BY <1>3, <2>2, <2>3, <2>4 DEF QueueInv, DecodeOrder
<1> QED BY <1>3, <1>6, <1>7 DEF QueueInv, QueueLinkedOnce

(* Unlinking a buffer, and counting it out if VFMW held it.                *)
LEMMA QueueRemove ==
    ASSUME TypeOK, QueueInv, NEW k \in 1..Len(raw_queue),
           raw_queue' = list_del(raw_queue[k], raw_queue),
           status' = [status EXCEPT ![raw_queue[k]] = "IDLE"],
           held' = held \ {raw_queue[k]},
           raw_use_cnt' = Cardinality(held')
    PROVE  /\ QueueInv'
           /\ raw_queue' \in Seq(AllBufs)
           /\ status' \in [AllBufs -> {"IDLE", "QUEUED", "USING"}]
           /\ raw_use_cnt' \in Nat
           /\ Entries(raw_queue') = Entries(raw_queue) \ {raw_queue[k]}
<1> DEFINE b == raw_queue[k]
<1>1. /\ raw_queue \in Seq(AllBufs) /\ LinkedOnce(raw_queue)
      /\ \A j \in 1..Len(raw_queue) : raw_queue[j] \in AllBufs
      /\ b \in AllBufs /\ Len(raw_queue) \in Nat
  BY DEF TypeOK, QueueInv, QueueLinkedOnce
<1>2. /\ list_del(b, raw_queue) \in Seq(AllBufs)
      /\ Len(list_del(b, raw_queue)) = Len(raw_queue) - 1
      /\ \A j \in 1..(Len(raw_queue) - 1) :
           list_del(b, raw_queue)[j] =
             IF j < k THEN raw_queue[j] ELSE raw_queue[j + 1]
      /\ LinkedOnce(list_del(b, raw_queue))
      /\ Entries(list_del(b, raw_queue)) = Entries(raw_queue) \ {b}
  <2>1. ASSUME NEW q \in Seq(AllBufs), LinkedOnce(q), NEW i \in 1..Len(q)
        PROVE  /\ list_del(q[i], q) \in Seq(AllBufs)
               /\ Len(list_del(q[i], q)) = Len(q) - 1
               /\ \A j \in 1..(Len(q) - 1) :
                    list_del(q[i], q)[j] = IF j < i THEN q[j] ELSE q[j + 1]
               /\ LinkedOnce(list_del(q[i], q))
               /\ Entries(list_del(q[i], q)) = Entries(q) \ {q[i]}
    BY <2>1, ListDel
  <2> QED BY <1>1, <2>1
<1>3. status' \in [AllBufs -> {"IDLE", "QUEUED", "USING"}]
  BY <1>1 DEF TypeOK
<1>4. Using' = Using \ {b}
  BY <1>1 DEF Using, TypeOK
<1>5. IsFiniteSet(held') /\ raw_use_cnt' \in Nat
  BY FS_Subset, FS_CardinalityType DEF QueueInv
<1>6. UseCount'
  BY <1>2, <1>4 DEF QueueInv, UseCount
<1>7. DecodeOrder'
  <2> DEFINE at(j) == IF j < k THEN j ELSE j + 1
  <2> SUFFICES ASSUME NEW i \in 1..(Len(raw_queue) - 1),
                      NEW j \in 1..(Len(raw_queue) - 1),
                      i < j, status'[raw_queue'[j]] = "USING"
               PROVE  status'[raw_queue'[i]] = "USING"
    BY <1>2 DEF DecodeOrder
  <2>1. /\ at(i) \in 1..Len(raw_queue) /\ at(j) \in 1..Len(raw_queue)
        /\ at(i) < at(j) /\ at(i) # k /\ at(j) # k
    BY <1>1
  <2>2. raw_queue'[i] = raw_queue[at(i)] /\ raw_queue'[j] = raw_queue[at(j)]
    BY <1>2
  <2>3. raw_queue[at(i)] # b /\ raw_queue[at(j)] # b
    BY <1>1, <2>1 DEF LinkedOnce
  <2>4. /\ status'[raw_queue'[i]] = status[raw_queue[at(i)]]
        /\ status'[raw_queue'[j]] = status[raw_queue[at(j)]]
    BY <1>1, <2>1, <2>2, <2>3 DEF TypeOK
  <2>5. status[raw_queue[at(j)]] = "USING" => status[raw_queue[at(i)]] = "USING"
    BY <2>1 DEF QueueInv, DecodeOrder
  <2> QED BY <2>4, <2>5
<1> QED BY <1>2, <1>3, <1>5, <1>6, <1>7 DEF QueueInv, QueueLinkedOnce

-------------------------------------------------------------------------------
(* ETB with data: the refusal of a linked buffer is unreachable, because   *)
(* the client's buffers are not linked.                                    *)
LEMMA EtbStep ==
    ASSUME IInv, NEW b \in Bufs, NEW eos \in BOOLEAN,
           channel_empty_this_stream(b, eos)
    PROVE  IInv'
<1> USE InputAssumption DEF IInv
<1>1. /\ cpc = "ready" /\ m_port_flushing = 0 /\ b \in client
      /\ b \notin Entries(raw_queue) /\ ~Returned(b) /\ b # cbuf
  BY DEF channel_empty_this_stream, OneOwner
<1>2. /\ raw_queue' = list_add_tail(b, raw_queue)
      /\ status' = [status EXCEPT ![b] = "QUEUED"]
      /\ cpc' \in {"eos_check", "ready"}
      /\ client' = client \ {b}
      /\ UNCHANGED <<state, raw_use_cnt, input_flush_pending, eos_in_list,
                     msg_queue, cbuf, dpc, held, recalled, m_port_flushing>>
  BY <1>1 DEF channel_empty_this_stream, channel_insert_in_raw_list
<1>3. b \in AllBufs
  BY DEF AllBufs
<1>4. /\ status' \in [AllBufs -> {"IDLE", "QUEUED", "USING"}]
      /\ status'[b] # "USING"
      /\ \A x \in AllBufs \ {b} : status'[x] = status[x]
  BY <1>2, <1>3 DEF TypeOK
<1>5. /\ QueueInv'
      /\ raw_queue' \in Seq(AllBufs)
      /\ Entries(raw_queue') = Entries(raw_queue) \cup {b}
  BY <1>1, <1>2, <1>3, <1>4, QueueAppend
<1>6. TypeOK'
  BY <1>2, <1>4, <1>5 DEF TypeOK
<1>7. EosInv'
  BY <1>1, <1>2, <1>5 DEF EosInv, LinkedLastFrameIsFlagged, EtbPlaces
<1>8. OneOwner'
  BY <1>1, <1>2, <1>5 DEF OneOwner, Returned
<1>9. FlushInv'
  BY <1>1, <1>2 DEF FlushInv, FlushPosted, TypeOK
<1> QED BY <1>5, <1>6, <1>7, <1>8, <1>9

(* ETB without data: the buffer travels in cbuf.                           *)
LEMMA EtbNodataStep ==
    ASSUME IInv, NEW b \in Bufs, NEW eos \in BOOLEAN,
           channel_empty_this_stream_nodata(b, eos)
    PROVE  IInv'
<1> USE InputAssumption DEF IInv, channel_empty_this_stream_nodata
<1>1. /\ cpc' \in {"eos_check", "etb_end"} /\ cpc = "ready"
      /\ m_port_flushing = 0 /\ b # HI_NULL
  OBVIOUS
<1>2. cbuf = HI_NULL
  BY <1>1 DEF EosInv, EtbPlaces
<1>3. TypeOK'
  BY <1>1 DEF TypeOK
<1>4. QueueInv'
  BY QueueFrame
<1>5. EosInv'
  BY <1>1 DEF EosInv, LinkedLastFrameIsFlagged, EtbPlaces
<1>6. OneOwner'
  BY <1>2 DEF OneOwner, Returned
<1>7. FlushInv'
  BY <1>1, FlushFrame
<1> QED BY <1>3, <1>4, <1>5, <1>6, <1>7

(* The end-of-stream test finds last_frame unlinked when the flag is 0.    *)
LEMMA EtbCheckEosStep == IInv /\ EtbCheckEos => IInv'
<1> SUFFICES ASSUME IInv, EtbCheckEos PROVE IInv'
  OBVIOUS
<1> USE InputAssumption DEF IInv, EtbCheckEos
<1>1. cpc = "eos_check" /\ m_port_flushing = 0
  BY DEF FlushInv, EtbPlaces
<1>2. cpc' \in {"eos_add", "ready", "etb_end"} /\ LastFrame \in AllBufs
  BY DEF AfterEos, AllBufs
<1>3. TypeOK'
  BY <1>2 DEF TypeOK
<1>4. CASE eos_in_list = 0
  <2>1. LastFrame \notin Entries(raw_queue)
    BY <1>1, <1>4 DEF EosInv, LinkedLastFrameIsFlagged
  <2>2. status' = [status EXCEPT ![LastFrame] = "QUEUED"] /\ cpc' = "eos_add"
    BY <1>4
  <2>3. \A x \in Entries(raw_queue) : status'[x] = status[x]
    <3>1. Entries(raw_queue) \subseteq AllBufs
      BY DEF TypeOK, Entries
    <3> QED BY <2>1, <2>2, <3>1 DEF TypeOK
  <2>4. QueueInv'
    <3>1. held = Using /\ held \subseteq Entries(raw_queue)
      BY DEF QueueInv, UseCount
    <3>2. Using' = Using
      BY <1>2, <2>1, <2>2, <3>1 DEF Using, TypeOK
    <3>3. UseCount' /\ IsFiniteSet(held')
      BY <3>1, <3>2 DEF QueueInv, UseCount
    <3>4. DecodeOrder'
      BY <2>3 DEF QueueInv, DecodeOrder, Entries
    <3> QED BY <3>3, <3>4 DEF QueueInv, QueueLinkedOnce
  <2>5. EosInv'
    BY <2>1, <2>2, <1>4 DEF EosInv, LinkedLastFrameIsFlagged, EtbPlaces
  <2>6. FlushInv'
    BY <1>1, <2>2 DEF FlushInv, FlushPosted, TypeOK
  <2> QED BY <1>3, <2>4, <2>5, <2>6, OwnerFrame
<1>5. CASE eos_in_list # 0
  <2>1. QueueInv'
    BY <1>5, QueueFrame
  <2>2. EosInv'
    BY <1>5 DEF EosInv, LinkedLastFrameIsFlagged, EtbPlaces, AfterEos
  <2>3. FlushInv'
    BY <1>1, <1>2, <1>5, FlushFrame
  <2> QED BY <1>3, <2>1, <2>2, <2>3, OwnerFrame
<1> QED BY <1>4, <1>5

(* last_frame is linked once, and the flag follows.                        *)
LEMMA EtbAddLastFrameStep == IInv /\ EtbAddLastFrame => IInv'
<1> SUFFICES ASSUME IInv, EtbAddLastFrame PROVE IInv'
  OBVIOUS
<1> USE InputAssumption DEF IInv, EtbAddLastFrame
<1>1. /\ cpc = "eos_add" /\ m_port_flushing = 0
      /\ LastFrame \notin Entries(raw_queue) /\ LastFrame \in AllBufs
  BY DEF EosInv, FlushInv, EtbPlaces, AllBufs
<1>2. status[LastFrame] # "USING"
  BY <1>1 DEF QueueInv, UseCount, Using
<1>3. /\ QueueInv'
      /\ raw_queue' \in Seq(AllBufs)
      /\ Entries(raw_queue') = Entries(raw_queue) \cup {LastFrame}
  <2>1. status' \in [AllBufs -> {"IDLE", "QUEUED", "USING"}]
    BY DEF TypeOK
  <2> QED BY <1>1, <1>2, <2>1, QueueAppend
<1>4. TypeOK'
  BY <1>3 DEF TypeOK
<1>5. EosInv'
  BY <1>1 DEF EosInv, LinkedLastFrameIsFlagged, EtbPlaces
<1>6. OneOwner'
  BY <1>3 DEF OneOwner, Returned
<1>7. FlushInv'
  BY <1>1 DEF FlushInv, FlushPosted, TypeOK
<1> QED BY <1>3, <1>4, <1>5, <1>6, <1>7

LEMMA EtbSetEosInListStep == IInv /\ EtbSetEosInList => IInv'
<1> SUFFICES ASSUME IInv, EtbSetEosInList PROVE IInv'
  OBVIOUS
<1> USE InputAssumption DEF IInv, EtbSetEosInList
<1>1. cpc = "eos_set" /\ m_port_flushing = 0 /\ cpc' \in {"ready", "etb_end"}
  BY DEF FlushInv, EtbPlaces, AfterEos
<1>2. TypeOK'
  BY <1>1 DEF TypeOK
<1>3. EosInv'
  BY DEF EosInv, LinkedLastFrameIsFlagged, EtbPlaces, AfterEos
<1>4. FlushInv'
  BY <1>1, FlushFrame
<1> QED BY <1>2, <1>3, <1>4, QueueFrame, OwnerFrame

(* The empty buffer goes from cbuf into one message.                       *)
LEMMA EtbReturnEmptyStep == IInv /\ EtbReturnEmpty => IInv'
<1> SUFFICES ASSUME IInv, EtbReturnEmpty PROVE IInv'
  OBVIOUS
<1> USE InputAssumption, MessageFacts DEF IInv, EtbReturnEmpty
<1>1. cpc = "etb_end" /\ m_port_flushing = 0 /\ cbuf \in Bufs
  BY DEF EosInv, FlushInv, EtbPlaces, TypeOK
<1>2. msg_queue \in Seq(Messages) /\ InputDone(cbuf) \in Messages
  BY <1>1 DEF TypeOK
<1>3. /\ msg_queue' \in Seq(Messages)
      /\ Entries(msg_queue') = Entries(msg_queue) \cup {InputDone(cbuf)}
      /\ LinkedOnce(msg_queue) /\ InputDone(cbuf) \notin Entries(msg_queue)
           => LinkedOnce(msg_queue')
  BY <1>2, Post
<1>4. TypeOK'
  BY <1>3 DEF TypeOK
<1>5. EosInv'
  BY <1>1 DEF EosInv, LinkedLastFrameIsFlagged, EtbPlaces
<1>6. OneOwner'
  BY <1>1, <1>3 DEF OneOwner, Returned
<1>7. FlushInv'
  BY <1>1, <1>3 DEF FlushInv, FlushPosted, EtbPlaces
<1> QED BY <1>4, <1>5, <1>6, <1>7, QueueFrame

-------------------------------------------------------------------------------
(* The flush command starts with no flush under way.                       *)
LEMMA FlushBeginStep == IInv /\ channel_flush_in_port => IInv'
<1> SUFFICES ASSUME IInv, channel_flush_in_port PROVE IInv'
  OBVIOUS
<1> USE DEF IInv, channel_flush_in_port
<1>1. TypeOK'
  BY DEF TypeOK
<1>2. EosInv'
  BY DEF EosInv, LinkedLastFrameIsFlagged, EtbPlaces
<1>3. FlushInv'
  BY DEF FlushInv, FlushPosted, EtbPlaces, TypeOK
<1> QED BY <1>1, <1>2, <1>3, QueueFrame, OwnerFrame

(* The loop unlinks an entry that VFMW does not hold and returns it.       *)
LEMMA FlushUnlinkStep == IInv /\ FlushUnlink => IInv'
<1> SUFFICES ASSUME IInv, FlushUnlink PROVE IInv'
  OBVIOUS
<1> USE InputAssumption, MessageFacts DEF IInv
<1>1. PICK i \in 1..Len(raw_queue) :
        /\ status[raw_queue[i]] # "USING"
        /\ status' = [status EXCEPT ![raw_queue[i]] = "IDLE"]
        /\ raw_queue' = list_del(raw_queue[i], raw_queue)
        /\ IF raw_queue[i] # LastFrame
           THEN /\ msg_queue' = Append(msg_queue, InputDone(raw_queue[i]))
                /\ UNCHANGED eos_in_list
           ELSE /\ eos_in_list' = 0
                /\ UNCHANGED msg_queue
  BY DEF FlushUnlink
<1>2. /\ cpc = "flush_loop" /\ m_port_flushing = 1
      /\ input_flush_pending = 0 /\ ~FlushPosted /\ cbuf = HI_NULL
      /\ UNCHANGED <<state, raw_use_cnt, input_flush_pending, cpc, cbuf, dpc,
                     held, recalled, client, m_port_flushing>>
  BY DEF FlushUnlink, FlushInv, EosInv, EtbPlaces
<1> DEFINE b == raw_queue[i]
<1>3. b \in AllBufs /\ b \in Entries(raw_queue) /\ b \notin held
  BY <1>1 DEF TypeOK, Entries, QueueInv, UseCount, Using
<1>4. held' = held \ {b} /\ raw_use_cnt' = Cardinality(held')
  BY <1>2, <1>3 DEF QueueInv, UseCount
<1>5. /\ QueueInv'
      /\ raw_queue' \in Seq(AllBufs)
      /\ status' \in [AllBufs -> {"IDLE", "QUEUED", "USING"}]
      /\ Entries(raw_queue') = Entries(raw_queue) \ {b}
  BY <1>1, <1>4, QueueRemove
<1>6. EosInv'
  BY <1>1, <1>2, <1>5 DEF EosInv, LinkedLastFrameIsFlagged
<1>7. CASE b = LastFrame
  <2>1. TypeOK'
    BY <1>1, <1>2, <1>5, <1>7 DEF TypeOK
  <2>2. OneOwner'
    BY <1>1, <1>2, <1>5, <1>7 DEF OneOwner, Returned
  <2>3. FlushInv'
    BY <1>1, <1>2, <1>7 DEF FlushInv, FlushPosted, EtbPlaces
  <2> QED BY <1>5, <1>6, <2>1, <2>2, <2>3
<1>8. CASE b # LastFrame
  <2>1. b \in Bufs /\ msg_queue' = Append(msg_queue, InputDone(b))
    BY <1>1, <1>3, <1>8 DEF AllBufs
  <2>2. msg_queue \in Seq(Messages) /\ InputDone(b) \in Messages
    BY <2>1 DEF TypeOK
  <2>3. /\ msg_queue' \in Seq(Messages)
        /\ Entries(msg_queue') = Entries(msg_queue) \cup {InputDone(b)}
        /\ LinkedOnce(msg_queue) /\ InputDone(b) \notin Entries(msg_queue)
             => LinkedOnce(msg_queue')
    BY <2>1, <2>2, Post
  <2>4. TypeOK'
    BY <1>1, <1>2, <1>5, <1>8, <2>3 DEF TypeOK
  <2>5. OneOwner'
    BY <1>2, <1>3, <1>5, <2>1, <2>3 DEF OneOwner, Returned
  <2>6. FlushInv'
    BY <1>2, <2>3 DEF FlushInv, FlushPosted, EtbPlaces
  <2> QED BY <1>5, <1>6, <2>4, <2>5, <2>6
<1> QED BY <1>7, <1>8

(* The loop has left only what VFMW holds: the flush is pending if that is *)
(* something, and answered over an empty queue if it is not.               *)
LEMMA FlushAnswerStep == IInv /\ FlushAnswer => IInv'
<1> SUFFICES ASSUME IInv, FlushAnswer PROVE IInv'
  OBVIOUS
<1> USE InputAssumption, MessageFacts DEF IInv
<1>1. /\ cpc = "flush_loop" /\ cpc' = "flush_clear" /\ m_port_flushing = 1
      /\ input_flush_pending = 0 /\ ~FlushPosted /\ cbuf = HI_NULL
      /\ \A b \in Entries(raw_queue) : status[b] = "USING"
      /\ UNCHANGED <<state, raw_queue, status, raw_use_cnt, eos_in_list, cbuf,
                     dpc, held, recalled, client, m_port_flushing>>
  BY DEF FlushAnswer, FlushInv, EosInv, EtbPlaces
<1>2. raw_use_cnt \in Nat /\ raw_use_cnt = Cardinality(held) /\ IsFiniteSet(held)
  BY DEF TypeOK, QueueInv, UseCount
<1>3. QueueInv'
  BY <1>1, QueueFrame
<1>4. EosInv'
  BY <1>1 DEF EosInv, LinkedLastFrameIsFlagged, EtbPlaces
<1>5. CASE raw_use_cnt > 0
  <2>1. input_flush_pending' = 1 /\ UNCHANGED msg_queue
    BY <1>5 DEF FlushAnswer
  <2>2. held # {}
    BY <1>2, <1>5, FS_EmptySet
  <2>3. TypeOK'
    BY <1>1, <2>1 DEF TypeOK
  <2>4. OneOwner'
    BY <1>1, <2>1, OwnerFrame
  <2>5. FlushInv'
    BY <1>1, <2>1, <2>2 DEF FlushInv, FlushPosted, EtbPlaces
  <2> QED BY <1>3, <1>4, <2>3, <2>4, <2>5
<1>6. CASE ~(raw_use_cnt > 0)
  <2>1. msg_queue' = Append(msg_queue, FlushInputDone) /\ UNCHANGED input_flush_pending
    BY <1>6 DEF FlushAnswer
  <2>2. held = {}
    BY <1>2, <1>6, FS_EmptySet
  <2>3. raw_queue = <<>>
    <3>1. raw_queue \in Seq(AllBufs)
      BY DEF TypeOK
    <3>2. \A j \in 1..Len(raw_queue) :
            raw_queue[j] \in AllBufs /\ status[raw_queue[j]] = "USING"
      BY <1>1, <3>1 DEF Entries
    <3>3. \A x \in AllBufs : status[x] # "USING"
      BY <2>2 DEF QueueInv, UseCount, Using
    <3>4. Len(raw_queue) = 0
      <4>1. Len(raw_queue) \in Nat
        BY <3>1
      <4>2. Len(raw_queue) > 0 => 1 \in 1..Len(raw_queue)
        BY <4>1
      <4> QED BY <3>2, <3>3, <4>1, <4>2
    <3> QED BY <3>1, <3>4, EmptySeq
  <2>4. msg_queue \in Seq(Messages) /\ FlushInputDone \in Messages
    BY DEF TypeOK
  <2>5. /\ msg_queue' \in Seq(Messages)
        /\ Entries(msg_queue') = Entries(msg_queue) \cup {FlushInputDone}
        /\ msg_queue'[Len(msg_queue')] = FlushInputDone
        /\ LinkedOnce(msg_queue) /\ FlushInputDone \notin Entries(msg_queue)
             => LinkedOnce(msg_queue')
    BY <2>1, <2>4, Post
  <2>6. TypeOK'
    BY <1>1, <2>1, <2>5 DEF TypeOK
  <2>7. OneOwner'
    BY <1>1, <2>5 DEF OneOwner, Returned, FlushPosted
  <2>8. FlushInv'
    BY <1>1, <2>1, <2>3, <2>5 DEF FlushInv, FlushPosted, EtbPlaces
  <2> QED BY <1>3, <1>4, <2>6, <2>7, <2>8
<1> QED BY <1>5, <1>6

LEMMA FlushClearStreamStep == IInv /\ FlushClearStream => IInv'
<1> SUFFICES ASSUME IInv, FlushClearStream PROVE IInv'
  OBVIOUS
<1> USE DEF IInv, FlushClearStream
<1>1. TypeOK'
  BY DEF TypeOK
<1>2. EosInv'
  BY DEF EosInv, LinkedLastFrameIsFlagged, EtbPlaces
<1>3. FlushInv'
  BY DEF FlushInv, FlushPosted, EtbPlaces
<1> QED BY <1>1, <1>2, <1>3, QueueFrame, OwnerFrame

-------------------------------------------------------------------------------
(* The tests of decoder_get_stream change nothing.                         *)
LEMMA GetStreamTestStep ==
    IInv /\ (decoder_get_stream \/ GetStreamFail) => IInv'
<1> SUFFICES ASSUME IInv, decoder_get_stream \/ GetStreamFail PROVE IInv'
  OBVIOUS
<1>1. /\ dpc' \in {"idle", "get"}
      /\ UNCHANGED <<state, raw_queue, status, raw_use_cnt,
                     input_flush_pending, eos_in_list, msg_queue, cpc, cbuf,
                     held, recalled, client, m_port_flushing>>
  BY DEF decoder_get_stream, GetStreamFail
<1>2. TypeOK'
  BY <1>1 DEF IInv, TypeOK
<1> QED BY <1>1, <1>2, QueueFrame, EosFrame, OwnerFrame, FlushFrame DEF IInv

(* VFMW takes the oldest entry it does not hold: all before it are held.   *)
LEMMA GetStreamTakeStep == IInv /\ GetStreamTake => IInv'
<1> SUFFICES ASSUME IInv, GetStreamTake PROVE IInv'
  OBVIOUS
<1> USE DEF IInv
<1>1. PICK i \in 1..Len(raw_queue) :
        /\ status[raw_queue[i]] # "USING"
        /\ \A j \in 1..(i - 1) : status[raw_queue[j]] = "USING"
        /\ status' = [status EXCEPT ![raw_queue[i]] = "USING"]
        /\ held' = held \cup {raw_queue[i]}
  BY DEF GetStreamTake
<1>2. /\ cpc # "flush_loop" /\ input_flush_pending = 0
      /\ raw_use_cnt' = raw_use_cnt + 1 /\ dpc' = "idle"
      /\ UNCHANGED <<state, raw_queue, input_flush_pending, eos_in_list,
                     msg_queue, cpc, cbuf, recalled, client, m_port_flushing>>
  BY DEF GetStreamTake, raw_lock_free
<1> DEFINE b == raw_queue[i]
<1>3. /\ raw_queue \in Seq(AllBufs) /\ LinkedOnce(raw_queue)
      /\ \A j \in 1..Len(raw_queue) : raw_queue[j] \in AllBufs
      /\ b \in AllBufs /\ Len(raw_queue) \in Nat /\ b \in Entries(raw_queue)
  BY DEF TypeOK, QueueInv, QueueLinkedOnce, Entries
<1>4. b \notin held
  BY <1>1 DEF QueueInv, UseCount, Using
<1>5. TypeOK'
  BY <1>1, <1>2, <1>3 DEF TypeOK
<1>6. QueueInv'
  <2>1. Using' = Using \cup {b}
    BY <1>1, <1>3 DEF Using, TypeOK
  <2>2. IsFiniteSet(held') /\ Cardinality(held') = Cardinality(held) + 1
    BY <1>1, <1>4, FS_AddElement DEF QueueInv
  <2>3. UseCount'
    BY <1>1, <1>2, <1>3, <2>1, <2>2 DEF QueueInv, UseCount
  <2>4. DecodeOrder'
    <3> SUFFICES ASSUME NEW k \in 1..Len(raw_queue), NEW j \in 1..Len(raw_queue),
                        k < j, status'[raw_queue[j]] = "USING"
                 PROVE  status'[raw_queue[k]] = "USING"
      BY <1>2 DEF DecodeOrder
    <3>1. CASE j = i
      BY <3>1, <1>1, <1>3 DEF TypeOK
    <3>2. CASE j # i
      <4>1. status[raw_queue[j]] = "USING"
        BY <3>2, <1>1, <1>3 DEF LinkedOnce, TypeOK
      <4>2. status[raw_queue[k]] = "USING"
        BY <4>1 DEF QueueInv, DecodeOrder
      <4> QED BY <4>2, <1>1, <1>3 DEF TypeOK
    <3> QED BY <3>1, <3>2
  <2> QED BY <1>2, <2>2, <2>3, <2>4 DEF QueueInv, QueueLinkedOnce
<1>7. EosInv'
  BY <1>2, EosFrame
<1>8. OneOwner'
  BY <1>2, OwnerFrame
<1>9. FlushInv'
  BY <1>2 DEF FlushInv, FlushPosted
<1> QED BY <1>5, <1>6, <1>7, <1>8, <1>9

(* A list without entries is empty.                                        *)
LEMMA NoEntries ==
    ASSUME NEW S, NEW q \in Seq(S), Entries(q) = {} PROVE q = <<>>
<1>1. Len(q) \in Nat
  OBVIOUS
<1>2. Len(q) > 0 => 1 \in 1..Len(q)
  BY <1>1
<1>3. Len(q) = 0
  BY <1>1, <1>2 DEF Entries
<1> QED BY <1>3, EmptySeq

(* A release finds its buffer, counts it out, and answers the flush that   *)
(* waited for the last one.                                                *)
LEMMA ReleaseStep ==
    ASSUME IInv, NEW b \in AllBufs, decoder_release_stream(b)
    PROVE  IInv'
<1> USE InputAssumption, MessageFacts DEF IInv
<1>1. /\ b \in held /\ b \in Entries(raw_queue) /\ raw_queue # <<>>
      /\ cpc # "flush_loop" /\ ~FlushPosted /\ status[b] = "USING"
  BY DEF decoder_release_stream, raw_lock_free, QueueInv, UseCount, Using,
         FlushInv, Entries
<1>2. /\ held' = held \ {b} /\ recalled' = recalled \ {b}
      /\ status' = [status EXCEPT ![b] = "IDLE"]
      /\ raw_queue' = list_del(b, raw_queue)
      /\ eos_in_list' = IF b = LastFrame THEN 0 ELSE eos_in_list
      /\ msg_queue' = ReleaseMessages(b)
      /\ raw_use_cnt' = Dec(raw_use_cnt)
      /\ input_flush_pending' =
           IF Dec(raw_use_cnt) = 0 THEN 0 ELSE input_flush_pending
      /\ UNCHANGED <<state, cpc, cbuf, dpc, client, m_port_flushing>>
  BY <1>1 DEF decoder_release_stream
<1>3. raw_use_cnt' = Cardinality(held') /\ IsFiniteSet(held')
  <2>1. /\ IsFiniteSet(held') /\ Cardinality(held') = Cardinality(held) - 1
    BY <1>1, <1>2, FS_RemoveElement DEF QueueInv
  <2>2. Cardinality(held') \in Nat /\ Cardinality(held) \in Nat
    BY <2>1, FS_CardinalityType DEF QueueInv
  <2> QED BY <1>2, <2>1, <2>2 DEF QueueInv, UseCount, Dec
<1>4. PICK k \in 1..Len(raw_queue) : raw_queue[k] = b
  BY <1>1 DEF Entries
<1>5. /\ QueueInv'
      /\ raw_queue' \in Seq(AllBufs)
      /\ status' \in [AllBufs -> {"IDLE", "QUEUED", "USING"}]
      /\ raw_use_cnt' \in Nat
      /\ Entries(raw_queue') = Entries(raw_queue) \ {b}
  BY <1>2, <1>3, <1>4, QueueRemove
<1>6. EosInv'
  BY <1>2, <1>5 DEF EosInv, LinkedLastFrameIsFlagged
<1> DEFINE returned == IF b # LastFrame
                       THEN Append(msg_queue, InputDone(b)) ELSE msg_queue
           done == input_flush_pending = 1 /\ Dec(raw_use_cnt) = 0
<1>7. msg_queue' = IF done THEN Append(returned, FlushInputDone) ELSE returned
  BY <1>2 DEF ReleaseMessages
<1>8. /\ returned \in Seq(Messages) /\ LinkedOnce(returned)
      /\ Entries(returned) = Entries(msg_queue) \cup
                               (IF b # LastFrame THEN {InputDone(b)} ELSE {})
  <2>1. msg_queue \in Seq(Messages) /\ LinkedOnce(msg_queue)
    BY DEF TypeOK, OneOwner
  <2>2. CASE b = LastFrame
    BY <2>1, <2>2
  <2>3. CASE b # LastFrame
    <3>1. b \in Bufs /\ InputDone(b) \in Messages
      BY <2>3 DEF AllBufs
    <3>2. InputDone(b) \notin Entries(msg_queue)
      BY <3>1, <1>1 DEF OneOwner, Returned
    <3>3. /\ Append(msg_queue, InputDone(b)) \in Seq(Messages)
          /\ Entries(Append(msg_queue, InputDone(b)))
               = Entries(msg_queue) \cup {InputDone(b)}
          /\ LinkedOnce(Append(msg_queue, InputDone(b)))
      BY <2>1, <3>1, <3>2, Post
    <3> QED BY <2>3, <3>3
  <2> QED BY <2>2, <2>3
<1>9. FlushInputDone \notin Entries(returned)
  BY <1>1, <1>8 DEF FlushPosted
<1>10. /\ msg_queue' \in Seq(Messages) /\ LinkedOnce(msg_queue')
       /\ Entries(msg_queue') = Entries(returned) \cup
                                  (IF done THEN {FlushInputDone} ELSE {})
       /\ done => msg_queue'[Len(msg_queue')] = FlushInputDone
  <2>1. CASE done
    <3>1. /\ Append(returned, FlushInputDone) \in Seq(Messages)
          /\ Entries(Append(returned, FlushInputDone))
               = Entries(returned) \cup {FlushInputDone}
          /\ Append(returned, FlushInputDone)
               [Len(Append(returned, FlushInputDone))] = FlushInputDone
          /\ LinkedOnce(Append(returned, FlushInputDone))
      BY <1>8, <1>9, Post
    <3>2. msg_queue' = Append(returned, FlushInputDone)
      BY <1>7, <2>1
    <3> HIDE DEF returned
    <3> QED BY <2>1, <3>1, <3>2
  <2>2. CASE ~done
    <3>1. msg_queue' = returned
      BY <1>7, <2>2
    <3> HIDE DEF returned
    <3> QED BY <2>2, <3>1, <1>8
  <2> QED BY <2>1, <2>2
<1>11. TypeOK'
  BY <1>2, <1>5, <1>10 DEF TypeOK
<1> HIDE DEF returned
<1>12. OneOwner'
  <2>1. \A c \in Bufs : Returned(c)' <=> Returned(c) \/ c = b
    <3>1. \A c \in Bufs : c = b => b # LastFrame
      OBVIOUS
    <3>2. \A c \in Bufs : InputDone(c) \in Entries(msg_queue')
                            <=> InputDone(c) \in Entries(returned)
      BY <1>10
    <3> QED BY <1>8, <3>1, <3>2 DEF Returned
  <2> QED BY <1>1, <1>2, <1>5, <1>10, <2>1 DEF OneOwner
<1>13. FlushInv'
  <2>1. CASE input_flush_pending = 0
    <3>1. input_flush_pending' = 0 /\ ~FlushPosted'
      BY <1>2, <1>9, <1>10, <2>1 DEF FlushPosted
    <3> QED BY <1>1, <1>2, <2>1, <3>1 DEF FlushInv
  <2>2. CASE input_flush_pending = 1
    <3>1. /\ m_port_flushing = 1 /\ cpc \in {"ready", "flush_clear"}
          /\ \A x \in Entries(raw_queue) : status[x] = "USING"
      BY <2>2 DEF FlushInv
    <3>2. /\ Entries(raw_queue) \subseteq AllBufs
      BY DEF TypeOK, Entries
    <3>3. \A x \in Entries(raw_queue') : status'[x] = "USING"
      BY <1>2, <1>5, <3>1, <3>2 DEF TypeOK
    <3>4. Entries(raw_queue') \subseteq held'
      BY <1>2, <1>5, <3>1, <3>2 DEF QueueInv, UseCount, Using
    <3>5. CASE done
      <4>1. held' = {}
        BY <1>2, <1>3, <3>5, FS_EmptySet
      <4>2. raw_queue' = <<>>
        BY <1>5, <3>4, <4>1, NoEntries
      <4>3. input_flush_pending' = 0
        BY <1>2, <3>5
      <4> QED BY <1>2, <1>10, <3>1, <3>5, <4>2, <4>3 DEF FlushInv, FlushPosted, EtbPlaces
    <3>6. CASE ~done
      <4>1. Dec(raw_use_cnt) # 0
        BY <2>2, <3>6
      <4>2. held' # {}
        BY <1>2, <1>3, <4>1, FS_EmptySet
      <4>3. ~FlushPosted'
        BY <1>9, <1>10, <3>6 DEF FlushPosted
      <4> QED BY <1>2, <3>1, <3>3, <4>2, <4>3 DEF FlushInv, EtbPlaces
    <3> QED BY <3>5, <3>6
  <2> QED BY <2>1, <2>2 DEF TypeOK
<1> QED BY <1>5, <1>6, <1>11, <1>12, <1>13

-------------------------------------------------------------------------------
(* Reading a message hands over its buffer or ends the flush.              *)
LEMMA GetMessageStep == IInv /\ channel_get_message => IInv'
<1> SUFFICES ASSUME IInv, channel_get_message PROVE IInv'
  OBVIOUS
<1> USE InputAssumption, MessageFacts DEF IInv
<1>1. /\ msg_queue # <<>> /\ msg_queue' = Tail(msg_queue)
      /\ UNCHANGED <<state, raw_queue, status, raw_use_cnt,
                     input_flush_pending, eos_in_list, cpc, cbuf, dpc, held,
                     recalled>>
  BY DEF channel_get_message
<1>2. msg_queue \in Seq(Messages) /\ LinkedOnce(msg_queue)
  BY DEF TypeOK, OneOwner
<1> DEFINE m == Head(msg_queue)
<1>3. /\ msg_queue' \in Seq(Messages)
      /\ Len(msg_queue') = Len(msg_queue) - 1
      /\ m \in Messages /\ m \in Entries(msg_queue)
      /\ \A j \in 1..(Len(msg_queue) - 1) : msg_queue'[j] = msg_queue[j + 1]
      /\ LinkedOnce(msg_queue')
      /\ Entries(msg_queue') = Entries(msg_queue) \ {m}
  BY <1>1, <1>2, ListTail
<1>4. QueueInv' /\ EosInv'
  BY <1>1, QueueFrame, EosFrame
<1>5. FlushPosted' => msg_queue'[Len(msg_queue')] = msg_queue[Len(msg_queue)]
  <2>1. Len(msg_queue) \in Nat /\ Len(msg_queue') \in Nat
    BY <1>2, <1>3
  <2>2. FlushPosted' => Len(msg_queue') > 0
    BY <2>1 DEF FlushPosted, Entries
  <2>3. Len(msg_queue') > 0 =>
          /\ Len(msg_queue') \in 1..(Len(msg_queue) - 1)
          /\ Len(msg_queue') + 1 = Len(msg_queue)
    BY <1>3, <2>1
  <2> QED BY <1>3, <2>2, <2>3
<1> HIDE DEF m
<1>6. CASE m = FlushInputDone
  <2>1. m_port_flushing' = 0 /\ UNCHANGED client
    BY <1>6 DEF channel_get_message, m
  <2>2. ~FlushPosted' /\ FlushPosted
    BY <1>3, <1>6 DEF FlushPosted
  <2>3. TypeOK'
    BY <1>1, <1>3, <2>1 DEF TypeOK
  <2>4. OneOwner'
    BY <1>1, <1>3, <1>6, <2>1 DEF OneOwner, Returned
  <2>5. FlushInv'
    BY <1>1, <2>1, <2>2 DEF FlushInv
  <2> QED BY <1>4, <2>3, <2>4, <2>5
<1>7. CASE m # FlushInputDone
  <2>1. PICK b \in Bufs : m = InputDone(b)
    BY <1>3, <1>7
  <2>2. client' = client \cup {b} /\ UNCHANGED m_port_flushing
    <3>1. m.msgcode = "INPUT_DONE" /\ m.buf = b
      BY <2>1
    <3> QED BY <3>1 DEF channel_get_message, m
  <2>3. Returned(b)
    BY <1>3, <2>1 DEF Returned
  <2>4. \A c \in Bufs : Returned(c)' <=> Returned(c) /\ c # b
    BY <1>3, <2>1 DEF Returned
  <2>5. TypeOK'
    BY <1>1, <1>3, <2>2 DEF TypeOK
  <2>6. OneOwner'
    BY <1>1, <1>3, <2>2, <2>3, <2>4 DEF OneOwner
  <2>7. FlushPosted' <=> FlushPosted
    BY <1>3, <1>7 DEF FlushPosted
  <2>8. FlushInv'
    BY <1>1, <1>5, <2>2, <2>7 DEF FlushInv
  <2> QED BY <1>4, <2>5, <2>6, <2>8
<1> QED BY <1>6, <1>7

-------------------------------------------------------------------------------
(* Every step of the port preserves the invariant.                         *)
LEMMA NextInv == IInv /\ [Next]_vars => IInv'
<1> SUFFICES ASSUME IInv, [Next]_vars PROVE IInv'
  OBVIOUS
<1>1. CASE channel_start_inst
  BY <1>1, SetStateStep DEF channel_start_inst
<1>2. CASE channel_stop_inst
  BY <1>2, SetStateStep DEF channel_stop_inst
<1>3. CASE channel_pause_inst
  BY <1>3, SetStateStep DEF channel_pause_inst
<1>4. CASE channel_resume_inst
  BY <1>4, SetStateStep DEF channel_resume_inst
<1>5. ASSUME NEW b \in Bufs, NEW eos \in BOOLEAN,
             \/ channel_empty_this_stream(b, eos)
             \/ channel_empty_this_stream_nodata(b, eos)
      PROVE  IInv'
  BY <1>5, EtbStep, EtbNodataStep
<1>6. CASE channel_flush_in_port
  BY <1>6, FlushBeginStep
<1>7. CASE EventThread
  BY <1>7, EtbCheckEosStep, EtbAddLastFrameStep, EtbSetEosInListStep,
     EtbReturnEmptyStep, FlushUnlinkStep, FlushAnswerStep, FlushClearStreamStep
     DEF EventThread
<1>8. CASE decoder_get_stream \/ GetStreamTake \/ GetStreamFail
  BY <1>8, GetStreamTestStep, GetStreamTakeStep
<1>9. ASSUME NEW b \in AllBufs, decoder_release_stream(b) PROVE IInv'
  BY <1>9, ReleaseStep
<1>10. CASE channel_get_message
  BY <1>10, GetMessageStep
<1>11. CASE UNCHANGED vars
  <2>1. UNCHANGED <<state, raw_queue, status, raw_use_cnt,
                    input_flush_pending, eos_in_list, msg_queue, cpc, cbuf,
                    dpc, held, recalled, client, m_port_flushing>>
    BY <1>11 DEF vars
  <2>2. TypeOK'
    BY <2>1 DEF IInv, TypeOK
  <2> QED BY <2>1, <2>2, QueueFrame, EosFrame, OwnerFrame, FlushFrame DEF IInv
<1> QED BY <1>1, <1>2, <1>3, <1>4, <1>5, <1>6, <1>7, <1>8, <1>9, <1>10, <1>11
        DEF Next

(* The invariant of the input port holds in every reachable state.         *)
THEOREM Invariance == Spec => []IInv
  BY InitInv, NextInv, PTL DEF Spec

(* Type correctness of the channel's input side.                           *)
THEOREM TypeCorrect == Spec => []TypeOK
<1>1. IInv => TypeOK
  BY DEF IInv
<1> QED BY <1>1, Invariance, PTL

(* raw_use_cnt is exact, and decoder_release_stream finds its buffer.      *)
THEOREM UseCountCorrect == Spec => []UseCount
<1>1. IInv => UseCount
  BY DEF IInv, QueueInv
<1> QED BY <1>1, Invariance, PTL

(* A pending flush of the input port waits for a stream that VFMW holds.   *)
THEOREM PendingFlushCorrect == Spec => []PendingFlushHasStream
<1>1. IInv => PendingFlushHasStream
  BY DEF IInv, FlushInv, PendingFlushHasStream
<1> QED BY <1>1, Invariance, PTL

(* No stream buffer is lost or returned twice.                             *)
THEOREM OneOwnerCorrect == Spec => []OneOwner
<1>1. IInv => OneOwner
  BY DEF IInv
<1> QED BY <1>1, Invariance, PTL

(* No buffer, last_frame included, is linked into raw_queue twice.         *)
THEOREM LinkedOnceCorrect == Spec => []QueueLinkedOnce
<1>1. IInv => QueueLinkedOnce
  BY DEF IInv, QueueInv
<1> QED BY <1>1, Invariance, PTL

(* VFMW takes the streams in the order of submission.                      *)
THEOREM DecodeOrderCorrect == Spec => []DecodeOrder
<1>1. IInv => DecodeOrder
  BY DEF IInv, QueueInv
<1> QED BY <1>1, Invariance, PTL

(* eos_in_list never misses a linked last_frame.                           *)
THEOREM LastFrameFlagCorrect == Spec => []LinkedLastFrameIsFlagged
<1>1. IInv => LinkedLastFrameIsFlagged
  BY DEF IInv, EosInv
<1> QED BY <1>1, Invariance, PTL

(* FLUSH_INPUT_DONE is the last message, over an empty queue, so every     *)
(* buffer is with the client or in a message ahead of it.                  *)
THEOREM FlushDrainsCorrect == Spec => []FlushDrains
<1>1. ASSUME IInv PROVE FlushDrains
  <2> SUFFICES ASSUME NEW i \in 1..Len(msg_queue), msg_queue[i] = FlushInputDone
               PROVE  /\ raw_queue = <<>>
                      /\ \A b \in Bufs :
                           \/ b \in client
                           \/ \E j \in 1..(i - 1) : msg_queue[j] = InputDone(b)
    BY DEF FlushDrains
  <2> USE <1>1, MessageFacts, InputAssumption DEF IInv
  <2>1. FlushPosted
    BY DEF FlushPosted, Entries
  <2>2. /\ raw_queue = <<>> /\ cpc \in {"ready", "flush_clear"}
        /\ msg_queue[Len(msg_queue)] = FlushInputDone
    BY <2>1 DEF FlushInv
  <2>3. Len(msg_queue) \in Nat /\ LinkedOnce(msg_queue)
    BY DEF TypeOK, OneOwner
  <2>4. i = Len(msg_queue)
    BY <2>2, <2>3 DEF LinkedOnce
  <2>5. cbuf = HI_NULL /\ Entries(raw_queue) = {}
    BY <2>2 DEF EosInv, EtbPlaces, Entries
  <2>6. ASSUME NEW b \in Bufs, b \notin client
        PROVE  \E j \in 1..(i - 1) : msg_queue[j] = InputDone(b)
    <3>1. InputDone(b) \in Entries(msg_queue)
      BY <2>5, <2>6 DEF OneOwner, Returned
    <3>2. PICK j \in 1..Len(msg_queue) : msg_queue[j] = InputDone(b)
      BY <3>1 DEF Entries
    <3>3. j # i
      BY <3>2
    <3>4. j \in 1..(i - 1)
      BY <2>3, <2>4, <3>3
    <3> QED BY <3>2, <3>4
  <2> QED BY <2>2, <2>6
<1> QED BY <1>1, Invariance, PTL

-------------------------------------------------------------------------------
(* OmxInputPort implements BufferPort, for any set of buffers.  A step of  *)
(* the driver that moves a buffer between owners, or begins or ends the    *)
(* client's flush, is a step of BufferPort; every other step is a stutter. *)

(* A step that moves no buffer and leaves the flush alone is a stutter.    *)
LEMMA Stutter ==
    ASSUME UNCHANGED <<client, m_port_flushing>>,
           \A b \in Bufs : Returned(b)' <=> Returned(b)
    PROVE  [Port!PortNext]_(Port!portVars)
<1>1. ClientOwner' = ClientOwner
  BY DEF ClientOwner
<1> QED BY <1>1 DEF Port!portVars

(* A step that posts the INPUT_DONE of a buffer it held is a Return.       *)
LEMMA Returns ==
    ASSUME UNCHANGED <<client, m_port_flushing>>, NEW b \in Bufs,
           b \notin client, ~Returned(b),
           \A c \in Bufs : Returned(c)' <=> Returned(c) \/ c = b
    PROVE  [Port!PortNext]_(Port!portVars)
<1>1. ClientOwner[b] = "driver"
  BY DEF ClientOwner
<1>2. ClientOwner' = [ClientOwner EXCEPT ![b] = "message"]
  BY DEF ClientOwner
<1>3. Port!Return(b)
  BY <1>1, <1>2 DEF Port!Return
<1> QED BY <1>3 DEF Port!PortNext

(* A step that takes a buffer from the client is a Submit.                 *)
LEMMA Submits ==
    ASSUME NEW b \in client, b \in Bufs, client' = client \ {b}, ~Returned(b),
           \A c \in Bufs : Returned(c)' <=> Returned(c),
           m_port_flushing = 0, UNCHANGED m_port_flushing
    PROVE  [Port!PortNext]_(Port!portVars)
<1>1. ClientOwner[b] = "client"
  BY DEF ClientOwner
<1>2. ClientOwner' = [ClientOwner EXCEPT ![b] = "driver"]
  BY DEF ClientOwner
<1>3. Port!Submit(b)
  BY <1>1, <1>2 DEF Port!Submit
<1> QED BY <1>3 DEF Port!PortNext

(* Posting a message for one buffer, or the end of a flush.                *)
LEMMA PostReturns ==
    ASSUME NEW q \in Seq(Messages), NEW b \in Bufs
    PROVE  /\ \A c : InputDone(c) \in Entries(Append(q, InputDone(b)))
                       <=> InputDone(c) \in Entries(q) \/ c = b
           /\ \A c : InputDone(c) \in Entries(Append(q, FlushInputDone))
                       <=> InputDone(c) \in Entries(q)
<1>1. /\ Entries(Append(q, InputDone(b))) = Entries(q) \cup {InputDone(b)}
      /\ Entries(Append(q, FlushInputDone)) = Entries(q) \cup {FlushInputDone}
  BY Post, MessageFacts
<1> QED BY <1>1, MessageFacts

-------------------------------------------------------------------------------
(* The two forms of ETB take a buffer from the client.                     *)
LEMMA EtbRefines ==
    ASSUME IInv, NEW b \in Bufs, NEW eos \in BOOLEAN,
           \/ channel_empty_this_stream(b, eos)
           \/ channel_empty_this_stream_nodata(b, eos)
    PROVE  [Port!PortNext]_(Port!portVars)
<1>1. b \in client /\ b \notin Entries(raw_queue) /\ ~Returned(b)
  BY DEF channel_empty_this_stream, channel_empty_this_stream_nodata, IInv, OneOwner
<1>2. /\ client' = client \ {b} /\ m_port_flushing = 0
      /\ UNCHANGED <<msg_queue, m_port_flushing>>
  BY <1>1 DEF channel_empty_this_stream, channel_empty_this_stream_nodata
<1>3. \A c \in Bufs : Returned(c)' <=> Returned(c)
  BY <1>2 DEF Returned
<1> QED BY <1>1, <1>2, <1>3, Submits

(* The rest of a handler returns a buffer or is invisible.                 *)
LEMMA EventThreadRefines ==
    ASSUME IInv, EventThread
    PROVE  [Port!PortNext]_(Port!portVars)
<1> USE InputAssumption DEF IInv
<1>0. msg_queue \in Seq(Messages) /\ UNCHANGED <<client, m_port_flushing>>
  BY DEF TypeOK, EventThread, EtbCheckEos, EtbAddLastFrame, EtbSetEosInList,
         EtbReturnEmpty, FlushUnlink, FlushAnswer, FlushClearStream
<1>1. CASE UNCHANGED msg_queue
  <2>1. \A c \in Bufs : Returned(c)' <=> Returned(c)
    BY <1>1 DEF Returned
  <2> QED BY <1>0, <2>1, Stutter
<1>2. CASE EtbReturnEmpty
  <2>1. /\ cbuf \in Bufs /\ cbuf \notin client /\ ~Returned(cbuf)
        /\ msg_queue' = Append(msg_queue, InputDone(cbuf))
    BY <1>2 DEF EtbReturnEmpty, TypeOK, EosInv, OneOwner
  <2>2. \A c \in Bufs : Returned(c)' <=> Returned(c) \/ c = cbuf
    BY <1>0, <2>1, PostReturns DEF Returned
  <2> QED BY <1>0, <2>1, <2>2, Returns
<1>3. CASE FlushUnlink
  <2>1. PICK i \in 1..Len(raw_queue) :
          IF raw_queue[i] # LastFrame
          THEN msg_queue' = Append(msg_queue, InputDone(raw_queue[i]))
          ELSE UNCHANGED msg_queue
    BY <1>3 DEF FlushUnlink
  <2>2. CASE raw_queue[i] = LastFrame
    BY <1>1, <2>1, <2>2
  <2>3. CASE raw_queue[i] # LastFrame
    <3> DEFINE b == raw_queue[i]
    <3>1. b \in Bufs /\ b \in Entries(raw_queue)
      BY <2>3 DEF TypeOK, AllBufs, Entries
    <3>2. b \notin client /\ ~Returned(b)
      BY <3>1 DEF OneOwner
    <3>3. msg_queue' = Append(msg_queue, InputDone(b))
      BY <2>1, <2>3
    <3> HIDE DEF b
    <3>4. \A c \in Bufs : Returned(c)' <=> Returned(c) \/ c = b
      BY <1>0, <3>1, <3>3, PostReturns DEF Returned
    <3> QED BY <1>0, <3>1, <3>2, <3>4, Returns
  <2> QED BY <2>2, <2>3
<1>4. CASE FlushAnswer
  <2>1. CASE msg_queue' = Append(msg_queue, FlushInputDone)
    <3>1. \A c \in Bufs : Returned(c)' <=> Returned(c)
      BY <1>0, <2>1, PostReturns DEF Returned
    <3> QED BY <1>0, <3>1, Stutter
  <2> QED BY <1>1, <1>4, <2>1 DEF FlushAnswer
<1> QED BY <1>1, <1>2, <1>3, <1>4
        DEF EventThread, EtbCheckEos, EtbAddLastFrame, EtbSetEosInList,
            FlushClearStream

(* A release returns its buffer, unless it is last_frame.                  *)
LEMMA ReleaseRefines ==
    ASSUME IInv, NEW b \in AllBufs, decoder_release_stream(b)
    PROVE  [Port!PortNext]_(Port!portVars)
<1> USE InputAssumption DEF IInv
<1>1. /\ b \in Entries(raw_queue) /\ msg_queue \in Seq(Messages)
      /\ UNCHANGED <<client, m_port_flushing>>
  BY DEF decoder_release_stream, QueueInv, UseCount, TypeOK
<1>2. msg_queue' = ReleaseMessages(b)
  BY <1>1 DEF decoder_release_stream
<1>3. \A c \in Bufs : Returned(c)' <=>
        Returned(c) \/ (b # LastFrame /\ c = b)
  <2>1. b # LastFrame => b \in Bufs
    BY DEF AllBufs
  <2> DEFINE r == IF b # LastFrame
                  THEN Append(msg_queue, InputDone(b)) ELSE msg_queue
  <2>2. r \in Seq(Messages)
    BY <1>1, <2>1, Post, MessageFacts
  <2>3. \A c \in Bufs : InputDone(c) \in Entries(r) <=>
          InputDone(c) \in Entries(msg_queue) \/ (b # LastFrame /\ c = b)
    BY <1>1, <2>1, PostReturns
  <2>4. msg_queue' = r \/ msg_queue' = Append(r, FlushInputDone)
    BY <1>2 DEF ReleaseMessages
  <2> HIDE DEF r
  <2>5. \A c \in Bufs : InputDone(c) \in Entries(msg_queue')
                          <=> InputDone(c) \in Entries(r)
    BY <2>2, <2>4, PostReturns
  <2> QED BY <2>3, <2>5 DEF Returned
<1>4. CASE b = LastFrame
  BY <1>1, <1>3, <1>4, Stutter
<1>5. CASE b # LastFrame
  <2>1. b \in Bufs /\ b \notin client /\ ~Returned(b)
    BY <1>1, <1>5 DEF AllBufs, OneOwner
  <2>2. \A c \in Bufs : Returned(c)' <=> Returned(c) \/ c = b
    BY <1>3, <1>5
  <2> QED BY <1>1, <2>1, <2>2, Returns
<1> QED BY <1>4, <1>5

(* Reading a message collects its buffer; reading FLUSH_INPUT_DONE ends    *)
(* the flush, and the client then owns every buffer.                       *)
LEMMA GetMessageRefines ==
    ASSUME IInv, FlushDrains, channel_get_message
    PROVE  [Port!PortNext]_(Port!portVars)
<1> USE InputAssumption, MessageFacts DEF IInv
<1>1. /\ msg_queue # <<>> /\ msg_queue' = Tail(msg_queue)
      /\ msg_queue \in Seq(Messages) /\ LinkedOnce(msg_queue)
  BY DEF channel_get_message, TypeOK, OneOwner
<1> DEFINE m == Head(msg_queue)
<1>2. /\ m \in Messages /\ m \in Entries(msg_queue) /\ m = msg_queue[1]
      /\ Entries(msg_queue') = Entries(msg_queue) \ {m}
  BY <1>1, ListTail
<1>3. 1 \in 1..Len(msg_queue)
  <2>1. Len(msg_queue) \in Nat \ {0}
    BY <1>1, EmptySeq
  <2> QED BY <2>1
<1> HIDE DEF m
<1>4. CASE m = FlushInputDone
  <2>1. m_port_flushing' = 0 /\ UNCHANGED client
    BY <1>4 DEF channel_get_message, m
  <2>2. \A b \in Bufs : b \in client
    <3>1. \A j \in 1..(1 - 1) : FALSE
      OBVIOUS
    <3> QED BY <1>2, <1>3, <1>4, <3>1 DEF FlushDrains
  <2>3. m_port_flushing = 1
    BY <1>2, <1>4 DEF FlushInv, FlushPosted
  <2>4. /\ \A b \in Bufs : ClientOwner[b] = "client"
        /\ ClientOwner' = ClientOwner
    BY <2>1, <2>2 DEF ClientOwner
  <2>5. Port!EndFlush
    BY <2>1, <2>3, <2>4 DEF Port!EndFlush
  <2> QED BY <2>5 DEF Port!PortNext
<1>5. CASE m # FlushInputDone
  <2>1. PICK b \in Bufs : m = InputDone(b)
    BY <1>2, <1>5
  <2>2. m.msgcode = "INPUT_DONE" /\ m.buf = b
    BY <2>1
  <2>3. client' = client \cup {b} /\ UNCHANGED m_port_flushing
    BY <2>2 DEF channel_get_message, m
  <2>4. Returned(b) /\ b \notin client
    BY <1>2, <2>1 DEF Returned, OneOwner
  <2>5. \A c \in Bufs : c # b => (Returned(c)' <=> Returned(c))
    BY <1>2, <2>1 DEF Returned
  <2>6. ClientOwner[b] = "message"
    BY <2>4 DEF ClientOwner
  <2>7. ClientOwner' = [ClientOwner EXCEPT ![b] = "client"]
    BY <2>3, <2>5 DEF ClientOwner
  <2>8. Port!Collect(b)
    BY <2>3, <2>6, <2>7 DEF Port!Collect
  <2> QED BY <2>8 DEF Port!PortNext
<1> QED BY <1>4, <1>5

-------------------------------------------------------------------------------
(* Every step of the driver is a step of BufferPort or a stutter.          *)
LEMMA NextRefines ==
    IInv /\ FlushDrains /\ [Next]_vars => [Port!PortNext]_(Port!portVars)
<1> SUFFICES ASSUME IInv, FlushDrains, [Next]_vars
             PROVE  [Port!PortNext]_(Port!portVars)
  OBVIOUS
<1>1. CASE UNCHANGED <<msg_queue, client, m_port_flushing>>
  <2>1. \A c \in Bufs : Returned(c)' <=> Returned(c)
    BY <1>1 DEF Returned
  <2> QED BY <1>1, <2>1, Stutter
<1>2. CASE channel_flush_in_port
  <2>1. ClientOwner' = ClientOwner
    BY <1>2 DEF channel_flush_in_port, ClientOwner, Returned
  <2>2. Port!BeginFlush
    BY <1>2, <2>1 DEF channel_flush_in_port, Port!BeginFlush
  <2> QED BY <2>2 DEF Port!PortNext
<1>3. ASSUME NEW b \in Bufs, NEW eos \in BOOLEAN,
             \/ channel_empty_this_stream(b, eos)
             \/ channel_empty_this_stream_nodata(b, eos)
      PROVE  [Port!PortNext]_(Port!portVars)
  BY <1>3, EtbRefines
<1>4. CASE EventThread
  BY <1>4, EventThreadRefines
<1>5. ASSUME NEW b \in AllBufs, decoder_release_stream(b)
      PROVE  [Port!PortNext]_(Port!portVars)
  BY <1>5, ReleaseRefines
<1>6. CASE channel_get_message
  BY <1>6, GetMessageRefines
<1>7. channel_start_inst \/ channel_stop_inst \/ channel_pause_inst
      \/ channel_resume_inst \/ decoder_get_stream \/ GetStreamTake
      \/ GetStreamFail \/ UNCHANGED vars
        => UNCHANGED <<msg_queue, client, m_port_flushing>>
  BY DEF channel_start_inst, channel_stop_inst, channel_pause_inst,
         channel_resume_inst, SetState, decoder_get_stream, GetStreamTake,
         GetStreamFail, vars
<1> QED BY <1>1, <1>2, <1>3, <1>4, <1>5, <1>6, <1>7 DEF Next

(* A new channel maps to a port whose buffers are all with the client.     *)
LEMMA InitRefines == Init => Port!PortInit
<1> SUFFICES ASSUME Init PROVE Port!PortInit
  OBVIOUS
<1>1. \A b \in Bufs : ClientOwner[b] = "client"
  BY DEF Init, ClientOwner
<1>2. ClientOwner = [b \in Bufs |-> "client"]
  BY <1>1 DEF ClientOwner
<1> QED BY <1>2 DEF Init, Port!PortInit

(* The input port keeps the promise of BufferPort: a submitted buffer      *)
(* comes back exactly once, and the client's flush ends only when it owns  *)
(* every buffer.                                                           *)
THEOREM InputPortImplementsPort == Spec => ImplementsPort
  BY InitRefines, NextRefines, Invariance, FlushDrainsCorrect, PTL
     DEF Spec, ImplementsPort, Port!PortSpec
===============================================================================
