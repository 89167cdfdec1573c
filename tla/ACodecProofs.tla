----------------------------- MODULE ACodecProofs -----------------------------
(***************************************************************************)
(* The proofs of ACodec over OmxVdecComponent: what the two say of their   *)
(* buffers agrees, and a buffer is in one place.                           *)
(***************************************************************************)
EXTENDS ACodec, KernelListProofs, FiniteSetTheorems, NaturalsInduction,
        WellFoundedInduction, TLAPS

-------------------------------------------------------------------------------
(* What the queues hold.  The strings in the first field of a callback     *)
(* name commands and ports, never buffers.                                 *)
Names == {"StateSet", "PortEnable", "PortDisable", "Flush", "out"}
States == {"Loaded", "Idle", "Executing"}
Args == States \cup Ports \cup {"all", "empty", "data"}
DriverIds == {"EBD", "FBD", "START_DONE", "STOP_DONE", "IMAGE_SIZE_CHANGE",
              "FLUSH_INPUT_DONE", "FLUSH_OUTPUT_DONE"}
Ids == DriverIds \cup {"COMMAND", "COMMAND_DONE", "ETB", "FTB"}

CmdEntry == {e \in [id : Ids, p1 : Names \cup {NULL}, p2 : Args] :
               e.id = "COMMAND_DONE" => /\ e.p1 \in Names
                                        /\ e.p1 = "StateSet" => e.p2 \in States}
BufEntry(p) == [id : Ids, p1 : BufsOf(p), p2 : {"empty", "data"}]
EvType == [pipe : Seq(Ids), cmd : Seq(CmdEntry), etb : Seq(BufEntry("in")),
           ftb : Seq(BufEntry("out"))]
Msg == {m \in [code : DriverIds, buf : Bufs \cup {NULL},
               len : {"empty", "data"}] :
          /\ m.code = "EBD" => m.buf \in InBufs
          /\ m.code = "FBD" => m.buf \in OutBufs}
Callback == [what : {"BUFFER_DONE", "CMD_COMPLETE", "SETTINGS"},
             p1 : Bufs \cup Names, p2 : Args]

CompOK ==
    /\ ev \in EvType /\ msgs \in Seq(Msg) /\ cb \in Seq(Callback)
    /\ \A p \in Ports : drv[p] \subseteq BufsOf(p)

(* A command is under way only while ACodec waits for it to be taken.      *)
Commands(q) == Cardinality({i \in 1..Len(q) : q[i].id = "COMMAND"})
CommandOK ==
    Commands(ev.cmd) + m_cmd_lock <= IF Makes("sem_wait") THEN 1 ELSE 0

(* The buffers of a port and the slots of their headers.                   *)
HeadOK(p) ==
    /\ mBuffers[p] \in Seq(BufsOf(p)) /\ LinkedOnce(mBuffers[p])
    /\ m_omx_bufhead[p] \in [1..max_count(p) -> BufsOf(p) \cup {NULL}]

(* The headers of a port that is being filled are in its first slots.      *)
Compact(p) == \A k \in 1..max_count(p) :
                 k > m_cur_buf_num[p] => m_omx_bufhead[p][k] = NULL

BufOps == {"use", "free", "free_not_owned", "fill", "empty"}
CallType == {c \in [op : BufOps \cup {"send", "sem_wait"},
                    x : Bufs \cup Names \cup {NULL}, y : Args \cup {NULL}] :
               /\ c.op \in BufOps => c.x \in Bufs
               /\ c.op = "fill" => c.x \in OutBufs
               /\ c.op = "empty" => c.x \in InBufs
               /\ c.op = "send" => c.x \in Names /\ c.y \in Args}

(* A port is filled with buffers that it does not have, each once, and     *)
(* nothing is freed meanwhile.                                             *)
UseOK(i) ==
    LET b == calls[i].x IN
    calls[i].op = "use" =>
        /\ b \notin Owned(PortOf(b)) /\ Compact(PortOf(b))
        /\ \A j \in 1..Len(calls) :
             /\ calls[j].op \notin {"free", "free_not_owned"}
             /\ calls[j].op = "use" /\ calls[j].x = b => j = i

CallOK ==
    /\ calls \in Seq(CallType)
    /\ \A i \in 1..Len(calls) :
         UseOK(i) /\ (calls[i].op = "sem_wait" => i = 1)

(* ACodec leaves IdleToLoaded with all buffers freed.                      *)
ToFree == {calls[i].x : i \in {k \in 1..Len(calls) : calls[k].op = "free"}}
LifeOK ==
    /\ acodec \in {"Loaded", "IdleToLoaded"} =>
         \A i \in 1..Len(calls) : calls[i].op # "use"
    /\ acodec = "Loaded" => \A p \in Ports : Owned(p) = {}
    /\ acodec = "IdleToLoaded" => \A p \in Ports : Owned(p) \subseteq ToFree

CodecInv ==
    /\ TypeOK /\ CompOK /\ CommandOK
    /\ DOMAIN m_omx_bufhead = Ports /\ \A p \in Ports : HeadOK(p)
    /\ HeadsMatch /\ CallOK /\ LifeOK /\ OnePlace

-------------------------------------------------------------------------------
(* Counting the entries of a queue that are in a set.                      *)
Hits(q, T) == Cardinality({i \in 1..Len(q) : q[i] \in T})

(* The entries of two queues, one after the other, are those of the first  *)
(* and those of the second.                                                *)
LEMMA HitsConcat ==
    ASSUME NEW S, NEW q \in Seq(S), NEW r \in Seq(S), NEW T
    PROVE  /\ Hits(q, T) \in Nat
           /\ Hits(q \o r, T) = Hits(q, T) + Hits(r, T)
<1> DEFINE n == Len(q)
           m == Len(r)
           A == {i \in 1..n : q[i] \in T}
           B == {j \in 1..m : r[j] \in T}
           D == {i \in (n + 1)..(n + m) : r[i - n] \in T}
<1>1. n \in Nat /\ m \in Nat
  OBVIOUS
<1>2. IsFiniteSet(1..n) /\ IsFiniteSet(1..m)
  BY <1>1, FS_Interval
<1>3. IsFiniteSet(A) /\ IsFiniteSet(B)
  <2>1. A \in SUBSET (1..n) /\ B \in SUBSET (1..m)
    OBVIOUS
  <2> QED BY <1>2, <2>1, FS_Subset
<1>4. IsFiniteSet(D) /\ Cardinality(D) = Cardinality(B)
  <2> DEFINE f == [j \in B |-> j + n]
  <2>1. f \in [B -> D]
    BY <1>1
  <2>2. \A i, j \in B : f[i] = f[j] => i = j
    BY <1>1
  <2>3. \A i \in D : \E j \in B : f[j] = i
    <3> SUFFICES ASSUME NEW i \in D PROVE \E j \in B : f[j] = i
      OBVIOUS
    <3>1. i - n \in B /\ (i - n) + n = i
      BY <1>1
    <3>2. f[i - n] = i
      BY <3>1
    <3> QED BY <3>1, <3>2
  <2>4. f \in Bijection(B, D)
    <3> HIDE DEF B, D, f
    <3> QED BY <2>1, <2>2, <2>3
           DEF Bijection, Injection, Surjection, IsInjective
  <2>5. ExistsBijection(B, D)
    BY <2>4 DEF ExistsBijection
  <2> QED BY <1>3, <2>5, FS_Bijection
<1>5. A \cap D = {}
  BY <1>1
<1>6. Cardinality(A \cup D) = Cardinality(A) + Cardinality(B)
  <2>1. Cardinality(A) \in Nat /\ Cardinality(B) \in Nat
    BY <1>3, FS_CardinalityType
  <2>2. Cardinality(A \cup D)
          = Cardinality(A) + Cardinality(D) - Cardinality(A \cap D)
    BY <1>3, <1>4, FS_Union
  <2>3. Cardinality(A \cap D) = 0
    BY <1>5, FS_EmptySet
  <2> HIDE DEF A, B, D
  <2> QED BY <1>4, <2>1, <2>2, <2>3
<1>7. {i \in 1..Len(q \o r) : (q \o r)[i] \in T} = A \cup D
  <2>1. Len(q \o r) = n + m
    BY ConcatProperties
  <2>2. \A i \in 1..(n + m) : (q \o r)[i] = IF i <= n THEN q[i] ELSE r[i - n]
    BY ConcatProperties
  <2>3. \A i \in 1..(n + m) : (q \o r)[i] \in T <=> i \in A \cup D
    BY <1>1, <2>2
  <2>4. \A i \in A \cup D : i \in 1..(n + m)
    BY <1>1
  <2> HIDE DEF A, D, n, m
  <2> QED BY <2>1, <2>3, <2>4
<1>8. Cardinality(A) \in Nat
  BY <1>3, FS_CardinalityType
<1> QED BY <1>6, <1>7, <1>8 DEF Hits

LEMMA HitsOne ==
    ASSUME NEW e, NEW T
    PROVE  /\ Hits(<<>>, T) = 0
           /\ Hits(<<e>>, T) = IF e \in T THEN 1 ELSE 0
<1>1. {i \in 1..Len(<<>>) : <<>>[i] \in T} = {}
  OBVIOUS
<1>2. {i \in 1..Len(<<e>>) : <<e>>[i] \in T} = IF e \in T THEN {1} ELSE {}
  <2>1. Len(<<e>>) = 1 /\ <<e>>[1] = e
    OBVIOUS
  <2>2. \A i \in 1..1 : i = 1
    OBVIOUS
  <2> QED BY <2>1, <2>2
<1> QED BY <1>1, <1>2, FS_EmptySet, FS_Singleton DEF Hits

LEMMA HitsAppend ==
    ASSUME NEW S, NEW q \in Seq(S), NEW e \in S, NEW T
    PROVE  Hits(Append(q, e), T) = Hits(q, T) + (IF e \in T THEN 1 ELSE 0)
<1>1. <<e>> \in Seq(S)
  OBVIOUS
<1>2. Hits(q \o <<e>>, T) = Hits(q, T) + Hits(<<e>>, T)
  BY <1>1, HitsConcat
<1>3. Append(q, e) = q \o <<e>>
  BY AppendIsConcat
<1> QED BY <1>2, <1>3, HitsOne

LEMMA HitsTail ==
    ASSUME NEW S, NEW q \in Seq(S), q # <<>>, NEW T
    PROVE  Hits(q, T) = (IF Head(q) \in T THEN 1 ELSE 0) + Hits(Tail(q), T)
<1>1. Head(q) \in S /\ Tail(q) \in Seq(S) /\ <<Head(q)>> \in Seq(S)
  BY HeadTailProperties
<1>2. Hits(<<Head(q)>> \o Tail(q), T) = Hits(<<Head(q)>>, T) + Hits(Tail(q), T)
  BY <1>1, HitsConcat
<1>3. q = <<Head(q)>> \o Tail(q)
  <2>1. Len(q) \in Nat \ {0}
    BY EmptySeq
  <2>2. Len(Tail(q)) = Len(q) - 1
        /\ \A i \in 1..(Len(q) - 1) : Tail(q)[i] = q[i + 1]
    BY <2>1
  <2>3. /\ <<Head(q)>> \o Tail(q) \in Seq(S)
        /\ Len(<<Head(q)>> \o Tail(q)) = Len(q)
    BY <1>1, <2>1, <2>2
  <2>4. \A i \in 1..Len(q) : q[i] = (<<Head(q)>> \o Tail(q))[i]
    BY <1>1, <2>1, <2>2
  <2> QED BY <2>3, <2>4, SeqEqual
<1> QED BY <1>2, <1>3, HitsOne

(* The three counts of the invariant.                                      *)
LEMMA CountFacts ==
    ASSUME NEW S, NEW q \in Seq(S), NEW b
    PROVE  /\ Count(q, b) \in Nat /\ Count(<<>>, b) = 0
           /\ \A e \in S : Count(Append(q, e), b)
                             = Count(q, b) + (IF e.p1 = b THEN 1 ELSE 0)
           /\ q # <<>> => Count(q, b) = (IF Head(q).p1 = b THEN 1 ELSE 0)
                                           + Count(Tail(q), b)
           /\ \A r \in Seq(S) : Count(q \o r, b) = Count(q, b) + Count(r, b)
<1> DEFINE T == {e \in S : e.p1 = b}
<1>1. ASSUME NEW r \in Seq(S) PROVE Count(r, b) = Hits(r, T)
  <2>1. \A i \in 1..Len(r) : r[i] \in S
    OBVIOUS
  <2>2. {i \in 1..Len(r) : r[i].p1 = b} = {i \in 1..Len(r) : r[i] \in T}
    BY <2>1
  <2> QED BY <2>2 DEF Count, Hits
<1>2. Count(q, b) \in Nat
  <2> HIDE DEF T
  <2>1. Hits(q, T) \in Nat
    BY HitsConcat
  <2> QED BY <1>1, <2>1
<1>3. Count(<<>>, b) = 0
  BY <1>1, HitsOne, EmptySeq
<1>4. ASSUME NEW e \in S
      PROVE  Count(Append(q, e), b) = Count(q, b) + (IF e.p1 = b THEN 1 ELSE 0)
  <2>1. Append(q, e) \in Seq(S)
    OBVIOUS
  <2>2. Hits(Append(q, e), T) = Hits(q, T) + (IF e \in T THEN 1 ELSE 0)
    BY HitsAppend
  <2> HIDE DEF T
  <2>3. e \in T <=> e.p1 = b
    BY DEF T
  <2> QED BY <1>1, <2>1, <2>2, <2>3
<1>5. ASSUME q # <<>>
      PROVE  Count(q, b) = (IF Head(q).p1 = b THEN 1 ELSE 0) + Count(Tail(q), b)
  <2>1. Tail(q) \in Seq(S) /\ Head(q) \in S
    BY <1>5, HeadTailProperties
  <2>2. Hits(q, T) = (IF Head(q) \in T THEN 1 ELSE 0) + Hits(Tail(q), T)
    BY <1>5, HitsTail
  <2>3. Head(q) \in T <=> Head(q).p1 = b
    BY <2>1
  <2> HIDE DEF T
  <2> QED BY <1>1, <2>1, <2>2, <2>3
<1>6. ASSUME NEW r \in Seq(S) PROVE Count(q \o r, b) = Count(q, b) + Count(r, b)
  <2>1. q \o r \in Seq(S)
    BY ConcatProperties
  <2>2. Hits(q \o r, T) = Hits(q, T) + Hits(r, T)
    BY HitsConcat
  <2> QED BY <1>1, <2>1, <2>2
<1> QED BY <1>2, <1>3, <1>4, <1>5, <1>6

MsgCount(q, b) == Cardinality({i \in 1..Len(q) : q[i].buf = b})

LEMMA MsgFacts ==
    ASSUME NEW S, NEW q \in Seq(S), NEW b
    PROVE  /\ MsgCount(q, b) \in Nat
           /\ MsgCount(<<>>, b) = 0
           /\ \A e \in S : MsgCount(Append(q, e), b)
                             = MsgCount(q, b) + (IF e.buf = b THEN 1 ELSE 0)
           /\ q # <<>> => MsgCount(q, b) = (IF Head(q).buf = b THEN 1 ELSE 0)
                                              + MsgCount(Tail(q), b)
<1> DEFINE T == {e \in S : e.buf = b}
<1>1. ASSUME NEW r \in Seq(S) PROVE MsgCount(r, b) = Hits(r, T)
  <2>1. \A i \in 1..Len(r) : r[i] \in S
    OBVIOUS
  <2>2. {i \in 1..Len(r) : r[i].buf = b} = {i \in 1..Len(r) : r[i] \in T}
    BY <2>1
  <2> QED BY <2>2 DEF MsgCount, Hits
<1>2. MsgCount(q, b) \in Nat
  <2> HIDE DEF T
  <2>1. Hits(q, T) \in Nat
    BY HitsConcat
  <2> QED BY <1>1, <2>1
<1>3. MsgCount(<<>>, b) = 0
  BY <1>1, HitsOne, EmptySeq
<1>4. ASSUME NEW e \in S
      PROVE  MsgCount(Append(q, e), b)
               = MsgCount(q, b) + (IF e.buf = b THEN 1 ELSE 0)
  <2>1. Append(q, e) \in Seq(S)
    OBVIOUS
  <2>2. Hits(Append(q, e), T) = Hits(q, T) + (IF e \in T THEN 1 ELSE 0)
    BY HitsAppend
  <2> HIDE DEF T
  <2>3. e \in T <=> e.buf = b
    BY DEF T
  <2> QED BY <1>1, <2>1, <2>2, <2>3
<1>5. ASSUME q # <<>>
      PROVE  MsgCount(q, b)
               = (IF Head(q).buf = b THEN 1 ELSE 0) + MsgCount(Tail(q), b)
  <2>1. Tail(q) \in Seq(S) /\ Head(q) \in S
    BY <1>5, HeadTailProperties
  <2>2. Hits(q, T) = (IF Head(q) \in T THEN 1 ELSE 0) + Hits(Tail(q), T)
    BY <1>5, HitsTail
  <2>3. Head(q) \in T <=> Head(q).buf = b
    BY <2>1
  <2> HIDE DEF T
  <2> QED BY <1>1, <2>1, <2>2, <2>3
<1> QED BY <1>2, <1>3, <1>4, <1>5

LEMMA CommandFacts ==
    ASSUME NEW S, NEW q \in Seq(S)
    PROVE  /\ Commands(q) \in Nat
           /\ Commands(<<>>) = 0
           /\ \A e \in S : Commands(Append(q, e))
                  = Commands(q) + (IF e.id = "COMMAND" THEN 1 ELSE 0)
           /\ q # <<>> => Commands(q) = (IF Head(q).id = "COMMAND" THEN 1
                                         ELSE 0) + Commands(Tail(q))
<1> DEFINE T == {e \in S : e.id = "COMMAND"}
<1>1. ASSUME NEW r \in Seq(S) PROVE Commands(r) = Hits(r, T)
  <2>1. \A i \in 1..Len(r) : r[i] \in S
    OBVIOUS
  <2>2. {i \in 1..Len(r) : r[i].id = "COMMAND"} = {i \in 1..Len(r) : r[i] \in T}
    BY <2>1
  <2> QED BY <2>2 DEF Commands, Hits
<1>2. Commands(q) \in Nat
  <2> HIDE DEF T
  <2>1. Hits(q, T) \in Nat
    BY HitsConcat
  <2> QED BY <1>1, <2>1
<1>3. Commands(<<>>) = 0
  BY <1>1, HitsOne, EmptySeq
<1>4. ASSUME NEW e \in S
      PROVE  Commands(Append(q, e))
               = Commands(q) + (IF e.id = "COMMAND" THEN 1 ELSE 0)
  <2>1. Append(q, e) \in Seq(S)
    OBVIOUS
  <2>2. Hits(Append(q, e), T) = Hits(q, T) + (IF e \in T THEN 1 ELSE 0)
    BY HitsAppend
  <2> HIDE DEF T
  <2>3. e \in T <=> e.id = "COMMAND"
    BY DEF T
  <2> QED BY <1>1, <2>1, <2>2, <2>3
<1>5. ASSUME q # <<>>
      PROVE  Commands(q)
               = (IF Head(q).id = "COMMAND" THEN 1 ELSE 0) + Commands(Tail(q))
  <2>1. Tail(q) \in Seq(S) /\ Head(q) \in S
    BY <1>5, HeadTailProperties
  <2>2. Hits(q, T) = (IF Head(q) \in T THEN 1 ELSE 0) + Hits(Tail(q), T)
    BY <1>5, HitsTail
  <2>3. Head(q) \in T <=> Head(q).id = "COMMAND"
    BY <2>1
  <2> HIDE DEF T
  <2> QED BY <1>1, <2>1, <2>2, <2>3
<1> QED BY <1>2, <1>3, <1>4, <1>5

-------------------------------------------------------------------------------
(* What taking an event and posting one do to the queues.                  *)
Pop(e, id) == [e EXCEPT !.pipe = Tail(@), ![QueueOf(id)] = Tail(@)]
EvWeight(e, b) == Count(e.etb, b) + Count(e.ftb, b)

LEMMA EvFacts ==
    ASSUME NEW e \in EvType
    PROVE  /\ e.pipe \in Seq(Ids) /\ e.cmd \in Seq(CmdEntry)
           /\ e.etb \in Seq(BufEntry("in")) /\ e.ftb \in Seq(BufEntry("out"))
           /\ Commands(e.cmd) \in Nat
           /\ \A b : Count(e.etb, b) \in Nat /\ Count(e.ftb, b) \in Nat
<1>1. /\ e.pipe \in Seq(Ids) /\ e.cmd \in Seq(CmdEntry)
      /\ e.etb \in Seq(BufEntry("in")) /\ e.ftb \in Seq(BufEntry("out"))
  BY DEF EvType
<1>2. Commands(e.cmd) \in Nat
  BY <1>1, CommandFacts
<1>3. \A b : Count(e.etb, b) \in Nat
  BY <1>1, CountFacts
<1>4. \A b : Count(e.ftb, b) \in Nat
  BY <1>1, CountFacts
<1> QED BY <1>1, <1>2, <1>3, <1>4

LEMMA QueueCases ==
    ASSUME NEW id
    PROVE  QueueOf(id) \in {"cmd", "etb", "ftb"}
BY DEF QueueOf

LEMMA PopFacts ==
    ASSUME NEW e \in EvType, NEW id, e.pipe # <<>>, e[QueueOf(id)] # <<>>
    PROVE  /\ Pop(e, id) \in EvType
           /\ Pop(e, id).cmd = IF QueueOf(id) = "cmd" THEN Tail(e.cmd) ELSE e.cmd
           /\ Pop(e, id).etb = IF QueueOf(id) = "etb" THEN Tail(e.etb) ELSE e.etb
           /\ Pop(e, id).ftb = IF QueueOf(id) = "ftb" THEN Tail(e.ftb) ELSE e.ftb
<1>1. /\ e.pipe \in Seq(Ids) /\ e.cmd \in Seq(CmdEntry)
      /\ e.etb \in Seq(BufEntry("in")) /\ e.ftb \in Seq(BufEntry("out"))
  BY EvFacts
<1>2. Tail(e.pipe) \in Seq(Ids)
  BY <1>1, HeadTailProperties
<1>3. CASE QueueOf(id) = "cmd"
  <2>1. Tail(e.cmd) \in Seq(CmdEntry)
    BY <1>1, <1>3, HeadTailProperties
  <2> QED BY <1>1, <1>2, <1>3, <2>1 DEF Pop, EvType
<1>4. CASE QueueOf(id) = "etb"
  <2>1. Tail(e.etb) \in Seq(BufEntry("in"))
    BY <1>1, <1>4, HeadTailProperties
  <2> QED BY <1>1, <1>2, <1>4, <2>1 DEF Pop, EvType
<1>5. CASE QueueOf(id) = "ftb"
  <2>1. Tail(e.ftb) \in Seq(BufEntry("out"))
    BY <1>1, <1>5, HeadTailProperties
  <2> QED BY <1>1, <1>2, <1>5, <2>1 DEF Pop, EvType
<1> QED BY <1>3, <1>4, <1>5, QueueCases

LEMMA PopCommand ==
    ASSUME NEW e \in EvType, NEW id, e.pipe # <<>>, e[QueueOf(id)] # <<>>,
           QueueOf(id) = "cmd"
    PROVE  /\ Pop(e, id) \in EvType
           /\ Head(e.cmd) \in CmdEntry
           /\ Commands(e.cmd) = (IF Head(e.cmd).id = "COMMAND" THEN 1 ELSE 0)
                                   + Commands(Pop(e, id).cmd)
           /\ Commands(Pop(e, id).cmd) \in Nat
           /\ \A b : EvWeight(Pop(e, id), b) = EvWeight(e, b)
<1>1. e.cmd \in Seq(CmdEntry) /\ e.cmd # <<>>
  BY EvFacts
<1>2. Pop(e, id) \in EvType /\ Pop(e, id).cmd = Tail(e.cmd)
      /\ Pop(e, id).etb = e.etb /\ Pop(e, id).ftb = e.ftb
  BY PopFacts
<1>3. Head(e.cmd) \in CmdEntry
  BY <1>1, HeadTailProperties
<1>4. Commands(e.cmd) = (IF Head(e.cmd).id = "COMMAND" THEN 1 ELSE 0)
                           + Commands(Tail(e.cmd))
  BY <1>1, CommandFacts
<1>5. Commands(Pop(e, id).cmd) \in Nat
  BY <1>2, EvFacts
<1> QED BY <1>2, <1>3, <1>4, <1>5 DEF EvWeight

LEMMA PopBuffer ==
    ASSUME NEW e \in EvType, NEW p \in Ports, NEW id \in {This(p), Done(p)},
           e.pipe # <<>>, e[QueueOf(id)] # <<>>
    PROVE  /\ Pop(e, id) \in EvType /\ Pop(e, id).cmd = e.cmd
           /\ Head(e[QueueOf(id)]) \in BufEntry(p)
           /\ \A b : EvWeight(e, b)
                = (IF Head(e[QueueOf(id)]).p1 = b THEN 1 ELSE 0)
                     + EvWeight(Pop(e, id), b)
<1>1. /\ e.cmd \in Seq(CmdEntry)
      /\ e.etb \in Seq(BufEntry("in")) /\ e.ftb \in Seq(BufEntry("out"))
      /\ \A b : Count(e.etb, b) \in Nat /\ Count(e.ftb, b) \in Nat
  BY EvFacts
<1>2. Pop(e, id) \in EvType
  BY PopFacts
<1>3. \A b : Count(Pop(e, id).etb, b) \in Nat /\ Count(Pop(e, id).ftb, b) \in Nat
  BY <1>2, EvFacts
<1>4. CASE p = "in"
  <2>1. QueueOf(id) = "etb"
    BY <1>4 DEF QueueOf, This, Done
  <2>2. Pop(e, id).cmd = e.cmd /\ Pop(e, id).etb = Tail(e.etb)
        /\ Pop(e, id).ftb = e.ftb
    BY <2>1, PopFacts
  <2>3. Head(e.etb) \in BufEntry("in")
    BY <1>1, <2>1, HeadTailProperties
  <2>4. \A b : Count(e.etb, b) = (IF Head(e.etb).p1 = b THEN 1 ELSE 0)
                                    + Count(Tail(e.etb), b)
    BY <1>1, <2>1, CountFacts
  <2> QED BY <1>1, <1>2, <1>3, <1>4, <2>1, <2>2, <2>3, <2>4 DEF EvWeight
<1>5. CASE p = "out"
  <2>1. QueueOf(id) = "ftb"
    BY <1>5 DEF QueueOf, This, Done
  <2>2. Pop(e, id).cmd = e.cmd /\ Pop(e, id).ftb = Tail(e.ftb)
        /\ Pop(e, id).etb = e.etb
    BY <2>1, PopFacts
  <2>3. Head(e.ftb) \in BufEntry("out")
    BY <1>1, <2>1, HeadTailProperties
  <2>4. \A b : Count(e.ftb, b) = (IF Head(e.ftb).p1 = b THEN 1 ELSE 0)
                                    + Count(Tail(e.ftb), b)
    BY <1>1, <2>1, CountFacts
  <2> QED BY <1>1, <1>2, <1>3, <1>5, <2>1, <2>2, <2>3, <2>4 DEF EvWeight
<1> QED BY <1>4, <1>5 DEF Ports

LEMMA PostCommand ==
    ASSUME NEW e \in EvType, NEW id \in Ids, NEW p1, NEW p2,
           QueueOf(id) = "cmd", Entry(id, p1, p2) \in CmdEntry
    PROVE  /\ post_event(e, id, p1, p2) \in EvType
           /\ Commands(post_event(e, id, p1, p2).cmd)
                = Commands(e.cmd) + (IF id = "COMMAND" THEN 1 ELSE 0)
           /\ \A b : EvWeight(post_event(e, id, p1, p2), b) = EvWeight(e, b)
<1>1. /\ e.pipe \in Seq(Ids) /\ e.cmd \in Seq(CmdEntry)
      /\ e.etb \in Seq(BufEntry("in")) /\ e.ftb \in Seq(BufEntry("out"))
  BY EvFacts
<1>2. PICK x \in CmdEntry : x = Entry(id, p1, p2)
  OBVIOUS
<1>3. Append(e.pipe, id) \in Seq(Ids) /\ Append(e.cmd, x) \in Seq(CmdEntry)
  BY <1>1
<1>4. post_event(e, id, p1, p2)
        = [e EXCEPT !.pipe = Append(@, id), !["cmd"] = Append(@, x)]
  BY <1>2 DEF post_event
<1>5. /\ post_event(e, id, p1, p2) \in EvType
      /\ post_event(e, id, p1, p2).cmd = Append(e.cmd, x)
      /\ post_event(e, id, p1, p2).etb = e.etb
      /\ post_event(e, id, p1, p2).ftb = e.ftb
  BY <1>1, <1>3, <1>4 DEF EvType
<1>6. Commands(Append(e.cmd, x))
        = Commands(e.cmd) + (IF x.id = "COMMAND" THEN 1 ELSE 0)
  BY <1>1, CommandFacts
<1>7. x.id = id
  BY <1>2 DEF Entry
<1> QED BY <1>5, <1>6, <1>7 DEF EvWeight

LEMMA PostBuffer ==
    ASSUME NEW e \in EvType, NEW p \in Ports, NEW id \in {This(p), Done(p)},
           NEW b \in BufsOf(p), NEW len \in {"empty", "data"}
    PROVE  /\ post_event(e, id, b, len) \in EvType
           /\ post_event(e, id, b, len).cmd = e.cmd
           /\ \A c : EvWeight(post_event(e, id, b, len), c)
                = EvWeight(e, c) + (IF b = c THEN 1 ELSE 0)
<1>1. /\ e.pipe \in Seq(Ids) /\ e.cmd \in Seq(CmdEntry)
      /\ e.etb \in Seq(BufEntry("in")) /\ e.ftb \in Seq(BufEntry("out"))
      /\ \A c : Count(e.etb, c) \in Nat /\ Count(e.ftb, c) \in Nat
  BY EvFacts
<1>0. id \in Ids
  BY DEF This, Done, Ids, DriverIds
<1>2. Entry(id, b, len) \in BufEntry(p)
  BY <1>0 DEF Entry, BufEntry
<1>3. PICK x \in BufEntry(p) : x = Entry(id, b, len)
  BY <1>2
<1>4. x.p1 = b
  BY <1>3 DEF Entry
<1>5. Append(e.pipe, id) \in Seq(Ids)
  BY <1>0, <1>1
<1>6. CASE p = "in"
  <2>1. QueueOf(id) = "etb"
    BY <1>6 DEF QueueOf, This, Done
  <2>2. post_event(e, id, b, len)
          = [e EXCEPT !.pipe = Append(@, id), !["etb"] = Append(@, x)]
    BY <1>3, <2>1 DEF post_event
  <2>3. Append(e.etb, x) \in Seq(BufEntry("in"))
    BY <1>1, <1>6
  <2>4. /\ post_event(e, id, b, len) \in EvType
        /\ post_event(e, id, b, len).etb = Append(e.etb, x)
        /\ post_event(e, id, b, len).cmd = e.cmd
        /\ post_event(e, id, b, len).ftb = e.ftb
    BY <1>1, <1>5, <2>2, <2>3 DEF EvType
  <2>5. \A c : Count(Append(e.etb, x), c)
                 = Count(e.etb, c) + (IF x.p1 = c THEN 1 ELSE 0)
    BY <1>1, <1>6, CountFacts
  <2> QED BY <1>1, <1>4, <2>4, <2>5 DEF EvWeight
<1>7. CASE p = "out"
  <2>1. QueueOf(id) = "ftb"
    BY <1>7 DEF QueueOf, This, Done
  <2>2. post_event(e, id, b, len)
          = [e EXCEPT !.pipe = Append(@, id), !["ftb"] = Append(@, x)]
    BY <1>3, <2>1 DEF post_event
  <2>3. Append(e.ftb, x) \in Seq(BufEntry("out"))
    BY <1>1, <1>7
  <2>4. /\ post_event(e, id, b, len) \in EvType
        /\ post_event(e, id, b, len).ftb = Append(e.ftb, x)
        /\ post_event(e, id, b, len).cmd = e.cmd
        /\ post_event(e, id, b, len).etb = e.etb
    BY <1>1, <1>5, <2>2, <2>3 DEF EvType
  <2>5. \A c : Count(Append(e.ftb, x), c)
                 = Count(e.ftb, c) + (IF x.p1 = c THEN 1 ELSE 0)
    BY <1>1, <1>7, CountFacts
  <2> QED BY <1>1, <1>4, <2>4, <2>5 DEF EvWeight
<1> QED BY <1>6, <1>7 DEF Ports

-------------------------------------------------------------------------------
(* Emptying the queue of a port, and the callbacks this makes.             *)
LEMMA EmptiedFacts ==
    ASSUME NEW e \in EvType, NEW p \in Ports
    PROVE  /\ Emptied(e, p) \in EvType /\ Emptied(e, p).cmd = e.cmd
           /\ e[QueueOf(This(p))] \in Seq(BufEntry(p))
           /\ p = "out" => Emptied(e, p).etb = e.etb
           /\ \A b : EvWeight(e, b) = EvWeight(Emptied(e, p), b)
                                         + Count(e[QueueOf(This(p))], b)
<1>1. /\ e.cmd \in Seq(CmdEntry) /\ e.pipe \in Seq(Ids)
      /\ e.etb \in Seq(BufEntry("in")) /\ e.ftb \in Seq(BufEntry("out"))
      /\ \A b : Count(e.etb, b) \in Nat /\ Count(e.ftb, b) \in Nat
  BY EvFacts
<1>2. \A b : Count(<<>>, b) = 0
  BY <1>1, CountFacts
<1>3. CASE p = "in"
  <2>1. QueueOf(This(p)) = "etb"
    BY <1>3 DEF QueueOf, This
  <2>2. <<>> \in Seq(BufEntry("in"))
    BY EmptySeq
  <2>3. /\ Emptied(e, p) \in EvType /\ Emptied(e, p).cmd = e.cmd
        /\ Emptied(e, p).etb = <<>> /\ Emptied(e, p).ftb = e.ftb
    BY <1>1, <2>1, <2>2 DEF Emptied, EvType
  <2> QED BY <1>1, <1>2, <1>3, <2>1, <2>3 DEF EvWeight
<1>4. CASE p = "out"
  <2>1. QueueOf(This(p)) = "ftb"
    BY <1>4 DEF QueueOf, This
  <2>2. <<>> \in Seq(BufEntry("out"))
    BY EmptySeq
  <2>3. /\ Emptied(e, p) \in EvType /\ Emptied(e, p).cmd = e.cmd
        /\ Emptied(e, p).ftb = <<>> /\ Emptied(e, p).etb = e.etb
    BY <1>1, <2>1, <2>2 DEF Emptied, EvType
  <2> QED BY <1>1, <1>2, <1>4, <2>1, <2>3 DEF EvWeight
<1> QED BY <1>3, <1>4 DEF Ports

LEMMA BufsFacts ==
    /\ \A p \in Ports : BufsOf(p) \subseteq Bufs
    /\ \A p \in Ports : \A b \in BufsOf(p) : PortOf(b) = p
    /\ \A b \in Bufs : PortOf(b) \in Ports /\ b \in BufsOf(PortOf(b))
    /\ NULL \notin Bufs
    /\ \A x \in Names : x \notin Bufs
BY ComponentAssumption DEF Ports, BufsOf, Bufs, PortOf, Names

LEMMA CbCommand ==
    ASSUME NEW c \in Names, NEW a \in Args
    PROVE  /\ CmdComplete(c, a) \in Callback
           /\ \A b \in Bufs : CmdComplete(c, a).p1 # b
BY BufsFacts DEF CmdComplete, Callback

LEMMA CbAppend ==
    ASSUME NEW q \in Seq(Callback), NEW x \in Callback,
           \A b \in Bufs : x.p1 # b
    PROVE  /\ Append(q, x) \in Seq(Callback)
           /\ \A b \in Bufs : Count(Append(q, x), b) = Count(q, b)
<1>1. Append(q, x) \in Seq(Callback)
  OBVIOUS
<1>2. \A b \in Bufs : /\ Count(q, b) \in Nat
                      /\ Count(Append(q, x), b)
                           = Count(q, b) + (IF x.p1 = b THEN 1 ELSE 0)
  BY CountFacts
<1>3. ASSUME NEW b \in Bufs PROVE Count(Append(q, x), b) = Count(q, b)
  <2>1. Count(Append(q, x), b) = Count(q, b) + 0
    BY <1>2
  <2> QED BY <1>2, <2>1
<1> QED BY <1>1, <1>3

LEMMA CbMaybe ==
    ASSUME NEW c \in Names, NEW a \in Args, NEW done
    PROVE  LET q == IF done THEN <<CmdComplete(c, a)>> ELSE <<>> IN
           q \in Seq(Callback) /\ \A b \in Bufs : Count(q, b) = 0
<1>1. PICK x \in Callback : x = CmdComplete(c, a) /\ \A b \in Bufs : x.p1 # b
  BY CbCommand
<1>2. PICK z \in Seq(Callback) : z = <<>>
  BY EmptySeq
<1>3. <<x>> \in Seq(Callback) /\ Append(z, x) = <<x>>
  BY <1>2
<1>4. \A b \in Bufs : Count(<<>>, b) = 0
  BY CountFacts
<1>5. \A b \in Bufs : Count(Append(z, x), b)
                        = Count(z, b) + (IF x.p1 = b THEN 1 ELSE 0)
  BY CountFacts
<1>6. \A b \in Bufs : Count(<<x>>, b) = 0
  BY <1>1, <1>2, <1>3, <1>4, <1>5
<1> QED BY <1>1, <1>2, <1>3, <1>4, <1>6

LEMMA CbConcat ==
    ASSUME NEW q \in Seq(Callback), NEW r \in Seq(Callback)
    PROVE  /\ q \o r \in Seq(Callback)
           /\ \A b : Count(q \o r, b) = Count(q, b) + Count(r, b)
<1>1. q \o r \in Seq(Callback)
  BY ConcatProperties
<1>2. \A b : Count(q \o r, b) = Count(q, b) + Count(r, b)
  BY CountFacts
<1> QED BY <1>1, <1>2

LEMMA CbReturned ==
    ASSUME NEW p \in Ports, NEW q \in Seq(BufEntry(p))
    PROVE  /\ Returned(q) \in Seq(Callback)
           /\ \A b : Count(Returned(q), b) = Count(q, b)
<1> DEFINE r == [i \in 1..Len(q) |-> BufferDone(q[i].p1, q[i].p2)]
<1>1. Len(q) \in Nat /\ \A i \in 1..Len(q) : q[i] \in BufEntry(p)
  OBVIOUS
<1>2. \A i \in 1..Len(q) : /\ BufferDone(q[i].p1, q[i].p2) \in Callback
                           /\ BufferDone(q[i].p1, q[i].p2).p1 = q[i].p1
  BY <1>1, BufsFacts DEF BufferDone, Callback, BufEntry, Args
<1>3. r \in [1..Len(q) -> Callback]
  BY <1>2
<1>4. r \in Seq(Callback) /\ Len(r) = Len(q)
  <2> HIDE DEF r
  <2>1. r \in Seq(Callback)
    BY <1>1, <1>3, SeqDef
  <2> QED BY <1>1, <1>3, <2>1
<1>5. \A i \in 1..Len(q) : r[i].p1 = q[i].p1
  BY <1>2
<1>6. ASSUME NEW b PROVE Count(r, b) = Count(q, b)
  <2>1. {i \in 1..Len(r) : r[i].p1 = b} = {i \in 1..Len(q) : q[i].p1 = b}
    BY <1>4, <1>5
  <2> QED BY <2>1 DEF Count
<1> QED BY <1>4, <1>6 DEF Returned

-------------------------------------------------------------------------------
(* A step of the component moves buffers between the driver, the messages, *)
(* the queues and the callbacks.  It preserves the invariant when it makes *)
(* no more of them, and no command.                                        *)
CompType ==
    /\ m_state \in States
    /\ m_flags \subseteq ({"IDLE", "LOADING", "EXECUTE"} \X {"all"})
                    \cup ({"FLUSH", "ENABLE", "DISABLE"} \X Ports)
    /\ m_port_enabled \in [Ports -> BOOLEAN]
    /\ m_port_flushing \in [Ports -> BOOLEAN] /\ m_port_reconfig \in BOOLEAN
    /\ m_cmd_lock \in Nat /\ toFlush \subseteq Ports
    /\ drv \in [Ports -> SUBSET Bufs] /\ flushReq \subseteq Ports

InDriver(b) == IF b \in drv[PortOf(b)] THEN 1 ELSE 0
Flight(b) == InDriver(b) + MsgCount(msgs, b) + EvWeight(ev, b) + Count(cb, b)
Held(b) == IF b \in Owned(PortOf(b)) /\ mStatus[b] # "COMPONENT" THEN 1 ELSE 0

LEMMA WeightFacts ==
    ASSUME NEW e \in EvType, NEW m \in Seq(Msg), NEW c \in Seq(Callback), NEW D,
           NEW b
    PROVE  /\ MsgCount(m, b) \in Nat /\ Count(c, b) \in Nat
           /\ Count(e.etb, b) \in Nat /\ Count(e.ftb, b) \in Nat
           /\ EvWeight(e, b) \in Nat
           /\ Cardinality({b} \cap D) = IF b \in D THEN 1 ELSE 0
<1>1. MsgCount(m, b) \in Nat
  BY MsgFacts
<1>2. Count(c, b) \in Nat
  BY CountFacts
<1>3. Count(e.etb, b) \in Nat /\ Count(e.ftb, b) \in Nat
  BY EvFacts
<1>4. {b} \cap D = IF b \in D THEN {b} ELSE {}
  OBVIOUS
<1>5. Cardinality({b} \cap D) = IF b \in D THEN 1 ELSE 0
  BY <1>4, FS_EmptySet, FS_Singleton
<1> QED BY <1>1, <1>2, <1>3, <1>5 DEF EvWeight

LEMMA PlacesFlight ==
    ASSUME CompOK, NEW b
    PROVE  /\ MsgCount(msgs, b) \in Nat /\ EvWeight(ev, b) \in Nat
           /\ Count(cb, b) \in Nat /\ InDriver(b) \in Nat
           /\ Flight(b) \in Nat /\ Held(b) \in Nat
           /\ Places(b) = Flight(b) + Held(b)
<1>1. ev \in EvType /\ msgs \in Seq(Msg) /\ cb \in Seq(Callback)
  BY DEF CompOK
<1>2. /\ MsgCount(msgs, b) \in Nat /\ Count(cb, b) \in Nat
      /\ Count(ev.etb, b) \in Nat /\ Count(ev.ftb, b) \in Nat
      /\ EvWeight(ev, b) \in Nat
      /\ Cardinality({b} \cap drv[PortOf(b)]) = InDriver(b)
  BY <1>1, WeightFacts DEF InDriver
<1>3. InDriver(b) \in Nat /\ Held(b) \in Nat
  BY DEF InDriver, Held
<1>4. Places(b) = InDriver(b) + MsgCount(msgs, b) + Count(ev.etb, b)
                     + Count(ev.ftb, b) + Count(cb, b) + Held(b)
  BY <1>2 DEF Places, MsgCount, Held
<1> QED BY <1>2, <1>3, <1>4 DEF Flight, EvWeight

LEMMA PlacesFlightNext ==
    ASSUME CompOK', NEW b
    PROVE  /\ Flight(b)' \in Nat /\ Held(b)' \in Nat
           /\ Places(b)' = Flight(b)' + Held(b)'
<1>1. ev' \in EvType /\ msgs' \in Seq(Msg) /\ cb' \in Seq(Callback)
  BY DEF CompOK
<1>2. /\ MsgCount(msgs', b) \in Nat /\ Count(cb', b) \in Nat
      /\ Count(ev'.etb, b) \in Nat /\ Count(ev'.ftb, b) \in Nat
      /\ EvWeight(ev', b) \in Nat
      /\ Cardinality({b} \cap drv'[PortOf(b)]) = InDriver(b)'
  BY <1>1, WeightFacts DEF InDriver
<1>3. InDriver(b)' \in Nat /\ Held(b)' \in Nat
  BY DEF InDriver, Held
<1>4. Places(b)' = InDriver(b)' + MsgCount(msgs', b) + Count(ev'.etb, b)
                     + Count(ev'.ftb, b) + Count(cb', b) + Held(b)'
  BY <1>2 DEF Places, MsgCount, Held
<1> QED BY <1>2, <1>3, <1>4 DEF Flight, EvWeight

LEMMA ComponentStep ==
    ASSUME CodecInv, UNCHANGED <<codecVars, headVars>>, CompType', CompOK',
           Commands(ev'.cmd) + m_cmd_lock' <= Commands(ev.cmd) + m_cmd_lock,
           \A b \in Bufs : Flight(b)' <= Flight(b)
    PROVE  CodecInv'
<1> USE DEF codecVars, headVars, callVars, modeVars, userVars
<1>1. CommandOK'
  <2>1. Commands(ev.cmd) \in Nat /\ Commands(ev'.cmd) \in Nat
    BY EvFacts DEF CodecInv, CompOK
  <2>2. m_cmd_lock \in Nat /\ m_cmd_lock' \in Nat
    BY DEF CodecInv, TypeOK, CompType
  <2>3. Makes("sem_wait")' = Makes("sem_wait")
    BY DEF Makes
  <2>4. Commands(ev.cmd) + m_cmd_lock <= IF Makes("sem_wait") THEN 1 ELSE 0
    BY DEF CodecInv, CommandOK
  <2>5. Commands(ev'.cmd) + m_cmd_lock' <= IF Makes("sem_wait") THEN 1 ELSE 0
    BY <2>1, <2>2, <2>4
  <2> QED BY <2>3, <2>5 DEF CommandOK
<1>2. m_cmd_lock' \in 0..1
  <2>1. Commands(ev'.cmd) \in Nat /\ m_cmd_lock' \in Nat
    BY EvFacts DEF CompOK, CompType
  <2>2. Commands(ev'.cmd) + m_cmd_lock' <= 1
    BY <1>1, <2>1 DEF CommandOK
  <2> QED BY <2>1, <2>2
<1>3. TypeOK'
  BY <1>2 DEF CodecInv, TypeOK, CompType, States
<1>4. (\A p \in Ports : HeadOK(p))' /\ (DOMAIN m_omx_bufhead = Ports)'
  BY DEF CodecInv, HeadOK
<1>5. HeadsMatch' /\ CallOK' /\ LifeOK'
  <2>1. HeadsMatch' = HeadsMatch
    BY DEF HeadsMatch, Registered, Owned
  <2>2. CallOK' = CallOK
    BY DEF CallOK, UseOK, Compact, Owned
  <2>3. LifeOK' = LifeOK
    BY DEF LifeOK, ToFree, Owned
  <2> QED BY <2>1, <2>2, <2>3 DEF CodecInv
<1>6. OnePlace'
  <2> SUFFICES ASSUME NEW b \in Bufs
               PROVE  (Places(b) <= IF b \in Owned(PortOf(b)) THEN 1 ELSE 0)'
    BY DEF OnePlace
  <2>1. Flight(b) \in Nat /\ Places(b) = Flight(b) + Held(b)
    BY PlacesFlight DEF CodecInv
  <2>2. Flight(b)' \in Nat /\ Places(b)' = Flight(b)' + Held(b)'
    BY PlacesFlightNext
  <2>3. Held(b)' = Held(b) /\ Held(b) \in Nat
    BY DEF Held, Owned
  <2>4. Places(b) <= IF b \in Owned(PortOf(b)) THEN 1 ELSE 0
    BY DEF CodecInv, OnePlace
  <2>5. Places(b)' <= IF b \in Owned(PortOf(b)) THEN 1 ELSE 0
    BY <2>1, <2>2, <2>3, <2>4
  <2> QED BY <2>5 DEF Owned
<1> QED BY <1>1, <1>3, <1>4, <1>5, <1>6 DEF CodecInv

LEMMA Typing ==
    ASSUME CodecInv
    PROVE  /\ CompType /\ CompOK
           /\ ev \in EvType /\ msgs \in Seq(Msg) /\ cb \in Seq(Callback)
           /\ \A p \in Ports : drv[p] \subseteq BufsOf(p)
           /\ Commands(ev.cmd) \in Nat /\ m_cmd_lock \in Nat
<1>1. /\ CompOK /\ ev \in EvType /\ msgs \in Seq(Msg) /\ cb \in Seq(Callback)
      /\ \A p \in Ports : drv[p] \subseteq BufsOf(p)
  BY DEF CodecInv, CompOK
<1>2. CompType
  BY DEF CodecInv, TypeOK, CompType, States
<1> QED BY <1>1, <1>2, EvFacts DEF CompType

(* A step that leaves the driver's buffers alone.                          *)
LEMMA QueueStep ==
    ASSUME CodecInv, UNCHANGED <<codecVars, headVars, drv>>, CompType',
           ev' \in EvType, msgs' \in Seq(Msg), cb' \in Seq(Callback),
           Commands(ev'.cmd) + m_cmd_lock' <= Commands(ev.cmd) + m_cmd_lock,
           \A b \in Bufs :
              MsgCount(msgs', b) + EvWeight(ev', b) + Count(cb', b)
                <= MsgCount(msgs, b) + EvWeight(ev, b) + Count(cb, b)
    PROVE  CodecInv'
<1>1. CompOK'
  BY Typing DEF CompOK
<1>2. ASSUME NEW b \in Bufs PROVE Flight(b)' <= Flight(b)
  <2>1. /\ MsgCount(msgs, b) \in Nat /\ EvWeight(ev, b) \in Nat
        /\ Count(cb, b) \in Nat
    BY Typing, WeightFacts
  <2>2. /\ MsgCount(msgs', b) \in Nat /\ EvWeight(ev', b) \in Nat
        /\ Count(cb', b) \in Nat
    BY WeightFacts
  <2>3. InDriver(b)' = InDriver(b) /\ InDriver(b) \in Nat
    BY DEF InDriver
  <2>4. PICK i, m, v, c, n, w, d :
          /\ i = InDriver(b)
          /\ m = MsgCount(msgs, b) /\ v = EvWeight(ev, b) /\ c = Count(cb, b)
          /\ n = MsgCount(msgs', b) /\ w = EvWeight(ev', b) /\ d = Count(cb', b)
    OBVIOUS
  <2>5. /\ i \in Nat /\ m \in Nat /\ v \in Nat /\ c \in Nat
        /\ n \in Nat /\ w \in Nat /\ d \in Nat /\ n + w + d <= m + v + c
    BY <2>1, <2>2, <2>3, <2>4
  <2>6. Flight(b) = i + m + v + c /\ Flight(b)' = i + n + w + d
    BY <2>3, <2>4 DEF Flight
  <2> QED BY <2>5, <2>6
<1> QED BY <1>1, <1>2, ComponentStep

(* A step that only takes or posts events of the command queue.            *)
LEMMA CommandStep ==
    ASSUME CodecInv, UNCHANGED <<codecVars, headVars, drv, msgs>>, CompType',
           ev' \in EvType, cb' \in Seq(Callback),
           Commands(ev'.cmd) + m_cmd_lock' <= Commands(ev.cmd) + m_cmd_lock,
           \A b \in Bufs : EvWeight(ev', b) = EvWeight(ev, b)
                              /\ Count(cb', b) = Count(cb, b)
    PROVE  CodecInv'
<1>1. msgs' \in Seq(Msg)
  BY Typing
<1>2. ASSUME NEW b \in Bufs
      PROVE  MsgCount(msgs', b) + EvWeight(ev', b) + Count(cb', b)
               <= MsgCount(msgs, b) + EvWeight(ev, b) + Count(cb, b)
  <2>1. /\ MsgCount(msgs, b) \in Nat /\ EvWeight(ev, b) \in Nat
        /\ Count(cb, b) \in Nat
    BY Typing, WeightFacts
  <2> QED BY <2>1
<1> QED BY <1>1, <1>2, QueueStep

LEMMA TakesFacts ==
    ASSUME CodecInv, NEW id, Takes(id)
    PROVE  /\ ev \in EvType /\ ev.pipe # <<>> /\ ev[QueueOf(id)] # <<>>
           /\ Popped(id) = Pop(ev, id) /\ Popped(id) \in EvType
           /\ First(id) = Head(ev[QueueOf(id)]) /\ First(id).id = id
<1>1. /\ ev \in EvType /\ ev.pipe # <<>> /\ ev[QueueOf(id)] # <<>>
      /\ Popped(id) = Pop(ev, id)
      /\ First(id) = Head(ev[QueueOf(id)]) /\ First(id).id = id
  BY Typing DEF Takes, Pending, Found, First, Popped, Pop
<1> QED BY <1>1, PopFacts

(* Taking an event of the command queue.                                   *)
LEMMA TakesCommandFacts ==
    ASSUME CodecInv, NEW id, Takes(id), QueueOf(id) = "cmd"
    PROVE  /\ Popped(id) \in EvType /\ First(id) \in CmdEntry
           /\ First(id).id = id /\ Commands(Popped(id).cmd) \in Nat
           /\ Commands(ev.cmd) = (IF id = "COMMAND" THEN 1 ELSE 0)
                                    + Commands(Popped(id).cmd)
           /\ \A b : EvWeight(Popped(id), b) = EvWeight(ev, b)
<1>1. /\ ev \in EvType /\ ev.pipe # <<>> /\ ev[QueueOf(id)] # <<>>
      /\ Popped(id) = Pop(ev, id)
      /\ First(id) = Head(ev.cmd) /\ First(id).id = id
  BY TakesFacts
<1>2. /\ Pop(ev, id) \in EvType /\ Head(ev.cmd) \in CmdEntry
      /\ Commands(ev.cmd) = (IF Head(ev.cmd).id = "COMMAND" THEN 1 ELSE 0)
                               + Commands(Pop(ev, id).cmd)
      /\ Commands(Pop(ev, id).cmd) \in Nat
      /\ \A b : EvWeight(Pop(ev, id), b) = EvWeight(ev, b)
  BY <1>1, PopCommand
<1> QED BY <1>1, <1>2

(* Taking an event of a buffer queue.                                      *)
LEMMA TakesBufferFacts ==
    ASSUME CodecInv, NEW p \in Ports, NEW id \in {This(p), Done(p)}, Takes(id)
    PROVE  /\ Popped(id) \in EvType /\ Popped(id).cmd = ev.cmd
           /\ First(id) \in BufEntry(p)
           /\ First(id).p1 \in BufsOf(p) /\ First(id).p1 \in Bufs
           /\ \A b : EvWeight(ev, b) = (IF First(id).p1 = b THEN 1 ELSE 0)
                                          + EvWeight(Popped(id), b)
<1>1. /\ ev \in EvType /\ ev.pipe # <<>> /\ ev[QueueOf(id)] # <<>>
      /\ Popped(id) = Pop(ev, id)
      /\ First(id) = Head(ev[QueueOf(id)])
  BY TakesFacts
<1>2. /\ Pop(ev, id) \in EvType /\ Pop(ev, id).cmd = ev.cmd
      /\ Head(ev[QueueOf(id)]) \in BufEntry(p)
      /\ \A b : EvWeight(ev, b)
           = (IF Head(ev[QueueOf(id)]).p1 = b THEN 1 ELSE 0)
                + EvWeight(Pop(ev, id), b)
  BY <1>1, PopBuffer
<1>3. First(id).p1 \in BufsOf(p)
  BY <1>1, <1>2 DEF BufEntry
<1>4. First(id).p1 \in Bufs
  BY <1>3, BufsFacts
<1> QED BY <1>1, <1>2, <1>3, <1>4

-------------------------------------------------------------------------------
(* The steps of the event thread.                                          *)
LEMMA EventIgnoredStep ==
    ASSUME CodecInv, EventIgnored, UNCHANGED codecVars
    PROVE  CodecInv'
<1> DEFINE id == Head(ev.pipe)
<1>1. ev \in EvType /\ ev.pipe # <<>> /\ CompType /\ Commands(ev.cmd) \in Nat
      /\ m_cmd_lock \in Nat /\ cb \in Seq(Callback) /\ msgs \in Seq(Msg)
  BY Typing DEF EventIgnored, Pending
<1>2. UNCHANGED <<m_state, m_flags, portVars, headVars, m_cmd_lock, toFlush,
                  drvVars, cb>>
  BY DEF EventIgnored
<1>3. CompType'
  BY <1>1, <1>2 DEF CompType, portVars, drvVars
<1>4. /\ ev' \in EvType /\ Commands(ev'.cmd) <= Commands(ev.cmd)
      /\ Commands(ev'.cmd) \in Nat
      /\ \A b : EvWeight(ev', b) <= EvWeight(ev, b)
  <2>0. \A b : EvWeight(ev, b) \in Nat
    BY <1>1, WeightFacts
  <2>1. CASE ev[QueueOf(id)] = <<>>
    <3>1. ev' = [ev EXCEPT !.pipe = Tail(@)]
      BY <2>1 DEF EventIgnored
    <3>2. Tail(ev.pipe) \in Seq(Ids)
      BY <1>1, EvFacts, HeadTailProperties
    <3>3. ev' \in EvType /\ ev'.cmd = ev.cmd /\ ev'.etb = ev.etb
          /\ ev'.ftb = ev.ftb
      BY <1>1, <3>1, <3>2 DEF EvType
    <3> QED BY <1>1, <2>0, <3>3 DEF EvWeight
  <2>2. CASE ev[QueueOf(id)] # <<>>
    <3>1. ev' = Pop(ev, id)
      BY <2>2 DEF EventIgnored, Popped, Pop
    <3>2. CASE QueueOf(id) = "cmd"
      <4> HIDE DEF id
      <4>1. /\ Pop(ev, id) \in EvType
            /\ Commands(ev.cmd) = (IF Head(ev.cmd).id = "COMMAND" THEN 1 ELSE 0)
                                   + Commands(Pop(ev, id).cmd)
            /\ Commands(Pop(ev, id).cmd) \in Nat
            /\ \A b : EvWeight(Pop(ev, id), b) = EvWeight(ev, b)
        BY <1>1, <2>2, <3>2, PopCommand
      <4> QED BY <2>0, <3>1, <4>1
    <3>3. ASSUME NEW p \in Ports, id \in {This(p), Done(p)}
          PROVE  /\ ev' \in EvType /\ Commands(ev'.cmd) <= Commands(ev.cmd)
                 /\ Commands(ev'.cmd) \in Nat
                 /\ \A b : EvWeight(ev', b) <= EvWeight(ev, b)
      <4> HIDE DEF id
      <4>1. /\ Pop(ev, id) \in EvType /\ Pop(ev, id).cmd = ev.cmd
            /\ \A b : EvWeight(ev, b)
                 = (IF Head(ev[QueueOf(id)]).p1 = b THEN 1 ELSE 0)
                     + EvWeight(Pop(ev, id), b)
        BY <1>1, <2>2, <3>3, PopBuffer
      <4>2. \A b : EvWeight(Pop(ev, id), b) \in Nat
        BY <1>1, <4>1, WeightFacts
      <4> QED BY <1>1, <2>0, <3>1, <4>1, <4>2
    <3>4. QueueOf(id) = "cmd" \/ \E p \in Ports : id \in {This(p), Done(p)}
      BY DEF QueueOf, Ports, This, Done
    <3> QED BY <3>2, <3>3, <3>4
  <2> QED BY <2>1, <2>2
<1>5. ASSUME NEW b \in Bufs
      PROVE  MsgCount(msgs', b) + EvWeight(ev', b) + Count(cb', b)
               <= MsgCount(msgs, b) + EvWeight(ev, b) + Count(cb, b)
  <2>1. /\ MsgCount(msgs, b) \in Nat /\ EvWeight(ev, b) \in Nat
        /\ Count(cb, b) \in Nat /\ EvWeight(ev', b) \in Nat
    BY <1>1, <1>4, WeightFacts
  <2>2. msgs' = msgs /\ cb' = cb /\ EvWeight(ev', b) <= EvWeight(ev, b)
    BY <1>2, <1>4 DEF drvVars
  <2> QED BY <2>1, <2>2
<1>6. Commands(ev'.cmd) + m_cmd_lock' <= Commands(ev.cmd) + m_cmd_lock
  BY <1>1, <1>2, <1>4
<1>7. msgs' \in Seq(Msg) /\ cb' \in Seq(Callback)
      /\ UNCHANGED <<codecVars, headVars, drv>>
  BY <1>1, <1>2 DEF drvVars
<1> QED BY <1>3, <1>4, <1>5, <1>6, <1>7, QueueStep

(* A buffer is given to the driver, or back when the port is being flushed.*)
LEMMA SubmitProxyStep ==
    ASSUME CodecInv, NEW p \in Ports, SubmitProxy(p), UNCHANGED codecVars
    PROVE  CodecInv'
<1>1. PICK b : b = First(This(p)).p1
  OBVIOUS
<1>2. PICK e : e = Popped(This(p))
  OBVIOUS
<1>3. /\ e \in EvType /\ e.cmd = ev.cmd /\ b \in BufsOf(p) /\ b \in Bufs
      /\ \A c : EvWeight(ev, c) = (IF b = c THEN 1 ELSE 0) + EvWeight(e, c)
  BY <1>1, <1>2, TakesBufferFacts DEF SubmitProxy
<1>4. /\ CompType /\ CompOK /\ msgs \in Seq(Msg) /\ cb \in Seq(Callback)
      /\ \A q \in Ports : drv[q] \subseteq BufsOf(q)
      /\ Commands(ev.cmd) \in Nat /\ m_cmd_lock \in Nat
  BY Typing
<1>5. UNCHANGED <<m_state, m_flags, portVars, headVars, m_cmd_lock, toFlush,
                  flushReq, msgs, resizes, cb>>
  BY DEF SubmitProxy
<1>6. \A c : /\ MsgCount(msgs, c) \in Nat /\ EvWeight(e, c) \in Nat
             /\ Count(cb, c) \in Nat
  BY <1>3, <1>4, WeightFacts
<1>7. CASE Bounces(p)
  <2>1. ev' = post_event(e, Done(p), b, "empty") /\ drv' = drv
    BY <1>1, <1>2, <1>7 DEF SubmitProxy
  <2>2. /\ ev' \in EvType /\ ev'.cmd = e.cmd
        /\ \A c : EvWeight(ev', c) = EvWeight(e, c) + (IF b = c THEN 1 ELSE 0)
    BY <1>3, <2>1, PostBuffer
  <2>3. CompType'
    BY <1>4, <1>5, <2>1 DEF CompType, portVars
  <2>4. \A c \in Bufs : MsgCount(msgs', c) + EvWeight(ev', c) + Count(cb', c)
                     <= MsgCount(msgs, c) + EvWeight(ev, c) + Count(cb, c)
    BY <1>3, <1>5, <1>6, <2>2
  <2>5. Commands(ev'.cmd) + m_cmd_lock' <= Commands(ev.cmd) + m_cmd_lock
    BY <1>3, <1>4, <1>5, <2>2
  <2>6. /\ UNCHANGED <<codecVars, headVars, drv>> /\ msgs' \in Seq(Msg)
        /\ cb' \in Seq(Callback)
    BY <1>4, <1>5, <2>1
  <2> QED BY <2>2, <2>3, <2>4, <2>5, <2>6, QueueStep
<1>8. CASE ~Bounces(p)
  <2>1. ev' = e /\ drv' = [drv EXCEPT ![p] = @ \cup {b}]
    BY <1>1, <1>2, <1>8 DEF SubmitProxy
  <2>2. drv \in [Ports -> SUBSET Bufs]
    BY <1>4 DEF CompType
  <2>3. CompType'
    BY <1>3, <1>4, <1>5, <2>1, <2>2 DEF CompType, portVars
  <2>4. CompOK'
    BY <1>3, <1>4, <1>5, <2>1, <2>2 DEF CompOK
  <2>5. ASSUME NEW c \in Bufs PROVE Flight(c)' <= Flight(c)
    <3>1. InDriver(c)' <= InDriver(c) + (IF b = c THEN 1 ELSE 0)
          /\ InDriver(c) \in Nat /\ InDriver(c)' \in Nat
      BY <1>3, <2>1, <2>2, BufsFacts DEF InDriver
    <3>2. /\ MsgCount(msgs', c) = MsgCount(msgs, c) /\ Count(cb', c) = Count(cb, c)
          /\ EvWeight(ev', c) = EvWeight(e, c)
      BY <1>5, <2>1
    <3> QED BY <1>3, <1>6, <3>1, <3>2 DEF Flight
  <2>6. Commands(ev'.cmd) + m_cmd_lock' <= Commands(ev.cmd) + m_cmd_lock
    BY <1>3, <1>4, <1>5, <2>1
  <2>7. UNCHANGED <<codecVars, headVars>>
    BY <1>5
  <2> QED BY <2>3, <2>4, <2>5, <2>6, <2>7, ComponentStep
<1> QED BY <1>7, <1>8

(* A buffer comes back to the client in a callback.                        *)
LEMMA GenerateDoneStep ==
    ASSUME CodecInv, NEW p \in Ports, GenerateDone(p), UNCHANGED codecVars
    PROVE  CodecInv'
<1>1. PICK e : e = First(Done(p))
  OBVIOUS
<1>2. PICK x : x = BufferDone(e.p1, DoneLength(p, e.p2))
  OBVIOUS
<1>3. /\ ev' = Popped(Done(p)) /\ cb' = Append(cb, x)
      /\ UNCHANGED <<m_state, m_flags, portVars, headVars, m_cmd_lock, toFlush,
                     drvVars>>
  BY <1>1, <1>2 DEF GenerateDone
<1>4. /\ ev' \in EvType /\ ev'.cmd = ev.cmd /\ e \in BufEntry(p)
      /\ e.p1 \in Bufs
      /\ \A c : EvWeight(ev, c) = (IF e.p1 = c THEN 1 ELSE 0) + EvWeight(ev', c)
  BY <1>1, <1>3, TakesBufferFacts DEF GenerateDone
<1>5. /\ CompType /\ msgs \in Seq(Msg) /\ cb \in Seq(Callback)
      /\ Commands(ev.cmd) \in Nat /\ m_cmd_lock \in Nat
  BY Typing
<1>6. x \in Callback /\ x.p1 = e.p1
  <2>1. DoneLength(p, e.p2) \in {"empty", "data"}
    BY <1>4 DEF DoneLength, BufEntry
  <2> QED BY <1>2, <1>4, <2>1 DEF BufferDone, Callback, Args
<1>7. cb' \in Seq(Callback)
  BY <1>3, <1>5, <1>6
<1>8. \A c : Count(cb', c) = Count(cb, c) + (IF x.p1 = c THEN 1 ELSE 0)
  BY <1>3, <1>5, <1>6, CountFacts
<1>9. \A c : /\ MsgCount(msgs, c) \in Nat /\ EvWeight(ev', c) \in Nat
             /\ Count(cb, c) \in Nat
  BY <1>4, <1>5, WeightFacts
<1>10. msgs' = msgs /\ drv' = drv /\ m_cmd_lock' = m_cmd_lock
  BY <1>3 DEF drvVars
<1>11. \A c \in Bufs : MsgCount(msgs', c) + EvWeight(ev', c) + Count(cb', c)
                     <= MsgCount(msgs, c) + EvWeight(ev, c) + Count(cb, c)
  BY <1>4, <1>6, <1>8, <1>9, <1>10
<1>12. CompType'
  BY <1>3, <1>5 DEF CompType, portVars, drvVars
<1>13. Commands(ev'.cmd) + m_cmd_lock' <= Commands(ev.cmd) + m_cmd_lock
  BY <1>4, <1>5, <1>10
<1>14. UNCHANGED <<codecVars, headVars, drv>> /\ msgs' \in Seq(Msg)
  BY <1>3, <1>5, <1>10
<1> QED BY <1>4, <1>7, <1>11, <1>12, <1>13, <1>14, QueueStep

(* A flush gives back what is queued, and may end the move to Idle.        *)
LEMMA FlushDoneStep ==
    ASSUME CodecInv, NEW p \in Ports, FlushDone(p), UNCHANGED codecVars
    PROVE  CodecInv'
<1>1. PICK e : e = Popped(FlushId(p))
  OBVIOUS
<1>2. QueueOf(FlushId(p)) = "cmd" /\ FlushId(p) # "COMMAND"
  BY DEF QueueOf, FlushId
<1>3. /\ e \in EvType /\ Commands(e.cmd) = Commands(ev.cmd)
      /\ \A b : EvWeight(e, b) = EvWeight(ev, b)
  <2>1. Takes(FlushId(p))
    BY DEF FlushDone
  <2>2. /\ e \in EvType /\ Commands(e.cmd) \in Nat
        /\ Commands(ev.cmd) = 0 + Commands(e.cmd)
        /\ \A b : EvWeight(e, b) = EvWeight(ev, b)
    BY <1>1, <1>2, <2>1, TakesCommandFacts
  <2> QED BY <2>2
<1>4. /\ CompType /\ msgs \in Seq(Msg) /\ cb \in Seq(Callback)
      /\ Commands(ev.cmd) \in Nat /\ m_cmd_lock \in Nat
  BY Typing
<1>5. UNCHANGED <<m_port_enabled, m_port_reconfig, headVars, m_cmd_lock,
                  toFlush, drvVars>>
  BY DEF FlushDone
<1>6. CASE ~m_port_flushing[p]
  <2>1. ev' = e /\ UNCHANGED <<m_port_flushing, m_flags, m_state, cb>>
    BY <1>1, <1>6 DEF FlushDone
  <2>2. CompType'
    BY <1>4, <1>5, <2>1 DEF CompType, drvVars
  <2>3. UNCHANGED <<codecVars, headVars, drv, msgs>> /\ cb' \in Seq(Callback)
    BY <1>4, <1>5, <2>1 DEF drvVars
  <2>4. Commands(ev'.cmd) + m_cmd_lock' <= Commands(ev.cmd) + m_cmd_lock
    BY <1>3, <1>4, <1>5, <2>1
  <2>5. \A b \in Bufs : EvWeight(ev', b) = EvWeight(ev, b)
                           /\ Count(cb', b) = Count(cb, b)
    BY <1>3, <2>1
  <2>6. ev' \in EvType
    BY <1>3, <2>1
  <2> QED BY <2>2, <2>3, <2>4, <2>5, <2>6, CommandStep
<1>7. CASE m_port_flushing[p]
  <2>1. PICK idle : idle = BecomesIdle(FlushOver(p))
    OBVIOUS
  <2>2. PICK told : told = (<<"FLUSH", p>> \in m_flags)
    OBVIOUS
  <2>3. PICK r : r = Returned(e[QueueOf(This(p))])
    OBVIOUS
  <2>4. PICK t : t = IF told THEN <<CmdComplete("Flush", p)>> ELSE <<>>
    OBVIOUS
  <2>5. PICK i : i = IF idle THEN <<CmdComplete("StateSet", "Idle")>> ELSE <<>>
    OBVIOUS
  <2>6. /\ m_port_flushing' = FlushOver(p)
        /\ ev' = Emptied(e, p)
        /\ cb' = cb \o r \o t \o i
        /\ m_flags' = (m_flags \ {<<"FLUSH", p>>})
                         \ (IF idle THEN {<<"IDLE", "all">>} ELSE {})
        /\ m_state' = IF idle THEN "Idle" ELSE m_state
    BY <1>1, <1>7, <2>1, <2>2, <2>3, <2>4, <2>5 DEF FlushDone
  <2>7. /\ ev' \in EvType /\ ev'.cmd = e.cmd
        /\ e[QueueOf(This(p))] \in Seq(BufEntry(p))
        /\ \A b : EvWeight(e, b) = EvWeight(ev', b)
                                      + Count(e[QueueOf(This(p))], b)
    BY <1>3, <2>6, EmptiedFacts
  <2>8. r \in Seq(Callback)
        /\ \A b : Count(r, b) = Count(e[QueueOf(This(p))], b)
    BY <2>3, <2>7, CbReturned
  <2>9. t \in Seq(Callback) /\ \A b \in Bufs : Count(t, b) = 0
    <3>1. "Flush" \in Names /\ p \in Args
      BY DEF Names, Args
    <3> QED BY <2>4, <3>1, CbMaybe
  <2>10. i \in Seq(Callback) /\ \A b \in Bufs : Count(i, b) = 0
    <3>1. "StateSet" \in Names /\ "Idle" \in Args
      BY DEF Names, Args, States
    <3> QED BY <2>5, <3>1, CbMaybe
  <2>11. cb' \in Seq(Callback)
         /\ \A b \in Bufs : Count(cb', b) = Count(cb, b) + Count(r, b)
    <3>1. PICK x \in Seq(Callback) :
             x = cb \o r /\ \A b : Count(x, b) = Count(cb, b) + Count(r, b)
      BY <1>4, <2>8, CbConcat
    <3>2. PICK y \in Seq(Callback) :
             y = x \o t /\ \A b : Count(y, b) = Count(x, b) + Count(t, b)
      BY <2>9, CbConcat
    <3>3. y \o i \in Seq(Callback)
          /\ \A b : Count(y \o i, b) = Count(y, b) + Count(i, b)
      BY <2>10, CbConcat
    <3>4. \A b : Count(cb, b) \in Nat /\ Count(r, b) \in Nat
      BY <1>4, <2>8, CountFacts
    <3> QED BY <2>6, <2>9, <2>10, <3>1, <3>2, <3>3, <3>4
  <2>12. CompType'
    <3>1. m_port_flushing' \in [Ports -> BOOLEAN]
      BY <1>4, <2>6 DEF CompType, FlushOver
    <3>2. m_state' \in States
      BY <1>4, <2>6 DEF CompType, States
    <3>3. m_flags' \subseteq m_flags
      BY <2>6
    <3> QED BY <1>4, <1>5, <3>1, <3>2, <3>3 DEF CompType, drvVars
  <2>13. \A b : /\ MsgCount(msgs, b) \in Nat /\ EvWeight(ev', b) \in Nat
                /\ Count(cb, b) \in Nat /\ Count(r, b) \in Nat
    BY <1>4, <2>7, <2>8, WeightFacts
  <2>14. msgs' = msgs /\ m_cmd_lock' = m_cmd_lock
         /\ UNCHANGED <<codecVars, headVars, drv>>
    BY <1>5 DEF drvVars
  <2>15. \A b \in Bufs : MsgCount(msgs', b) + EvWeight(ev', b) + Count(cb', b)
                     <= MsgCount(msgs, b) + EvWeight(ev, b) + Count(cb, b)
    BY <1>3, <2>7, <2>8, <2>11, <2>13, <2>14
  <2>16. Commands(ev'.cmd) + m_cmd_lock' <= Commands(ev.cmd) + m_cmd_lock
    BY <1>3, <1>4, <2>7, <2>14
  <2>17. msgs' \in Seq(Msg)
    BY <1>4, <2>14
  <2> QED BY <2>7, <2>11, <2>12, <2>14, <2>15, <2>16, <2>17, QueueStep
<1> QED BY <1>6, <1>7

LEMMA StartDoneStep ==
    ASSUME CodecInv, StartDone, UNCHANGED codecVars
    PROVE  CodecInv'
<1>1. QueueOf("START_DONE") = "cmd" /\ Takes("START_DONE")
  BY DEF QueueOf, StartDone
<1>2. /\ ev' \in EvType /\ Commands(ev'.cmd) = Commands(ev.cmd)
      /\ \A b : EvWeight(ev', b) = EvWeight(ev, b)
  <2>1. PICK e : e = Popped("START_DONE")
    OBVIOUS
  <2>2. /\ e \in EvType /\ Commands(e.cmd) \in Nat
        /\ Commands(ev.cmd) = 0 + Commands(e.cmd)
        /\ \A b : EvWeight(e, b) = EvWeight(ev, b)
    BY <1>1, <2>1, TakesCommandFacts
  <2>3. ev' = e
    BY <2>1 DEF StartDone
  <2> QED BY <2>2, <2>3
<1>3. /\ CompType /\ cb \in Seq(Callback)
      /\ Commands(ev.cmd) \in Nat /\ m_cmd_lock \in Nat
  BY Typing
<1>4. UNCHANGED <<portVars, headVars, m_cmd_lock, toFlush, drvVars>>
  BY DEF StartDone
<1>5. cb' \in Seq(Callback) /\ \A b \in Bufs : Count(cb', b) = Count(cb, b)
  <2>1. PICK x \in Callback : /\ x = CmdComplete("StateSet", "Executing")
                              /\ \A b \in Bufs : x.p1 # b
    BY CbCommand DEF Names, Args, States
  <2>2. cb' = Append(cb, x) \/ cb' = cb
    BY <2>1 DEF StartDone
  <2>3. /\ Append(cb, x) \in Seq(Callback)
        /\ \A b \in Bufs : Count(Append(cb, x), b) = Count(cb, b)
    BY <1>3, <2>1, CbAppend
  <2> QED BY <1>3, <2>2, <2>3
<1>6. CompType'
  <2>1. m_flags' \subseteq m_flags /\ m_state' \in States
    BY <1>3 DEF StartDone, States, CompType
  <2> QED BY <1>3, <1>4, <2>1 DEF CompType, portVars, drvVars
<1>7. Commands(ev'.cmd) + m_cmd_lock' <= Commands(ev.cmd) + m_cmd_lock
  BY <1>2, <1>3, <1>4
<1>8. UNCHANGED <<codecVars, headVars, drv, msgs>>
  BY <1>4 DEF drvVars
<1> QED BY <1>2, <1>5, <1>6, <1>7, <1>8, CommandStep

LEMMA StopDoneStep ==
    ASSUME CodecInv, StopDone, UNCHANGED codecVars
    PROVE  CodecInv'
<1>1. QueueOf("STOP_DONE") = "cmd" /\ Takes("STOP_DONE")
  BY DEF QueueOf, StopDone
<1>2. PICK e : e = Popped("STOP_DONE")
  OBVIOUS
<1>3. /\ e \in EvType /\ Commands(e.cmd) = Commands(ev.cmd)
      /\ \A b : EvWeight(e, b) = EvWeight(ev, b)
  <2>1. /\ e \in EvType /\ Commands(e.cmd) \in Nat
        /\ Commands(ev.cmd) = 0 + Commands(e.cmd)
        /\ \A b : EvWeight(e, b) = EvWeight(ev, b)
    BY <1>1, <1>2, TakesCommandFacts
  <2> QED BY <2>1
<1>4. /\ CompType /\ msgs \in Seq(Msg) /\ cb \in Seq(Callback)
      /\ Commands(ev.cmd) \in Nat /\ m_cmd_lock \in Nat
  BY Typing
<1>5. PICK idle : idle = BecomesIdle(m_port_flushing)
  OBVIOUS
<1>6. PICK i : i = IF idle THEN <<CmdComplete("StateSet", "Idle")>> ELSE <<>>
  OBVIOUS
<1>7. PICK f : f = Emptied(e, "out")
  OBVIOUS
<1>8. /\ ev' = Emptied(f, "in")
      /\ cb' = cb \o Returned(e.ftb) \o Returned(e.etb) \o i
      /\ m_flags' = IF idle THEN m_flags \ {<<"IDLE", "all">>} ELSE m_flags
      /\ m_state' = IF idle THEN "Idle" ELSE m_state
      /\ UNCHANGED <<portVars, headVars, m_cmd_lock, toFlush, drvVars>>
  BY <1>2, <1>5, <1>6, <1>7 DEF StopDone
<1>9. QueueOf(This("out")) = "ftb" /\ QueueOf(This("in")) = "etb"
      /\ "in" \in Ports /\ "out" \in Ports
  BY DEF QueueOf, This, Ports
<1>10. /\ f \in EvType /\ f.cmd = e.cmd /\ f.etb = e.etb
       /\ \A b : EvWeight(e, b) = EvWeight(f, b) + Count(e.ftb, b)
  BY <1>3, <1>7, <1>9, EmptiedFacts
<1>11. /\ ev' \in EvType /\ ev'.cmd = f.cmd
       /\ \A b : EvWeight(f, b) = EvWeight(ev', b) + Count(f.etb, b)
  BY <1>8, <1>9, <1>10, EmptiedFacts
<1>12. PICK r : r = Returned(e.ftb)
  OBVIOUS
<1>13. PICK s : s = Returned(e.etb)
  OBVIOUS
<1>14. r \in Seq(Callback) /\ \A b : Count(r, b) = Count(e.ftb, b)
  BY <1>3, <1>9, <1>12, EvFacts, CbReturned
<1>15. s \in Seq(Callback) /\ \A b : Count(s, b) = Count(e.etb, b)
  BY <1>3, <1>9, <1>13, EvFacts, CbReturned
<1>16. i \in Seq(Callback) /\ \A b \in Bufs : Count(i, b) = 0
  <2>1. "StateSet" \in Names /\ "Idle" \in Args
    BY DEF Names, Args, States
  <2> QED BY <1>6, <2>1, CbMaybe
<1>17. \A b : /\ MsgCount(msgs, b) \in Nat /\ EvWeight(ev', b) \in Nat
              /\ Count(cb, b) \in Nat /\ Count(r, b) \in Nat
              /\ Count(s, b) \in Nat
  BY <1>4, <1>11, <1>14, <1>15, WeightFacts
<1>18. cb' \in Seq(Callback)
       /\ \A b \in Bufs : Count(cb', b) = Count(cb, b) + Count(r, b) + Count(s, b)
  <2>1. PICK x \in Seq(Callback) :
           x = cb \o r /\ \A b : Count(x, b) = Count(cb, b) + Count(r, b)
    BY <1>4, <1>14, CbConcat
  <2>2. PICK y \in Seq(Callback) :
           y = x \o s /\ \A b : Count(y, b) = Count(x, b) + Count(s, b)
    BY <1>15, CbConcat
  <2>3. y \o i \in Seq(Callback)
        /\ \A b : Count(y \o i, b) = Count(y, b) + Count(i, b)
    BY <1>16, CbConcat
  <2> QED BY <1>8, <1>12, <1>13, <1>16, <1>17, <2>1, <2>2, <2>3
<1>19. CompType'
  <2>1. m_flags' \subseteq m_flags /\ m_state' \in States
    BY <1>4, <1>8 DEF States, CompType
  <2> QED BY <1>4, <1>8, <2>1 DEF CompType, portVars, drvVars
<1>20. msgs' = msgs /\ m_cmd_lock' = m_cmd_lock
       /\ UNCHANGED <<codecVars, headVars, drv>>
  BY <1>8 DEF drvVars
<1>21. \A b \in Bufs : MsgCount(msgs', b) + EvWeight(ev', b) + Count(cb', b)
                     <= MsgCount(msgs, b) + EvWeight(ev, b) + Count(cb, b)
  BY <1>3, <1>10, <1>11, <1>14, <1>15, <1>17, <1>18, <1>20
<1>22. Commands(ev'.cmd) + m_cmd_lock' <= Commands(ev.cmd) + m_cmd_lock
  BY <1>3, <1>4, <1>10, <1>11, <1>20
<1>23. msgs' \in Seq(Msg)
  BY <1>4, <1>20
<1> QED BY <1>11, <1>18, <1>19, <1>20, <1>21, <1>22, <1>23, QueueStep

LEMMA CommandDoneStep ==
    ASSUME CodecInv, CommandDone, UNCHANGED codecVars
    PROVE  CodecInv'
<1>1. QueueOf("COMMAND_DONE") = "cmd" /\ Takes("COMMAND_DONE")
  BY DEF QueueOf, CommandDone
<1>2. PICK e : e = First("COMMAND_DONE")
  OBVIOUS
<1>3. PICK x : x = CmdComplete(e.p1, e.p2)
  OBVIOUS
<1>4. /\ cb' = Append(cb, x) /\ ev' = Popped("COMMAND_DONE")
      /\ m_state' = IF e.p1 = "StateSet" THEN e.p2 ELSE m_state
      /\ m_port_reconfig' = (m_port_reconfig /\ e.p1 # "PortEnable")
      /\ UNCHANGED <<m_flags, m_port_enabled, m_port_flushing, headVars,
                     m_cmd_lock, toFlush, drvVars>>
  BY <1>2, <1>3 DEF CommandDone
<1>5. /\ ev' \in EvType /\ e \in CmdEntry /\ e.id = "COMMAND_DONE"
      /\ Commands(ev'.cmd) \in Nat /\ Commands(ev.cmd) = 0 + Commands(ev'.cmd)
      /\ \A b : EvWeight(ev', b) = EvWeight(ev, b)
  BY <1>1, <1>2, <1>4, TakesCommandFacts
<1>6. e.p1 \in Names /\ e.p2 \in Args /\ (e.p1 = "StateSet" => e.p2 \in States)
  BY <1>5 DEF CmdEntry
<1>7. x \in Callback /\ \A b \in Bufs : x.p1 # b
  BY <1>3, <1>6, CbCommand
<1>8. CompType /\ cb \in Seq(Callback) /\ m_cmd_lock \in Nat
  BY Typing
<1>9. cb' \in Seq(Callback) /\ \A b \in Bufs : Count(cb', b) = Count(cb, b)
  BY <1>4, <1>7, <1>8, CbAppend
<1>10. CompType'
  <2>1. m_state' \in States
    BY <1>4, <1>6, <1>8 DEF CompType
  <2>2. m_port_reconfig' \in BOOLEAN
    BY <1>4
  <2> QED BY <1>4, <1>8, <2>1, <2>2 DEF CompType, drvVars
<1>11. Commands(ev'.cmd) + m_cmd_lock' <= Commands(ev.cmd) + m_cmd_lock
  BY <1>4, <1>5, <1>8
<1>12. UNCHANGED <<codecVars, headVars, drv, msgs>>
  BY <1>4 DEF drvVars
<1> QED BY <1>5, <1>9, <1>10, <1>11, <1>12, CommandStep

LEMMA ImageSizeChangeStep ==
    ASSUME CodecInv, ImageSizeChange, UNCHANGED codecVars
    PROVE  CodecInv'
<1>1. QueueOf("IMAGE_SIZE_CHANGE") = "cmd" /\ Takes("IMAGE_SIZE_CHANGE")
  BY DEF QueueOf, ImageSizeChange
<1>2. /\ cb' = Append(cb, SettingsChanged)
      /\ ev' = Popped("IMAGE_SIZE_CHANGE") /\ m_port_reconfig' = TRUE
      /\ UNCHANGED <<m_state, m_flags, m_port_enabled, m_port_flushing, headVars,
                     m_cmd_lock, toFlush, drvVars>>
  BY DEF ImageSizeChange
<1>3. /\ ev' \in EvType
      /\ Commands(ev'.cmd) \in Nat /\ Commands(ev.cmd) = 0 + Commands(ev'.cmd)
      /\ \A b : EvWeight(ev', b) = EvWeight(ev, b)
  BY <1>1, <1>2, TakesCommandFacts
<1>4. SettingsChanged \in Callback /\ \A b \in Bufs : SettingsChanged.p1 # b
  BY BufsFacts DEF SettingsChanged, Callback, Names, Args
<1>5. CompType /\ cb \in Seq(Callback) /\ m_cmd_lock \in Nat
  BY Typing
<1>6. cb' \in Seq(Callback) /\ \A b \in Bufs : Count(cb', b) = Count(cb, b)
  BY <1>2, <1>4, <1>5, CbAppend
<1>7. CompType'
  BY <1>2, <1>5 DEF CompType, drvVars
<1>8. Commands(ev'.cmd) + m_cmd_lock' <= Commands(ev.cmd) + m_cmd_lock
  BY <1>2, <1>3, <1>5
<1>9. UNCHANGED <<codecVars, headVars, drv, msgs>>
  BY <1>2 DEF drvVars
<1> QED BY <1>3, <1>6, <1>7, <1>8, <1>9, CommandStep

-------------------------------------------------------------------------------
(* The commands.                                                           *)
LEMMA PostDone ==
    ASSUME NEW e \in EvType, NEW c \in Names, NEW a \in Args,
           c = "StateSet" => a \in States
    PROVE  /\ post_event(e, "COMMAND_DONE", c, a) \in EvType
           /\ Commands(post_event(e, "COMMAND_DONE", c, a).cmd) = Commands(e.cmd)
           /\ \A b : EvWeight(post_event(e, "COMMAND_DONE", c, a), b)
                       = EvWeight(e, b)
<1>1. PICK id \in Ids : id = "COMMAND_DONE"
  BY DEF Ids
<1>2. QueueOf(id) = "cmd" /\ Entry(id, c, a) \in CmdEntry
  BY <1>1 DEF QueueOf, Entry, CmdEntry
<1>3. /\ post_event(e, id, c, a) \in EvType
      /\ Commands(post_event(e, id, c, a).cmd)
           = Commands(e.cmd) + (IF id = "COMMAND" THEN 1 ELSE 0)
      /\ \A b : EvWeight(post_event(e, id, c, a), b) = EvWeight(e, b)
  BY <1>2, PostCommand
<1>4. Commands(e.cmd) \in Nat
  BY EvFacts
<1>5. Commands(post_event(e, id, c, a).cmd) = Commands(e.cmd)
  <2>1. Commands(post_event(e, id, c, a).cmd) = Commands(e.cmd) + 0
    BY <1>1, <1>3
  <2> QED BY <1>4, <2>1
<1> QED BY <1>1, <1>3, <1>5

LEMMA TakesTheCommand ==
    ASSUME CodecInv, NEW c, NEW a, TakesCommand(c, a)
    PROVE  /\ Popped("COMMAND") \in EvType
           /\ Commands(Popped("COMMAND").cmd) \in Nat
           /\ Commands(ev.cmd) = 1 + Commands(Popped("COMMAND").cmd)
           /\ m_cmd_lock' = m_cmd_lock + 1
           /\ \A b : EvWeight(Popped("COMMAND"), b) = EvWeight(ev, b)
<1>1. QueueOf("COMMAND") = "cmd" /\ Takes("COMMAND")
      /\ m_cmd_lock' = m_cmd_lock + 1
  BY DEF QueueOf, TakesCommand
<1> QED BY <1>1, TakesCommandFacts

(* A command that only posts its completion, or sets a flag for later.     *)
LEMMA CommandTakenStep ==
    ASSUME CodecInv, NEW c, NEW a, TakesCommand(c, a), UNCHANGED codecVars,
           NEW d \in Names, NEW x \in Args, d = "StateSet" => x \in States,
           \/ ev' = Popped("COMMAND")
           \/ ev' = post_event(Popped("COMMAND"), "COMMAND_DONE", d, x),
           CompType', UNCHANGED <<headVars, drv, cb, msgs>>
    PROVE  CodecInv'
<1>1. PICK e : e = Popped("COMMAND")
  OBVIOUS
<1>2. /\ e \in EvType /\ Commands(e.cmd) \in Nat
      /\ Commands(ev.cmd) = 1 + Commands(e.cmd)
      /\ m_cmd_lock' = m_cmd_lock + 1
      /\ \A b : EvWeight(e, b) = EvWeight(ev, b)
  BY <1>1, TakesTheCommand
<1>3. m_cmd_lock \in Nat /\ cb \in Seq(Callback)
  BY Typing
<1>4. /\ ev' \in EvType /\ Commands(ev'.cmd) = Commands(e.cmd)
      /\ \A b : EvWeight(ev', b) = EvWeight(e, b)
  <2>1. CASE ev' = e
    BY <1>2, <2>1
  <2>2. CASE ev' = post_event(e, "COMMAND_DONE", d, x)
    BY <1>2, <2>2, PostDone
  <2> QED BY <1>1, <2>1, <2>2
<1>5. Commands(ev'.cmd) + m_cmd_lock' <= Commands(ev.cmd) + m_cmd_lock
  BY <1>2, <1>3, <1>4
<1>6. cb' \in Seq(Callback) /\ \A b \in Bufs : EvWeight(ev', b) = EvWeight(ev, b)
                                    /\ Count(cb', b) = Count(cb, b)
  BY <1>2, <1>3, <1>4
<1> QED BY <1>4, <1>5, <1>6, CommandStep

LEMMA StateSetMemoryStep ==
    ASSUME CodecInv, NEW from, NEW to \in States, NEW ready,
           NEW flag \in {"IDLE", "LOADING"},
           StateSetMemory(from, to, ready, flag), UNCHANGED codecVars
    PROVE  CodecInv'
<1>1. /\ TakesCommand("StateSet", to)
      /\ \/ ev' = Popped("COMMAND")
         \/ ev' = post_event(Popped("COMMAND"), "COMMAND_DONE", "StateSet", to)
      /\ m_flags' = m_flags \/ m_flags' = m_flags \cup {<<flag, "all">>}
      /\ UNCHANGED <<m_state, portVars, headVars, toFlush, drvVars, cb>>
  BY DEF StateSetMemory
<1>2. CompType /\ m_cmd_lock \in Nat
  BY Typing
<1>3. m_cmd_lock' = m_cmd_lock + 1
  BY <1>1 DEF TakesCommand
<1>4. CompType'
  BY <1>1, <1>2, <1>3 DEF CompType, portVars, drvVars
<1>5. "StateSet" \in Names /\ to \in Args
  BY DEF Names, Args
<1>6. UNCHANGED <<headVars, drv, cb, msgs>>
  BY <1>1 DEF drvVars
<1> QED BY <1>1, <1>4, <1>5, <1>6, CommandTakenStep

LEMMA PortCommandStep ==
    ASSUME CodecInv, UNCHANGED codecVars,
           \/ handle_command_port_disable("out")
           \/ handle_command_port_enable("out")
    PROVE  CodecInv'
<1>1. CompType /\ m_cmd_lock \in Nat
  BY Typing
<1>2. "out" \in Args /\ "out" \in Ports
      /\ "PortDisable" \in Names /\ "PortEnable" \in Names
  BY DEF Names, Args, Ports
<1>3. CASE handle_command_port_disable("out")
  <2>1. /\ TakesCommand("PortDisable", "out")
        /\ m_port_enabled' = [m_port_enabled EXCEPT !["out"] = FALSE]
        /\ \/ ev' = Popped("COMMAND")
           \/ ev' = post_event(Popped("COMMAND"), "COMMAND_DONE",
                               "PortDisable", "out")
        /\ m_flags' = m_flags \/ m_flags' = m_flags \cup {<<"DISABLE", "out">>}
        /\ toFlush' = toFlush \/ toFlush' = {"out"} \/ toFlush' = {}
        /\ UNCHANGED <<m_state, m_port_flushing, m_port_reconfig, headVars,
                       drvVars, cb>>
    BY <1>3 DEF handle_command_port_disable, DisableFlags
  <2>2. m_cmd_lock' = m_cmd_lock + 1
    BY <2>1 DEF TakesCommand
  <2>3. m_port_enabled' \in [Ports -> BOOLEAN]
    BY <1>1, <2>1 DEF CompType
  <2>4. toFlush' \subseteq Ports
    BY <1>1, <1>2, <2>1 DEF CompType
  <2>5. CompType'
    BY <1>1, <1>2, <2>1, <2>2, <2>3, <2>4 DEF CompType, drvVars
  <2>6. UNCHANGED <<headVars, drv, cb, msgs>>
    BY <2>1 DEF drvVars
  <2> QED BY <1>2, <2>1, <2>5, <2>6, CommandTakenStep
<1>4. CASE handle_command_port_enable("out")
  <2>1. /\ TakesCommand("PortEnable", "out")
        /\ m_port_enabled' = [m_port_enabled EXCEPT !["out"] = TRUE]
        /\ \/ ev' = Popped("COMMAND")
           \/ ev' = post_event(Popped("COMMAND"), "COMMAND_DONE",
                               "PortEnable", "out")
        /\ m_flags' = m_flags \/ m_flags' = m_flags \cup {<<"ENABLE", "out">>}
        /\ UNCHANGED <<m_state, m_port_flushing, m_port_reconfig, headVars,
                       toFlush, drvVars, cb>>
    BY <1>4 DEF handle_command_port_enable
  <2>2. m_cmd_lock' = m_cmd_lock + 1
    BY <2>1 DEF TakesCommand
  <2>3. m_port_enabled' \in [Ports -> BOOLEAN]
    BY <1>1, <2>1 DEF CompType
  <2>4. CompType'
    BY <1>1, <1>2, <2>1, <2>2, <2>3 DEF CompType, drvVars
  <2>5. UNCHANGED <<headVars, drv, cb, msgs>>
    BY <2>1 DEF drvVars
  <2> QED BY <1>2, <2>1, <2>4, <2>5, CommandTakenStep
<1> QED BY <1>3, <1>4

LEMMA FlushCommandStep ==
    ASSUME CodecInv, handle_command_flush, UNCHANGED codecVars
    PROVE  CodecInv'
<1>1. CompType /\ m_cmd_lock \in Nat
  BY Typing
<1>2. /\ TakesCommand("Flush", "all") /\ ev' = Popped("COMMAND")
      /\ m_flags' = m_flags \cup {<<"FLUSH", p>> : p \in Ports}
      /\ m_port_flushing' = Both(TRUE) /\ flushReq' = Ports
      /\ UNCHANGED <<m_state, m_port_enabled, m_port_reconfig, headVars, toFlush,
                     drv, msgs, resizes, cb>>
  BY DEF handle_command_flush
<1>3. m_cmd_lock' = m_cmd_lock + 1
  BY <1>2 DEF TakesCommand
<1>4. m_port_flushing' \in [Ports -> BOOLEAN]
  BY <1>2 DEF Both
<1>5. CompType'
  <2>1. m_flags' \subseteq ({"IDLE", "LOADING", "EXECUTE"} \X {"all"})
                    \cup ({"FLUSH", "ENABLE", "DISABLE"} \X Ports)
    BY <1>1, <1>2 DEF CompType
  <2>2. /\ m_state \in States /\ m_port_enabled \in [Ports -> BOOLEAN]
        /\ m_port_reconfig \in BOOLEAN /\ toFlush \subseteq Ports
        /\ drv \in [Ports -> SUBSET Bufs]
    BY <1>1 DEF CompType
  <2>3. /\ m_cmd_lock' \in Nat /\ flushReq' \subseteq Ports
    BY <1>1, <1>2, <1>3
  <2>4. /\ m_state' \in States /\ m_port_enabled' \in [Ports -> BOOLEAN]
        /\ m_port_reconfig' \in BOOLEAN /\ toFlush' \subseteq Ports
        /\ drv' \in [Ports -> SUBSET Bufs]
    BY <1>2, <2>2
  <2> QED BY <1>4, <2>1, <2>3, <2>4 DEF CompType
<1>6. "Flush" \in Names /\ "all" \in Args
  BY DEF Names, Args
<1> QED BY <1>2, <1>5, <1>6, CommandTakenStep

(* A command that makes the driver answer with a message.                  *)
LEMMA StateSetMessageStep ==
    ASSUME CodecInv, UNCHANGED codecVars, StateSetExecuting \/ StateSetIdle
    PROVE  CodecInv'
<1>1. PICK code \in {"START_DONE", "STOP_DONE"} :
        /\ \E a : TakesCommand("StateSet", a)
        /\ ev' = Popped("COMMAND")
        /\ msgs' = Append(msgs, [code |-> code, buf |-> NULL, len |-> "empty"])
        /\ \/ m_flags' = m_flags \cup {<<"EXECUTE", "all">>}
           \/ m_flags' = m_flags \cup {<<"IDLE", "all">>}
        /\ toFlush' = toFlush \/ toFlush' = Ports
        /\ UNCHANGED <<m_state, portVars, headVars, drv, flushReq, resizes, cb>>
  <2>1. CASE StateSetExecuting
    BY <2>1 DEF StateSetExecuting
  <2>2. CASE StateSetIdle
    BY <2>2 DEF StateSetIdle
  <2> QED BY <2>1, <2>2
<1>2. CompType /\ msgs \in Seq(Msg) /\ cb \in Seq(Callback) /\ m_cmd_lock \in Nat
  BY Typing
<1>3. /\ ev' \in EvType /\ Commands(ev'.cmd) \in Nat
      /\ Commands(ev.cmd) = 1 + Commands(ev'.cmd)
      /\ m_cmd_lock' = m_cmd_lock + 1
      /\ \A b : EvWeight(ev', b) = EvWeight(ev, b)
  BY <1>1, TakesTheCommand
<1>4. PICK m : m = [code |-> code, buf |-> NULL, len |-> "empty"]
  OBVIOUS
<1>5. m \in Msg /\ m.buf = NULL
  BY <1>4 DEF Msg, DriverIds
<1>6. msgs' \in Seq(Msg)
  BY <1>1, <1>2, <1>4, <1>5
<1>7. \A b \in Bufs : MsgCount(msgs', b) = MsgCount(msgs, b)
  <2>1. \A b : /\ MsgCount(msgs, b) \in Nat
               /\ MsgCount(msgs', b)
                    = MsgCount(msgs, b) + (IF m.buf = b THEN 1 ELSE 0)
    BY <1>1, <1>2, <1>4, <1>5, MsgFacts
  <2> QED BY <1>5, <2>1, BufsFacts
<1>8. CompType'
  BY <1>1, <1>2, <1>3 DEF CompType, portVars
<1>9. Commands(ev'.cmd) + m_cmd_lock' <= Commands(ev.cmd) + m_cmd_lock
  BY <1>2, <1>3
<1>10. \A b \in Bufs : MsgCount(msgs', b) + EvWeight(ev', b) + Count(cb', b)
                     <= MsgCount(msgs, b) + EvWeight(ev, b) + Count(cb, b)
  <2>1. \A b : /\ MsgCount(msgs, b) \in Nat /\ EvWeight(ev', b) \in Nat
               /\ Count(cb, b) \in Nat
    BY <1>2, <1>3, WeightFacts
  <2> QED BY <1>1, <1>3, <1>7, <2>1
<1>11. cb' \in Seq(Callback) /\ UNCHANGED <<codecVars, headVars, drv>>
  BY <1>1, <1>2
<1> QED BY <1>3, <1>6, <1>8, <1>9, <1>10, <1>11, QueueStep

LEMMA FlushPortStep ==
    ASSUME CodecInv, omx_flush_port, UNCHANGED codecVars
    PROVE  CodecInv'
<1>1. /\ CompType /\ ev \in EvType /\ cb \in Seq(Callback)
      /\ Commands(ev.cmd) \in Nat /\ m_cmd_lock \in Nat
  BY Typing
<1>2. /\ m_port_flushing' = [p \in Ports |-> m_port_flushing[p] \/ p \in toFlush]
      /\ flushReq' = flushReq \cup toFlush /\ toFlush' = {}
      /\ UNCHANGED <<m_state, m_flags, m_port_enabled, m_port_reconfig, headVars,
                     ev, m_cmd_lock, drv, msgs, resizes, cb>>
  BY DEF omx_flush_port
<1>3. m_port_flushing' \in [Ports -> BOOLEAN]
  BY <1>2
<1>4. CompType'
  BY <1>1, <1>2, <1>3 DEF CompType
<1>5. Commands(ev'.cmd) + m_cmd_lock' <= Commands(ev.cmd) + m_cmd_lock
  BY <1>1, <1>2
<1> QED BY <1>1, <1>2, <1>4, <1>5, CommandStep

-------------------------------------------------------------------------------
(* The message thread and the driver.                                      *)
LEMMA MessageStep ==
    ASSUME CodecInv, message_process, UNCHANGED codecVars
    PROVE  CodecInv'
<1>1. /\ CompType /\ ev \in EvType /\ msgs \in Seq(Msg) /\ cb \in Seq(Callback)
      /\ Commands(ev.cmd) \in Nat /\ m_cmd_lock \in Nat /\ msgs # <<>>
  BY Typing DEF message_process
<1>2. PICK m : m = Head(msgs)
  OBVIOUS
<1>3. m \in Msg /\ Tail(msgs) \in Seq(Msg)
  BY <1>1, <1>2, HeadTailProperties
<1>4. /\ ev' = IF m.code \in {"EBD", "FBD"}
               THEN IF Registered(m.buf)
                    THEN post_event(ev, m.code, m.buf,
                                    DoneLength(PortOf(m.buf), m.len))
                    ELSE ev
               ELSE post_event(ev, m.code, NULL, "empty")
      /\ msgs' = Tail(msgs)
      /\ UNCHANGED <<m_state, m_flags, portVars, headVars, m_cmd_lock, toFlush,
                     drv, flushReq, resizes, cb>>
  BY <1>2 DEF message_process
<1>5. \A b : MsgCount(msgs, b)
               = (IF m.buf = b THEN 1 ELSE 0) + MsgCount(msgs', b)
  BY <1>1, <1>2, <1>4, MsgFacts
<1>6. /\ ev' \in EvType /\ Commands(ev'.cmd) = Commands(ev.cmd)
      /\ \A b \in Bufs : EvWeight(ev', b)
                            <= EvWeight(ev, b) + (IF m.buf = b THEN 1 ELSE 0)
  <2>0. \A b : EvWeight(ev, b) \in Nat
    BY <1>1, WeightFacts
  <2>1. CASE m.code \in {"EBD", "FBD"} /\ Registered(m.buf)
    <3>1. PICK p \in Ports : m.code = Done(p) /\ m.buf \in BufsOf(p)
      BY <1>3, <2>1 DEF Msg, Ports, Done, BufsOf
    <3>2. PICK b : b = m.buf
      OBVIOUS
    <3>3. PICK l \in {"empty", "data"} : l = DoneLength(PortOf(m.buf), m.len)
      BY <1>3 DEF DoneLength, Msg
    <3>4. ev' = post_event(ev, Done(p), b, l)
      BY <1>4, <2>1, <3>1, <3>2, <3>3
    <3>5. /\ post_event(ev, Done(p), b, l) \in EvType
          /\ post_event(ev, Done(p), b, l).cmd = ev.cmd
          /\ \A c : EvWeight(post_event(ev, Done(p), b, l), c)
               = EvWeight(ev, c) + (IF b = c THEN 1 ELSE 0)
      BY <1>1, <3>1, <3>2, PostBuffer
    <3> QED BY <2>0, <3>2, <3>4, <3>5
  <2>2. CASE m.code \in {"EBD", "FBD"} /\ ~Registered(m.buf)
    BY <1>1, <1>4, <2>0, <2>2
  <2>3. CASE m.code \notin {"EBD", "FBD"}
    <3>1. m.code \in DriverIds
      BY <1>3 DEF Msg
    <3>2. /\ QueueOf(m.code) = "cmd" /\ m.code \in Ids /\ m.code # "COMMAND"
          /\ m.code # "COMMAND_DONE"
      BY <2>3, <3>1 DEF QueueOf, DriverIds, Ids
    <3>3. Entry(m.code, NULL, "empty") \in CmdEntry
      BY <3>2 DEF Entry, CmdEntry, Args
    <3>4. PICK c \in Ids : c = m.code
      BY <3>2
    <3>5. /\ post_event(ev, c, NULL, "empty") \in EvType
          /\ Commands(post_event(ev, c, NULL, "empty").cmd)
               = Commands(ev.cmd) + (IF c = "COMMAND" THEN 1 ELSE 0)
          /\ \A b : EvWeight(post_event(ev, c, NULL, "empty"), b)
                      = EvWeight(ev, b)
      BY <1>1, <3>2, <3>3, <3>4, PostCommand
    <3>6. Commands(post_event(ev, c, NULL, "empty").cmd) = Commands(ev.cmd)
      <4>1. Commands(post_event(ev, c, NULL, "empty").cmd) = Commands(ev.cmd) + 0
        BY <3>2, <3>4, <3>5
      <4> QED BY <1>1, <4>1
    <3>7. ev' = post_event(ev, c, NULL, "empty")
      BY <1>4, <2>3, <3>4
    <3> QED BY <2>0, <3>5, <3>6, <3>7
  <2> QED BY <2>1, <2>2, <2>3
<1>7. \A b \in Bufs : MsgCount(msgs', b) + EvWeight(ev', b) + Count(cb', b)
                     <= MsgCount(msgs, b) + EvWeight(ev, b) + Count(cb, b)
  <2>1. \A b : /\ MsgCount(msgs', b) \in Nat /\ EvWeight(ev', b) \in Nat
               /\ EvWeight(ev, b) \in Nat /\ Count(cb, b) \in Nat
    BY <1>1, <1>3, <1>4, <1>6, WeightFacts
  <2> QED BY <1>4, <1>5, <1>6, <2>1
<1>8. CompType'
  BY <1>1, <1>4 DEF CompType, portVars
<1>9. Commands(ev'.cmd) + m_cmd_lock' <= Commands(ev.cmd) + m_cmd_lock
  BY <1>1, <1>4, <1>6
<1>10. /\ msgs' \in Seq(Msg) /\ cb' \in Seq(Callback)
       /\ UNCHANGED <<codecVars, headVars, drv>>
  BY <1>1, <1>3, <1>4
<1> QED BY <1>6, <1>7, <1>8, <1>9, <1>10, QueueStep

(* The driver sends a message that carries no buffer.                      *)
LEMMA DriverMessageStep ==
    ASSUME CodecInv, UNCHANGED codecVars,
           DriverResizes \/ \E p \in Ports : DriverFlushed(p)
    PROVE  CodecInv'
<1>1. PICK code \in DriverIds \ {"EBD", "FBD"} :
        /\ msgs' = Append(msgs, [code |-> code, buf |-> NULL, len |-> "empty"])
        /\ flushReq' \subseteq flushReq
        /\ UNCHANGED <<m_state, m_flags, portVars, headVars, ev, m_cmd_lock,
                       toFlush, drv, cb>>
  <2>1. CASE DriverResizes
    BY <2>1 DEF DriverResizes, DriverIds
  <2>2. ASSUME NEW p \in Ports, DriverFlushed(p)
        PROVE  /\ FlushId(p) \in DriverIds \ {"EBD", "FBD"}
               /\ msgs' = Append(msgs, [code |-> FlushId(p), buf |-> NULL,
                                        len |-> "empty"])
               /\ flushReq' \subseteq flushReq
               /\ UNCHANGED <<m_state, m_flags, portVars, headVars, ev,
                              m_cmd_lock, toFlush, drv, cb>>
    BY <2>2 DEF DriverFlushed, DriverIds, FlushId
  <2> QED BY <2>1, <2>2
<1>2. /\ CompType /\ ev \in EvType /\ msgs \in Seq(Msg) /\ cb \in Seq(Callback)
      /\ Commands(ev.cmd) \in Nat /\ m_cmd_lock \in Nat
  BY Typing
<1>3. PICK m : m = [code |-> code, buf |-> NULL, len |-> "empty"]
  OBVIOUS
<1>4. m \in Msg /\ m.buf = NULL
  BY <1>3 DEF Msg
<1>5. msgs' \in Seq(Msg)
  BY <1>1, <1>2, <1>3, <1>4
<1>6. \A b \in Bufs : MsgCount(msgs', b) = MsgCount(msgs, b)
  <2>1. \A b : /\ MsgCount(msgs, b) \in Nat
               /\ MsgCount(msgs', b)
                    = MsgCount(msgs, b) + (IF m.buf = b THEN 1 ELSE 0)
    BY <1>1, <1>2, <1>3, <1>4, MsgFacts
  <2> QED BY <1>4, <2>1, BufsFacts
<1>7. CompType'
  BY <1>1, <1>2 DEF CompType, portVars
<1>8. Commands(ev'.cmd) + m_cmd_lock' <= Commands(ev.cmd) + m_cmd_lock
  BY <1>1, <1>2
<1>9. \A b \in Bufs : MsgCount(msgs', b) + EvWeight(ev', b) + Count(cb', b)
                    <= MsgCount(msgs, b) + EvWeight(ev, b) + Count(cb, b)
  <2>1. \A b : /\ MsgCount(msgs, b) \in Nat /\ EvWeight(ev, b) \in Nat
               /\ Count(cb, b) \in Nat
    BY <1>2, WeightFacts
  <2> QED BY <1>1, <1>6, <2>1
<1>10. /\ ev' \in EvType /\ cb' \in Seq(Callback)
       /\ UNCHANGED <<codecVars, headVars, drv>>
  BY <1>1, <1>2
<1> QED BY <1>5, <1>7, <1>8, <1>9, <1>10, QueueStep

LEMMA DriverReturnsStep ==
    ASSUME CodecInv, NEW p \in Ports, DriverReturns(p), UNCHANGED codecVars
    PROVE  CodecInv'
<1>1. PICK b \in drv[p], len \in {"empty", "data"} :
        /\ drv' = [drv EXCEPT ![p] = @ \ {b}]
        /\ msgs' = Append(msgs, [code |-> Done(p), buf |-> b, len |-> len])
  BY DEF DriverReturns, ReturnedLengths
<1>2. UNCHANGED <<m_state, m_flags, portVars, headVars, ev, m_cmd_lock,
                  toFlush, flushReq, resizes, cb>>
  BY DEF DriverReturns
<1>3. /\ CompType /\ ev \in EvType /\ msgs \in Seq(Msg) /\ cb \in Seq(Callback)
      /\ \A q \in Ports : drv[q] \subseteq BufsOf(q)
      /\ Commands(ev.cmd) \in Nat /\ m_cmd_lock \in Nat
  BY Typing
<1>4. b \in BufsOf(p) /\ b \in Bufs /\ PortOf(b) = p
      /\ drv \in [Ports -> SUBSET Bufs]
  BY <1>3, BufsFacts DEF CompType
<1>5. PICK m : m = [code |-> Done(p), buf |-> b, len |-> len]
  OBVIOUS
<1>6. m \in Msg /\ m.buf = b
  BY <1>4, <1>5 DEF Msg, DriverIds, Done, BufsOf, Ports
<1>7. msgs' \in Seq(Msg)
  BY <1>1, <1>3, <1>5, <1>6
<1>8. \A c : MsgCount(msgs', c) = MsgCount(msgs, c) + (IF b = c THEN 1 ELSE 0)
  BY <1>1, <1>3, <1>5, <1>6, MsgFacts
<1>9. CompType'
  BY <1>1, <1>2, <1>3, <1>4 DEF CompType, portVars
<1>10. CompOK'
  BY <1>1, <1>2, <1>3, <1>4, <1>7 DEF CompOK
<1>11. ASSUME NEW c \in Bufs PROVE Flight(c)' <= Flight(c)
  <2>1. InDriver(c)' + (IF b = c THEN 1 ELSE 0) = InDriver(c)
        /\ InDriver(c)' \in Nat
    BY <1>1, <1>4, BufsFacts DEF InDriver
  <2>2. /\ MsgCount(msgs, c) \in Nat /\ EvWeight(ev, c) \in Nat
        /\ Count(cb, c) \in Nat
    BY <1>3, WeightFacts
  <2> QED BY <1>2, <1>8, <2>1, <2>2 DEF Flight
<1>12. Commands(ev'.cmd) + m_cmd_lock' <= Commands(ev.cmd) + m_cmd_lock
  BY <1>2, <1>3
<1>13. UNCHANGED <<codecVars, headVars>>
  BY <1>2
<1> QED BY <1>9, <1>10, <1>11, <1>12, <1>13, ComponentStep

LEMMA ComponentPreserves ==
    ASSUME CodecInv, Component
    PROVE  CodecInv'
<1> USE DEF Component
<1>1. CASE event_thread
  <2>1. CASE EventIgnored
    BY <2>1, EventIgnoredStep
  <2>2. ASSUME NEW p \in Ports, SubmitProxy(p) \/ GenerateDone(p) \/ FlushDone(p)
        PROVE  CodecInv'
    BY <2>2, SubmitProxyStep, GenerateDoneStep, FlushDoneStep
  <2>3. CASE StartDone \/ StopDone \/ CommandDone \/ ImageSizeChange
    BY <2>3, StartDoneStep, StopDoneStep, CommandDoneStep, ImageSizeChangeStep
  <2>4. CASE handle_command_state_set
    <3>1. "Idle" \in States /\ "Loaded" \in States
      BY DEF States
    <3> QED BY <2>4, <3>1, StateSetMemoryStep, StateSetMessageStep
           DEF handle_command_state_set
  <2>5. CASE \/ handle_command_flush \/ handle_command_port_disable("out")
             \/ handle_command_port_enable("out") \/ omx_flush_port
    BY <2>5, FlushCommandStep, PortCommandStep, FlushPortStep
  <2> QED BY <1>1, <2>1, <2>2, <2>3, <2>4, <2>5 DEF event_thread
<1>2. CASE message_process
  BY <1>2, MessageStep
<1>3. ASSUME NEW p \in Ports, DriverReturns(p) \/ DriverFlushed(p)
      PROVE  CodecInv'
  BY <1>3, DriverReturnsStep, DriverMessageStep
<1>4. CASE DriverResizes
  BY <1>4, DriverMessageStep
<1> QED BY <1>1, <1>2, <1>3, <1>4

-------------------------------------------------------------------------------
(* The steps of ACodec.  First the calls a handler lists.                  *)
Plain == {c \in CallType : c.op \notin {"use", "sem_wait"}}

LEMMA PlainCalls ==
    ASSUME calls' \in Seq(Plain)
    PROVE  CallOK'
<1>1. \A i \in 1..Len(calls') : calls'[i] \in Plain
  OBVIOUS
<1>2. calls' \in Seq(CallType)
  <2>1. Plain \subseteq CallType
    BY DEF Plain
  <2> QED BY <2>1, SeqMonotonic
<1> QED BY <1>1, <1>2 DEF CallOK, UseOK, Plain

LEMMA SendPlain ==
    ASSUME NEW c \in Names, NEW a \in Args
    PROVE  sendCommand(c, a) \in Seq(Plain)
<1>1. Call("send", c, a) \in Plain
  BY DEF Call, Plain, CallType, BufOps
<1> QED BY <1>1 DEF sendCommand

LEMMA OnePlain ==
    ASSUME NEW op \in BufOps \ {"use"}, NEW b \in Bufs,
           op = "fill" => b \in OutBufs, op = "empty" => b \in InBufs
    PROVE  <<Call(op, b, NULL)>> \in Seq(Plain)
<1>1. Call(op, b, NULL) \in Plain
  BY DEF Call, Plain, CallType, BufOps
<1> QED BY <1>1

LEMMA ForAllFacts ==
    ASSUME NEW op \in BufOps, NEW B \in SUBSET Bufs, NEW bs \in Seq(B),
           op = "fill" => B \subseteq OutBufs, op = "empty" => B \subseteq InBufs
    PROVE  /\ ForAll(op, bs) \in Seq(CallType)
           /\ Len(ForAll(op, bs)) = Len(bs)
           /\ \A i \in 1..Len(bs) : /\ ForAll(op, bs)[i].op = op
                                    /\ ForAll(op, bs)[i].x = bs[i]
           /\ op # "use" => ForAll(op, bs) \in Seq(Plain)
<1> DEFINE q == [i \in 1..Len(bs) |-> Call(op, bs[i], NULL)]
<1>1. Len(bs) \in Nat /\ \A i \in 1..Len(bs) : bs[i] \in B
  OBVIOUS
<1>2. ASSUME NEW b \in B
      PROVE  /\ Call(op, b, NULL) \in CallType
             /\ Call(op, b, NULL).op = op /\ Call(op, b, NULL).x = b
             /\ op # "use" => Call(op, b, NULL) \in Plain
  BY DEF Call, CallType, BufOps, Plain
<1>3. q \in [1..Len(bs) -> CallType]
      /\ (op # "use" => q \in [1..Len(bs) -> Plain])
  BY <1>1, <1>2
<1>4. \A i \in 1..Len(bs) : q[i].op = op /\ q[i].x = bs[i]
  BY <1>1, <1>2
<1>5. ForAll(op, bs) = q
  BY DEF ForAll
<1> HIDE DEF q
<1>6. q \in Seq(CallType) /\ (op # "use" => q \in Seq(Plain))
  BY <1>1, <1>3, SeqDef
<1>7. Len(q) = Len(bs)
  BY <1>1, <1>3, <1>6
<1> QED BY <1>4, <1>5, <1>6, <1>7

LEMMA ReverseFacts ==
    ASSUME NEW B, NEW bs \in Seq(B)
    PROVE  /\ Reverse(bs) \in Seq(B) /\ Len(Reverse(bs)) = Len(bs)
           /\ \A i \in 1..Len(bs) : \E j \in 1..Len(bs) : Reverse(bs)[j] = bs[i]
<1> DEFINE r == [i \in 1..Len(bs) |-> bs[(Len(bs) - i) + 1]]
<1>1. Len(bs) \in Nat /\ \A i \in 1..Len(bs) : (Len(bs) - i) + 1 \in 1..Len(bs)
  OBVIOUS
<1>2. r \in [1..Len(bs) -> B]
  BY <1>1
<1>3. ASSUME NEW i \in 1..Len(bs) PROVE \E j \in 1..Len(bs) : r[j] = bs[i]
  <2>1. PICK j \in 1..Len(bs) : j = (Len(bs) - i) + 1
    BY <1>1
  <2>2. (Len(bs) - j) + 1 = i
    BY <1>1, <2>1
  <2> QED BY <2>2
<1>4. Reverse(bs) = r
  BY DEF Reverse
<1> HIDE DEF r
<1>5. r \in Seq(B)
  BY <1>1, <1>2, SeqDef
<1>6. Len(r) = Len(bs)
  BY <1>1, <1>2, <1>5
<1> QED BY <1>3, <1>4, <1>5, <1>6

(* Allocating: each buffer of B is used at most once, and none freed.      *)
Alloc(q, B) ==
    /\ q \in Seq(CallType)
    /\ \A i \in 1..Len(q) : /\ q[i].op \in {"send", "use"}
                            /\ q[i].op = "use" => q[i].x \in B
    /\ \A i, j \in 1..Len(q) :
         q[i].op = "use" /\ q[j].op = "use" /\ q[i].x = q[j].x => i = j

LEMMA AllocSend ==
    ASSUME NEW c \in Names, NEW a \in Args
    PROVE  Alloc(sendCommand(c, a), {})
<1>1. PICK x : x = Call("send", c, a)
  OBVIOUS
<1>2. x \in CallType /\ x.op = "send"
  BY <1>1 DEF Call, CallType, BufOps
<1>3. <<x>> \in Seq(CallType) /\ Len(<<x>>) = 1 /\ <<x>>[1] = x
  BY <1>2
<1>4. sendCommand(c, a) = <<x>>
  BY <1>1 DEF sendCommand
<1>5. \A i \in 1..1 : i = 1
  OBVIOUS
<1> QED BY <1>2, <1>3, <1>4, <1>5 DEF Alloc

LEMMA SetToSeqFacts ==
    ASSUME NEW S, IsFiniteSet(S)
    PROVE  /\ SetToSeq(S) \in Seq(S)
           /\ \A i, j \in 1..Len(SetToSeq(S)) :
                SetToSeq(S)[i] = SetToSeq(S)[j] => i = j
<1>1. PICK n \in Nat : n = Cardinality(S)
  BY FS_CardinalityType
<1>2. PICK f : f \in Bijection(1..n, S)
  BY <1>1, FS_CardinalityType DEF ExistsBijection
<1>3. f \in [1..n -> S] /\ IsInjective(f)
  BY <1>2 DEF Bijection, Injection
<1>4. PICK g : g = SetToSeq(S)
  OBVIOUS
<1>5. g \in [1..n -> S] /\ IsInjective(g)
  BY <1>1, <1>3, <1>4 DEF SetToSeq
<1>6. g \in Seq(S)
  BY <1>5, SeqDef
<1>7. Len(g) = n /\ DOMAIN g = 1..n
  BY <1>5, <1>6
<1> QED BY <1>4, <1>5, <1>6, <1>7 DEF IsInjective

LEMMA AllocPort ==
    ASSUME NEW p \in Ports
    PROVE  Alloc(allocateBuffersOnPort(p), BufsOf(p))
<1>1. IsFiniteSet(BufsOf(p)) /\ BufsOf(p) \in SUBSET Bufs
  BY ComponentAssumption, BufsFacts DEF BufsOf
<1>2. PICK bs \in Seq(BufsOf(p)) :
        /\ bs = SetToSeq(BufsOf(p))
        /\ \A i, j \in 1..Len(bs) : bs[i] = bs[j] => i = j
  BY <1>1, SetToSeqFacts
<1>3. PICK q : q = ForAll("use", bs)
  OBVIOUS
<1>4. /\ q \in Seq(CallType) /\ Len(q) = Len(bs)
      /\ \A i \in 1..Len(bs) : q[i].op = "use" /\ q[i].x = bs[i]
  BY <1>1, <1>3, ForAllFacts DEF BufOps
<1>5. \A i \in 1..Len(bs) : bs[i] \in BufsOf(p)
  OBVIOUS
<1>6. Alloc(q, BufsOf(p))
  BY <1>2, <1>4, <1>5 DEF Alloc
<1> QED BY <1>2, <1>3, <1>6 DEF allocateBuffersOnPort

LEMMA AllocConcat ==
    ASSUME NEW A, NEW B, NEW q, NEW r, Alloc(q, A), Alloc(r, B), A \cap B = {}
    PROVE  Alloc(q \o r, A \cup B)
<1>1. /\ q \in Seq(CallType) /\ r \in Seq(CallType)
      /\ Len(q) \in Nat /\ Len(r) \in Nat
  BY DEF Alloc
<1>2. /\ q \o r \in Seq(CallType) /\ Len(q \o r) = Len(q) + Len(r)
      /\ \A i \in 1..(Len(q) + Len(r)) :
           (q \o r)[i] = IF i <= Len(q) THEN q[i] ELSE r[i - Len(q)]
  BY <1>1, ConcatProperties
<1>3. \A i \in 1..(Len(q) + Len(r)) :
         i \in 1..Len(q) \/ (~(i <= Len(q)) /\ i - Len(q) \in 1..Len(r))
  BY <1>1
<1>4. PICK s : s = q \o r
  OBVIOUS
<1>5. ASSUME NEW i \in 1..(Len(q) + Len(r))
      PROVE  /\ s[i].op \in {"send", "use"}
             /\ s[i].op = "use" => s[i].x \in A \cup B
             /\ s[i].op = "use" => (i <= Len(q) <=> s[i].x \in A)
  BY <1>2, <1>3, <1>4 DEF Alloc
<1>6. ASSUME NEW i \in 1..(Len(q) + Len(r)), NEW j \in 1..(Len(q) + Len(r)),
             s[i].op = "use", s[j].op = "use", s[i].x = s[j].x
      PROVE  i = j
  <2>1. i <= Len(q) <=> j <= Len(q)
    BY <1>5, <1>6
  <2>2. CASE i <= Len(q)
    <3>1. i \in 1..Len(q) /\ j \in 1..Len(q) /\ s[i] = q[i] /\ s[j] = q[j]
      BY <1>1, <1>2, <1>4, <2>1, <2>2
    <3> QED BY <1>6, <3>1 DEF Alloc
  <2>3. CASE ~(i <= Len(q))
    <3>1. /\ i - Len(q) \in 1..Len(r) /\ j - Len(q) \in 1..Len(r)
          /\ s[i] = r[i - Len(q)] /\ s[j] = r[j - Len(q)]
      BY <1>1, <1>2, <1>3, <1>4, <2>1, <2>3
    <3>2. i - Len(q) = j - Len(q)
      BY <1>6, <3>1 DEF Alloc
    <3> QED BY <1>1, <3>2
  <2> QED BY <2>2, <2>3
<1> QED BY <1>2, <1>4, <1>5, <1>6 DEF Alloc

LEMMA AllocCallOK ==
    ASSUME NEW B, Alloc(calls', B),
           \A b \in B \cap Bufs : /\ b \notin Owned(PortOf(b))'
                                  /\ Compact(PortOf(b))'
    PROVE  CallOK'
<1>1. \A i \in 1..Len(calls') : calls'[i].op = "use" => calls'[i].x \in Bufs
  BY DEF Alloc, CallType, BufOps
<1>2. ASSUME NEW i \in 1..Len(calls')
      PROVE  UseOK(i)' /\ (calls'[i].op = "sem_wait" => i = 1)
  BY <1>1 DEF Alloc, UseOK
<1> QED BY <1>2 DEF CallOK, Alloc

CodecType ==
    /\ acodec \in {"Loaded", "LoadedToIdle", "IdleToExecuting", "Executing",
                   "OutputPortSettingsChanged", "Flushing", "ExecutingToIdle",
                   "IdleToLoaded"}
    /\ mBuffers \in [Ports -> Seq(Bufs)]
    /\ mStatus \in [Bufs -> {"US", "COMPONENT", "UPSTREAM", "DOWNSTREAM"}]
    /\ mActive \in BOOLEAN /\ mComponentNowIdle \in BOOLEAN
    /\ mFlushComplete \subseteq Ports
    /\ mState \in {"CONFIGURED", "STARTING", "STARTED", "FLUSHING", "STOPPING"}

LEMMA CodecTyping ==
    ASSUME CodecInv
    PROVE  CodecType /\ mStatus \in [Bufs -> {"US", "COMPONENT", "UPSTREAM",
                                              "DOWNSTREAM"}]
BY DEF CodecInv, TypeOK, CodecType

(* The invariant after a step of ACodec that leaves the headers alone.     *)
LEMMA CodecStep ==
    ASSUME CodecInv, UNCHANGED <<m_state, m_flags, portVars, headVars, toFlush,
                                 drvVars, mBuffers>>,
           ev' \in EvType, cb' \in Seq(Callback), m_cmd_lock' \in 0..1,
           CodecType', CommandOK', CallOK', LifeOK',
           \A b \in Bufs :
              EvWeight(ev', b) + Count(cb', b) + Held(b)'
                <= EvWeight(ev, b) + Count(cb, b) + Held(b)
    PROVE  CodecInv'
<1> USE DEF portVars, headVars, drvVars
<1>1. TypeOK'
  <2>1. CompType /\ m_cur_buf_num \in [Ports -> 0..Cardinality(Bufs)]
    BY Typing DEF CodecInv, TypeOK
  <2> QED BY <2>1 DEF CodecType, CompType, TypeOK, States
<1>2. CompOK'
  BY Typing DEF CompOK
<1>3. (\A p \in Ports : HeadOK(p))' /\ (DOMAIN m_omx_bufhead = Ports)'
  BY DEF CodecInv, HeadOK
<1>4. HeadsMatch'
  <2>1. HeadsMatch' = HeadsMatch
    BY DEF HeadsMatch, Registered, Owned
  <2> QED BY <2>1 DEF CodecInv
<1>5. OnePlace'
  <2> SUFFICES ASSUME NEW b \in Bufs
               PROVE  (Places(b) <= IF b \in Owned(PortOf(b)) THEN 1 ELSE 0)'
    BY DEF OnePlace
  <2>1. /\ MsgCount(msgs, b) \in Nat /\ EvWeight(ev, b) \in Nat
        /\ Count(cb, b) \in Nat /\ InDriver(b) \in Nat /\ Held(b) \in Nat
        /\ Places(b) = Flight(b) + Held(b)
    BY Typing, PlacesFlight
  <2>2. /\ EvWeight(ev', b) \in Nat /\ Count(cb', b) \in Nat
    BY Typing, WeightFacts
  <2>3. Held(b)' \in Nat /\ Places(b)' = Flight(b)' + Held(b)'
    BY <1>2, PlacesFlightNext
  <2>4. InDriver(b)' = InDriver(b) /\ MsgCount(msgs', b) = MsgCount(msgs, b)
    BY DEF InDriver
  <2>5. Places(b)' <= Places(b)
    <3>1. PICK i, m, v, c, h, w, d, g :
            /\ i = InDriver(b) /\ m = MsgCount(msgs, b)
            /\ v = EvWeight(ev, b) /\ c = Count(cb, b) /\ h = Held(b)
            /\ w = EvWeight(ev', b) /\ d = Count(cb', b) /\ g = Held(b)'
      OBVIOUS
    <3>2. /\ i \in Nat /\ m \in Nat /\ v \in Nat /\ c \in Nat /\ h \in Nat
          /\ w \in Nat /\ d \in Nat /\ g \in Nat
      BY <2>1, <2>2, <2>3, <3>1
    <3>3. w + d + g <= v + c + h
      BY <3>1
    <3>4. Places(b) = i + m + v + c + h
      BY <2>1, <3>1 DEF Flight
    <3>5. Places(b)' = i + m + w + d + g
      BY <2>3, <2>4, <3>1 DEF Flight
    <3> QED BY <3>2, <3>3, <3>4, <3>5
  <2>6. Places(b) <= IF b \in Owned(PortOf(b)) THEN 1 ELSE 0
    BY DEF CodecInv, OnePlace
  <2>7. Places(b)' \in Nat /\ Places(b) \in Nat
    <3>1. Flight(b) \in Nat
      BY Typing, PlacesFlight
    <3>2. Flight(b)' \in Nat
      BY <1>2, PlacesFlightNext
    <3> QED BY <2>1, <2>3, <3>1, <3>2
  <2>8. Places(b)' <= IF b \in Owned(PortOf(b)) THEN 1 ELSE 0
    BY <2>5, <2>6, <2>7
  <2> QED BY <2>8 DEF Owned
<1> QED BY <1>1, <1>2, <1>3, <1>4, <1>5 DEF CodecInv

(* A handler: no call is outstanding and no command under way.             *)
LEMMA HandlerStep ==
    ASSUME CodecInv, calls = <<>>,
           UNCHANGED <<m_state, m_flags, portVars, headVars, ev, m_cmd_lock,
                       toFlush, drvVars, mBuffers>>,
           cb' \in Seq(Callback), CodecType', CallOK', LifeOK',
           \A b \in Bufs : Count(cb', b) + Held(b)' <= Count(cb, b) + Held(b)
    PROVE  CodecInv'
<1>1. /\ ev \in EvType /\ cb \in Seq(Callback) /\ msgs \in Seq(Msg)
      /\ Commands(ev.cmd) \in Nat /\ m_cmd_lock \in 0..1
  BY Typing DEF CodecInv, TypeOK
<1>2. CommandOK'
  <2>1. Commands(ev.cmd) + m_cmd_lock <= 0
    BY DEF CodecInv, CommandOK, Makes
  <2>2. Commands(ev.cmd) + m_cmd_lock <= IF Makes("sem_wait")' THEN 1 ELSE 0
    BY <1>1, <2>1
  <2> QED BY <2>2 DEF CommandOK
<1>3. ASSUME NEW b \in Bufs
      PROVE  EvWeight(ev', b) + Count(cb', b) + Held(b)'
               <= EvWeight(ev, b) + Count(cb, b) + Held(b)
  <2>1. /\ EvWeight(ev, b) \in Nat /\ Count(cb, b) \in Nat
        /\ Count(cb', b) \in Nat
    BY <1>1, WeightFacts
  <2>2. Held(b) \in Nat /\ Held(b)' \in Nat
    BY DEF Held
  <2> QED BY <2>1, <2>2
<1> QED BY <1>1, <1>2, <1>3, CodecStep

(* Nothing of ACodec's state but its callbacks, calls, status and mode     *)
(* changes, and the calls are plain: the common handler.                   *)
LEMMA PlainStep ==
    ASSUME CodecInv, calls = <<>>,
           UNCHANGED <<m_state, m_flags, portVars, headVars, ev, m_cmd_lock,
                       toFlush, drvVars, mBuffers>>,
           cb' \in Seq(Callback), CodecType', calls' \in Seq(Plain),
           \/ acodec' \notin {"Loaded", "IdleToLoaded"}
           \/ acodec' = acodec /\ calls' = <<>>,
           \A b \in Bufs : Count(cb', b) + Held(b)' <= Count(cb, b) + Held(b)
    PROVE  CodecInv'
<1>1. CallOK'
  BY PlainCalls
<1>2. LifeOK'
  <2>1. CASE acodec' \notin {"Loaded", "IdleToLoaded"}
    BY <2>1 DEF LifeOK
  <2>2. CASE acodec' = acodec /\ calls' = <<>>
    <3>1. LifeOK' = LifeOK
      BY <2>2 DEF LifeOK, ToFree, Owned
    <3> QED BY <3>1 DEF CodecInv
  <2> QED BY <2>1, <2>2
<1> QED BY <1>1, <1>2, HandlerStep

-------------------------------------------------------------------------------
(* The handlers.                                                           *)
LEMMA BuffersFacts ==
    ASSUME CodecInv, NEW p \in Ports
    PROVE  /\ mBuffers[p] \in Seq(BufsOf(p)) /\ LinkedOnce(mBuffers[p])
           /\ mBuffers[p] \in Seq(Bufs) /\ Len(mBuffers[p]) \in Nat
           /\ \A i \in 1..Len(mBuffers[p]) : /\ mBuffers[p][i] \in BufsOf(p)
                                             /\ mBuffers[p][i] \in Bufs
           /\ Owned(p) \subseteq BufsOf(p)
<1>1. mBuffers[p] \in Seq(BufsOf(p)) /\ LinkedOnce(mBuffers[p])
  BY DEF CodecInv, HeadOK
<1>2. BufsOf(p) \subseteq Bufs
  BY BufsFacts
<1>3. /\ Len(mBuffers[p]) \in Nat
      /\ \A i \in 1..Len(mBuffers[p]) : mBuffers[p][i] \in BufsOf(p)
  BY <1>1
<1>4. mBuffers[p] \in Seq(Bufs)
  BY <1>1, <1>2, SeqMonotonic
<1>5. Owned(p) \subseteq BufsOf(p)
  BY <1>3 DEF Owned, Entries
<1> QED BY <1>1, <1>2, <1>3, <1>4, <1>5

LEMMA HeldLess ==
    ASSUME CodecInv, mBuffers' = mBuffers, NEW c \in Bufs,
           NEW v \in {"US", "COMPONENT", "UPSTREAM", "DOWNSTREAM"},
           mStatus[c] # "COMPONENT" \/ v = "COMPONENT",
           mStatus' = [mStatus EXCEPT ![c] = v]
    PROVE  /\ mStatus' \in [Bufs -> {"US", "COMPONENT", "UPSTREAM",
                                     "DOWNSTREAM"}]
           /\ \A b \in Bufs : Held(b)' <= Held(b)
<1>1. mStatus \in [Bufs -> {"US", "COMPONENT", "UPSTREAM", "DOWNSTREAM"}]
  BY CodecTyping
<1>2. mStatus' \in [Bufs -> {"US", "COMPONENT", "UPSTREAM", "DOWNSTREAM"}]
  BY <1>1
<1>3. ASSUME NEW b \in Bufs PROVE Held(b)' <= Held(b)
  <2>1. Owned(PortOf(b))' = Owned(PortOf(b))
    BY DEF Owned
  <2>2. mStatus'[b] # "COMPONENT" => mStatus[b] # "COMPONENT"
    BY <1>1
  <2> QED BY <2>1, <2>2 DEF Held
<1> QED BY <1>2, <1>3

LEMMA HeldSame ==
    ASSUME UNCHANGED <<mBuffers, mStatus>>
    PROVE  \A b \in Bufs : Held(b)' <= Held(b)
BY DEF Held, Owned

LEMMA SubmitPlain ==
    ASSUME CodecInv
    PROVE  /\ submitOutputBuffers \in Seq(Plain)
           /\ freeOutputBuffersNotOwnedByComponent \in Seq(Plain)
<1>1. mBuffers["out"] \in Seq(OutBufs) /\ OutBufs \in SUBSET Bufs
  BY BuffersFacts DEF Ports, BufsOf, Bufs
<1>2. Reverse(mBuffers["out"]) \in Seq(OutBufs)
  BY <1>1, ReverseFacts
<1>3. "fill" \in BufOps /\ "free_not_owned" \in BufOps
  BY DEF BufOps
<1>4. ForAll("fill", mBuffers["out"]) \in Seq(Plain)
  BY <1>1, <1>3, ForAllFacts
<1>5. PICK r \in Seq(OutBufs) : r = Reverse(mBuffers["out"])
  BY <1>2
<1>6. ForAll("free_not_owned", r) \in Seq(Plain)
  BY <1>1, <1>3, ForAllFacts
<1> QED BY <1>4, <1>5, <1>6
       DEF submitOutputBuffers, freeOutputBuffersNotOwnedByComponent

LEMMA ResumeFacts ==
    ASSUME CodecInv, calls = <<>>, mBuffers' = mBuffers, Resume
    PROVE  /\ calls' \in Seq(Plain)
           /\ mStatus' \in [Bufs -> {"US", "COMPONENT", "UPSTREAM",
                                     "DOWNSTREAM"}]
           /\ mActive' \in BOOLEAN
           /\ \A b \in Bufs : Held(b)' <= Held(b)
<1>1. CodecType
  BY CodecTyping
<1>2. CASE mActive
  <2>1. UNCHANGED <<calls, mStatus, mActive>>
    BY <1>2 DEF Resume
  <2>2. calls' \in Seq(Plain)
    BY <2>1, EmptySeq
  <2> QED BY <1>1, <2>1, <2>2, HeldSame DEF CodecType
<1>3. CASE ~mActive
  <2>1. /\ ResumeOk /\ calls' = submitOutputBuffers /\ mActive' = TRUE
        /\ mStatus' = [mStatus EXCEPT ![mBuffers["in"][1]] = "UPSTREAM"]
    BY <1>3 DEF Resume
  <2>2. PICK c \in Bufs : c = mBuffers["in"][1]
    <3>1. /\ mBuffers["in"] \in Seq(Bufs) /\ mBuffers["in"] # <<>>
          /\ \A i \in 1..Len(mBuffers["in"]) : mBuffers["in"][i] \in Bufs
      BY <2>1, BuffersFacts DEF ResumeOk, Ports
    <3>2. Len(mBuffers["in"]) \in Nat \ {0}
      BY <3>1, EmptySeq
    <3> QED BY <3>1, <3>2
  <2>3. mStatus[c] # "COMPONENT" /\ mStatus' = [mStatus EXCEPT ![c] = "UPSTREAM"]
    BY <2>1, <2>2 DEF ResumeOk
  <2> QED BY <2>1, <2>3, HeldLess, SubmitPlain
<1> QED BY <1>2, <1>3

LEMMA ExecutingFacts ==
    ASSUME CodecInv, calls = <<>>, acodec = "Executing", mBuffers' = mBuffers,
           mState' = mState, NEW msg, ExecutingHandles(msg)
    PROVE  /\ calls' \in Seq(Plain) /\ CodecType'
           /\ acodec' \notin {"Loaded", "IdleToLoaded"}
           /\ \A b \in Bufs : Held(b)' <= Held(b)
<1>1. CodecType
  BY CodecTyping
<1>2. ASSUME NEW c \in Names, NEW a \in Args, NEW state, NEW q \in Seq(Plain),
             state \in {"ExecutingToIdle", "Flushing",
                        "OutputPortSettingsChanged"},
             acodec' = state, calls' = sendCommand(c, a) \o q,
             mActive' \in BOOLEAN, mComponentNowIdle' \in BOOLEAN,
             mFlushComplete' \subseteq Ports, mStatus' = mStatus
      PROVE  /\ calls' \in Seq(Plain) /\ CodecType'
             /\ acodec' \notin {"Loaded", "IdleToLoaded"}
             /\ \A b \in Bufs : Held(b)' <= Held(b)
  <2>1. PICK s \in Seq(Plain) : s = sendCommand(c, a)
    BY SendPlain
  <2>2. s \o q \in Seq(Plain)
    BY ConcatProperties
  <2>3. CodecType'
    BY <1>1, <1>2 DEF CodecType
  <2> QED BY <1>2, <2>1, <2>2, <2>3, HeldSame
<1>3. PICK none \in Seq(Plain) : none = <<>>
  BY EmptySeq
<1>4. /\ "StateSet" \in Names /\ "Flush" \in Names /\ "PortDisable" \in Names
      /\ "Idle" \in Args /\ "all" \in Args /\ "out" \in Args
  BY DEF Names, Args, States, Ports
<1>5. ASSUME NEW c \in Names, NEW a \in Args
      PROVE  sendCommand(c, a) = sendCommand(c, a) \o none
  <2>1. PICK s \in Seq(Plain) : s = sendCommand(c, a)
    BY SendPlain
  <2> QED BY <1>3, <2>1, ConcatEmptySeq
<1>6. CASE msg = "shutdown" /\ acodec' = "ExecutingToIdle"
           /\ calls' = sendCommand("StateSet", "Idle")
           /\ mActive' = FALSE /\ mComponentNowIdle' = FALSE
           /\ UNCHANGED <<mFlushComplete, mStatus>>
  <2>1. calls' = sendCommand("StateSet", "Idle") \o none
    BY <1>4, <1>5, <1>6
  <2>2. mFlushComplete' \subseteq Ports
    BY <1>1, <1>6 DEF CodecType
  <2> QED BY <1>2, <1>4, <1>6, <2>1, <2>2
<1>7. CASE msg = "flush" /\ acodec' = "Flushing"
           /\ calls' = sendCommand("Flush", "all")
           /\ mActive' = FALSE /\ mFlushComplete' = {}
           /\ UNCHANGED <<mComponentNowIdle, mStatus>>
  <2>1. calls' = sendCommand("Flush", "all") \o none
    BY <1>4, <1>5, <1>7
  <2>2. mComponentNowIdle' \in BOOLEAN
    BY <1>1, <1>7 DEF CodecType
  <2> QED BY <1>2, <1>4, <1>7, <2>1, <2>2
<1>8. CASE msg = "resume" /\ Resume
           /\ UNCHANGED <<acodec, mFlushComplete, mComponentNowIdle>>
  <2>1. /\ calls' \in Seq(Plain)
        /\ mStatus' \in [Bufs -> {"US", "COMPONENT", "UPSTREAM", "DOWNSTREAM"}]
        /\ mActive' \in BOOLEAN
        /\ \A b \in Bufs : Held(b)' <= Held(b)
    BY <1>8, ResumeFacts
  <2>2. CodecType'
    BY <1>1, <1>8, <2>1 DEF CodecType
  <2> QED BY <1>8, <2>1, <2>2
<1>9. CASE msg = "settings" /\ Enter("OutputPortSettingsChanged")
           /\ calls' = sendCommand("PortDisable", "out")
                          \o freeOutputBuffersNotOwnedByComponent
           /\ UNCHANGED mStatus
  <2>1. PICK q \in Seq(Plain) : q = freeOutputBuffersNotOwnedByComponent
    BY SubmitPlain
  <2>2. /\ acodec' = "OutputPortSettingsChanged" /\ mActive' \in BOOLEAN
        /\ mComponentNowIdle' \in BOOLEAN /\ mFlushComplete' \subseteq Ports
    BY <1>1, <1>9 DEF Enter, modeVars, CodecType
  <2> QED BY <1>2, <1>4, <1>9, <2>1, <2>2
<1> QED BY <1>6, <1>7, <1>8, <1>9 DEF ExecutingHandles

(* ACodec lists all its buffers to be freed when the component is idle.    *)
FreesIn(q, b) == \E k \in 1..Len(q) : q[k].op = "free" /\ q[k].x = b

LEMMA FreesConcat ==
    ASSUME NEW q \in Seq(Plain), NEW r \in Seq(Plain), NEW b,
           FreesIn(q, b) \/ FreesIn(r, b)
    PROVE  FreesIn(q \o r, b)
<1>1. /\ Len(q) \in Nat /\ Len(r) \in Nat /\ Len(q \o r) = Len(q) + Len(r)
      /\ \A i \in 1..(Len(q) + Len(r)) :
           (q \o r)[i] = IF i <= Len(q) THEN q[i] ELSE r[i - Len(q)]
  BY ConcatProperties
<1>2. CASE FreesIn(q, b)
  <2>1. PICK k \in 1..Len(q) : q[k].op = "free" /\ q[k].x = b
    BY <1>2 DEF FreesIn
  <2>2. k \in 1..(Len(q) + Len(r)) /\ (q \o r)[k] = q[k]
    BY <1>1
  <2> QED BY <1>1, <2>1, <2>2 DEF FreesIn
<1>3. CASE FreesIn(r, b)
  <2>1. PICK k \in 1..Len(r) : r[k].op = "free" /\ r[k].x = b
    BY <1>3 DEF FreesIn
  <2>2. PICK j : j = Len(q) + k
    OBVIOUS
  <2>3. j \in 1..(Len(q) + Len(r)) /\ ~(j <= Len(q)) /\ j - Len(q) = k
    BY <1>1, <2>2
  <2>4. (q \o r)[j] = r[k]
    BY <1>1, <2>3
  <2> QED BY <1>1, <2>1, <2>3, <2>4 DEF FreesIn
<1> QED BY <1>2, <1>3

LEMMA FreePort ==
    ASSUME CodecInv, NEW p \in Ports
    PROVE  /\ freeBuffersOnPort(p) \in Seq(Plain)
           /\ \A b \in Owned(p) : FreesIn(freeBuffersOnPort(p), b)
<1>1. PICK bs \in Seq(Bufs) : bs = mBuffers[p]
  BY BuffersFacts
<1>2. PICK r \in Seq(Bufs) :
        /\ r = Reverse(bs) /\ Len(r) = Len(bs)
        /\ \A i \in 1..Len(bs) : \E j \in 1..Len(bs) : r[j] = bs[i]
  BY ReverseFacts
<1>3. PICK q : q = ForAll("free", r)
  OBVIOUS
<1>4. /\ q \in Seq(Plain) /\ Len(q) = Len(r)
      /\ \A i \in 1..Len(r) : q[i].op = "free" /\ q[i].x = r[i]
  BY <1>3, ForAllFacts DEF BufOps
<1>5. ASSUME NEW b \in Owned(p) PROVE FreesIn(q, b)
  <2>1. PICK i \in 1..Len(bs) : b = bs[i]
    BY <1>1, <1>5 DEF Owned, Entries
  <2>2. PICK j \in 1..Len(bs) : r[j] = b
    BY <1>2, <2>1
  <2>3. j \in 1..Len(q) /\ q[j].op = "free" /\ q[j].x = b
    BY <1>2, <1>4, <2>2
  <2> QED BY <2>3 DEF FreesIn
<1> QED BY <1>1, <1>2, <1>3, <1>4, <1>5 DEF freeBuffersOnPort

LEMMA IfWeOwnFacts ==
    ASSUME CodecInv, calls = <<>>, mBuffers' = mBuffers,
           NEW all, NEW done, NEW idle, IfWeOwn(all, done, idle)
    PROVE  /\ CallOK' /\ LifeOK'
           /\ acodec' \in {"Loaded", "LoadedToIdle", "IdleToExecuting",
                           "Executing", "OutputPortSettingsChanged", "Flushing",
                           "ExecutingToIdle", "IdleToLoaded"}
           /\ mState' \in {"CONFIGURED", "STARTING", "STARTED", "FLUSHING",
                           "STOPPING"}
<1>1. CodecType
  BY CodecTyping
<1>2. <<>> \in Seq(Plain)
  BY EmptySeq
<1>3. CASE FlushCompleted
  <2>1. calls' \in Seq(Plain) /\ acodec' = "Executing" /\ mState' = "STARTED"
    BY <1>2, <1>3 DEF FlushCompleted
  <2>2. LifeOK'
    BY <2>1 DEF LifeOK
  <2>3. CallOK'
    BY <2>1, PlainCalls
  <2> QED BY <2>1, <2>2, <2>3
<1>4. CASE ComponentIdle
  <2>1. PICK s \in Seq(Plain) : s = sendCommand("StateSet", "Loaded")
    BY SendPlain DEF Names, Args, States
  <2>2. PICK i \in Seq(Plain) :
           i = freeBuffersOnPort("in") /\ \A b \in Owned("in") : FreesIn(i, b)
    BY FreePort DEF Ports
  <2>3. PICK o \in Seq(Plain) :
           o = freeBuffersOnPort("out") /\ \A b \in Owned("out") : FreesIn(o, b)
    BY FreePort DEF Ports
  <2>4. PICK t \in Seq(Plain) : t = s \o i
    BY ConcatProperties
  <2>5. PICK u \in Seq(Plain) : u = t \o o
    BY ConcatProperties
  <2>6. calls' = u /\ acodec' = "IdleToLoaded" /\ mState' = mState
    BY <1>4, <2>1, <2>2, <2>3, <2>4, <2>5 DEF ComponentIdle
  <2>7. ASSUME NEW p \in Ports, NEW b \in Owned(p) PROVE FreesIn(u, b)
    <3>1. CASE p = "in"
      <4>1. FreesIn(i, b)
        BY <2>2, <2>7, <3>1
      <4>2. FreesIn(t, b)
        BY <2>4, <4>1, FreesConcat
      <4> QED BY <2>5, <4>2, FreesConcat
    <3>2. CASE p = "out"
      <4>1. FreesIn(o, b)
        BY <2>3, <2>7, <3>2
      <4> QED BY <2>5, <4>1, FreesConcat
    <3> QED BY <3>1, <3>2 DEF Ports
  <2>8. ASSUME NEW p \in Ports PROVE Owned(p)' \subseteq ToFree'
    <3>1. Owned(p)' = Owned(p)
      BY DEF Owned
    <3>2. ASSUME NEW b \in Owned(p) PROVE b \in ToFree'
      <4>1. PICK k \in 1..Len(calls') : calls'[k].op = "free" /\ calls'[k].x = b
        BY <2>6, <2>7, <3>2 DEF FreesIn
      <4> QED BY <4>1 DEF ToFree
    <3> QED BY <3>1, <3>2
  <2>9. \A k \in 1..Len(calls') : calls'[k].op # "use"
    <3>1. \A k \in 1..Len(u) : u[k] \in Plain
      BY <2>5
    <3> QED BY <2>6, <3>1 DEF Plain
  <2>10. LifeOK'
    BY <2>6, <2>8, <2>9 DEF LifeOK
  <2>11. CallOK'
    BY <2>5, <2>6, PlainCalls
  <2> QED BY <1>1, <2>6, <2>10, <2>11 DEF CodecType
<1>5. CASE Stay
  <2>1. UNCHANGED <<calls, acodec, mState>>
    BY <1>5 DEF Stay
  <2>2. LifeOK' = LifeOK
    BY <2>1 DEF LifeOK, ToFree, Owned
  <2>3. CallOK'
    BY <1>2, <2>1, PlainCalls
  <2> QED BY <1>1, <2>1, <2>2, <2>3 DEF CodecType, CodecInv
<1> QED BY <1>3, <1>4, <1>5 DEF IfWeOwn

(* A port without buffers has no headers.                                  *)
LEMMA CompactEmpty ==
    ASSUME CodecInv, NEW p \in Ports, Owned(p) = {}
    PROVE  Compact(p)
<1> SUFFICES ASSUME NEW k \in 1..max_count(p)
             PROVE  m_omx_bufhead[p][k] = NULL
  BY DEF Compact
<1>1. m_omx_bufhead[p][k] \in BufsOf(p) \cup {NULL}
  BY DEF CodecInv, HeadOK
<1>2. \A b \in BufsOf(p) : ~Registered(b)
  BY DEF CodecInv, HeadsMatch
<1>3. m_omx_bufhead[p][k] \notin BufsOf(p)
  BY <1>2, BufsFacts DEF Registered
<1> QED BY <1>1, <1>3

(* The requests.                                                           *)
LEMMA DeferredStep ==
    ASSUME CodecInv, processDeferredMessages
    PROVE  CodecInv'
<1> USE DEF processDeferredMessages, compVars, userVars
<1>1. /\ calls' \in Seq(Plain) /\ CodecType'
      /\ acodec' \notin {"Loaded", "IdleToLoaded"}
      /\ \A b \in Bufs : Held(b)' <= Held(b)
  BY ExecutingFacts
<1>2. cb \in Seq(Callback)
  BY Typing
<1>3. \A b \in Bufs : Count(cb', b) + Held(b)' <= Count(cb, b) + Held(b)
  <2>1. \A b \in Bufs : Count(cb, b) \in Nat
    BY <1>2, CountFacts
  <2>2. \A b \in Bufs : Held(b) \in Nat /\ Held(b)' \in Nat
    BY DEF Held
  <2> QED BY <1>1, <2>1, <2>2
<1> QED BY <1>1, <1>2, <1>3, PlainStep

LEMMA StartCalls ==
    ASSUME CodecInv, acodec = "Loaded", UNCHANGED <<headVars, mBuffers>>,
           calls' = sendCommand("StateSet", "Idle")
                       \o allocateBuffersOnPort("in")
                       \o allocateBuffersOnPort("out")
    PROVE  CallOK'
<1>1. PICK s : s = sendCommand("StateSet", "Idle") /\ Alloc(s, {})
  BY AllocSend DEF Names, Args, States
<1>2. PICK i : i = allocateBuffersOnPort("in") /\ Alloc(i, InBufs)
  BY AllocPort DEF Ports, BufsOf
<1>3. PICK o : o = allocateBuffersOnPort("out") /\ Alloc(o, OutBufs)
  BY AllocPort DEF Ports, BufsOf
<1>4. Alloc(s \o i, {} \cup InBufs)
  BY <1>1, <1>2, AllocConcat
<1>5. PICK t : t = s \o i /\ Alloc(t, InBufs)
  <2>1. {} \cup InBufs = InBufs
    OBVIOUS
  <2> QED BY <1>4, <2>1
<1>6. Alloc(t \o o, InBufs \cup OutBufs)
  BY <1>3, <1>5, ComponentAssumption, AllocConcat
<1>7. Alloc(calls', Bufs)
  BY <1>1, <1>2, <1>3, <1>5, <1>6 DEF Bufs
<1>8. ASSUME NEW b \in Bufs
      PROVE  b \notin Owned(PortOf(b))' /\ Compact(PortOf(b))'
  <2>1. PortOf(b) \in Ports
    BY BufsFacts
  <2>2. Owned(PortOf(b)) = {}
    BY <2>1 DEF CodecInv, LifeOK
  <2>3. Compact(PortOf(b))
    BY <2>1, <2>2, CompactEmpty
  <2>4. Owned(PortOf(b))' = Owned(PortOf(b))
        /\ Compact(PortOf(b))' = Compact(PortOf(b))
    BY DEF Owned, Compact, headVars
  <2> QED BY <2>2, <2>3, <2>4
<1> QED BY <1>7, <1>8, AllocCallOK

LEMMA RequestStep ==
    ASSUME CodecInv, OnRequest
    PROVE  CodecInv'
<1>1. /\ calls = <<>>
      /\ UNCHANGED <<compVars, mBuffers, flushes, sessions>>
  BY DEF OnRequest, Ready
<1>2. /\ UNCHANGED <<m_state, m_flags, portVars, headVars, ev, m_cmd_lock,
                     toFlush, drvVars, mBuffers>>
      /\ cb' = cb
  BY <1>1 DEF compVars
<1>3. CodecType /\ cb \in Seq(Callback)
  BY Typing, CodecTyping
<1>4. ASSUME \A b \in Bufs : Held(b)' <= Held(b)
      PROVE  \A b \in Bufs : Count(cb', b) + Held(b)' <= Count(cb, b) + Held(b)
  <2>1. \A b \in Bufs : Count(cb, b) \in Nat
    BY <1>3, CountFacts
  <2>2. \A b \in Bufs : Held(b) \in Nat /\ Held(b)' \in Nat
    BY DEF Held
  <2> QED BY <1>2, <1>4, <2>1, <2>2
<1>5. CASE acodec = "Executing" /\ ExecutingHandles(Head(requests))
           /\ mState' = mState
  <2>1. /\ calls' \in Seq(Plain) /\ CodecType'
        /\ acodec' \notin {"Loaded", "IdleToLoaded"}
        /\ \A b \in Bufs : Held(b)' <= Held(b)
    BY <1>1, <1>5, ExecutingFacts
  <2> QED BY <1>1, <1>2, <1>3, <1>4, <2>1, PlainStep
<1>6. CASE /\ acodec = "Loaded"
           /\ calls' = sendCommand("StateSet", "Idle")
                          \o allocateBuffersOnPort("in")
                          \o allocateBuffersOnPort("out")
           /\ Enter("LoadedToIdle") /\ UNCHANGED <<mStatus, mState>>
  <2>1. CallOK'
    BY <1>2, <1>6, StartCalls
  <2>2. acodec' = "LoadedToIdle" /\ UNCHANGED modeVars
    BY <1>6 DEF Enter
  <2>3. LifeOK'
    BY <2>2 DEF LifeOK
  <2>4. CodecType'
    BY <1>1, <1>3, <1>6, <2>2 DEF CodecType, modeVars
  <2>5. \A b \in Bufs : Held(b)' <= Held(b)
    BY <1>1, <1>6, HeldSame
  <2> QED BY <1>1, <1>2, <1>3, <1>4, <2>1, <2>3, <2>4, <2>5, HandlerStep
<1>7. CASE /\ UNCHANGED <<acodec, calls, mStatus, modeVars>>
           /\ mState' = mState \/ mState' \in {"STARTED", "CONFIGURED"}
  <2>1. CodecType'
    BY <1>1, <1>3, <1>7 DEF CodecType, modeVars
  <2>2. \A b \in Bufs : Held(b)' <= Held(b)
    BY <1>1, <1>7, HeldSame
  <2>3. calls' = <<>> /\ calls' \in Seq(Plain) /\ acodec' = acodec
    BY <1>1, <1>7, EmptySeq
  <2> QED BY <1>1, <1>2, <1>3, <1>4, <2>1, <2>2, <2>3, PlainStep
<1> QED BY <1>5, <1>6, <1>7 DEF OnRequest, LoadedShutdown

(* The replies about buffers.                                              *)
LEMMA InputFilledStep ==
    ASSUME CodecInv, NEW b \in InBufs, onInputBufferFilled(b)
    PROVE  CodecInv'
<1>1. /\ calls = <<>> /\ mStatus[b] = "UPSTREAM"
      /\ mStatus' = [mStatus EXCEPT ![b] = "US"]
      /\ UNCHANGED <<compVars, mBuffers, modeVars, mDeferredQueue, flushes,
                     sessions>>
  BY DEF onInputBufferFilled, MediaCodecReplies, Ready
<1>2. /\ UNCHANGED <<m_state, m_flags, portVars, headVars, ev, m_cmd_lock,
                     toFlush, drvVars, mBuffers>>
      /\ cb' = cb
  BY <1>1 DEF compVars
<1>3. CodecType /\ cb \in Seq(Callback)
  BY Typing, CodecTyping
<1>4. b \in Bufs
  BY DEF Bufs
<1>5. /\ mStatus' \in [Bufs -> {"US", "COMPONENT", "UPSTREAM", "DOWNSTREAM"}]
      /\ \A c \in Bufs : Held(c)' <= Held(c)
  BY <1>1, <1>4, HeldLess
<1>6. \A c \in Bufs : Count(cb', c) + Held(c)' <= Count(cb, c) + Held(c)
  <2>1. \A c \in Bufs : Count(cb, c) \in Nat
    BY <1>3, CountFacts
  <2>2. \A c \in Bufs : Held(c) \in Nat /\ Held(c)' \in Nat
    BY DEF Held
  <2> QED BY <1>2, <1>5, <2>1, <2>2
<1>7. CASE mState = "STARTED" /\ PortMode("in") = "RESUBMIT"
  <2>1. calls' = <<Call("empty", b, NULL)>> /\ UNCHANGED <<acodec, mState>>
    BY <1>7 DEF onInputBufferFilled
  <2>2. calls' \in Seq(Plain)
    <3>1. "empty" \in BufOps \ {"use"}
      BY DEF BufOps
    <3> QED BY <1>4, <2>1, <3>1, OnePlain
  <2>3. acodec' \notin {"Loaded", "IdleToLoaded"}
    BY <1>7, <2>1 DEF PortMode
  <2>4. CodecType'
    BY <1>1, <1>3, <1>5, <2>1 DEF CodecType, modeVars
  <2> QED BY <1>1, <1>2, <1>3, <1>6, <2>2, <2>3, <2>4, PlainStep
<1>8. CASE IfWeOwn(WeOwnAllWith(mStatus'), mFlushComplete, mComponentNowIdle)
  <2>1. /\ CallOK' /\ LifeOK'
        /\ acodec' \in {"Loaded", "LoadedToIdle", "IdleToExecuting",
                        "Executing", "OutputPortSettingsChanged", "Flushing",
                        "ExecutingToIdle", "IdleToLoaded"}
        /\ mState' \in {"CONFIGURED", "STARTING", "STARTED", "FLUSHING",
                        "STOPPING"}
    BY <1>1, <1>8, IfWeOwnFacts
  <2>2. CodecType'
    BY <1>1, <1>3, <1>5, <2>1 DEF CodecType, modeVars
  <2> QED BY <1>1, <1>2, <1>3, <1>6, <2>1, <2>2, HandlerStep
<1> QED BY <1>7, <1>8 DEF onInputBufferFilled

LEMMA DisposesPlain ==
    ASSUME NEW b \in OutBufs
    PROVE  /\ Disposes(b) \in Seq(Plain)
           /\ Disposes(b) = <<>> \/ acodec \notin {"Loaded", "IdleToLoaded"}
<1>1. b \in Bufs /\ "fill" \in BufOps \ {"use"} /\ "free" \in BufOps \ {"use"}
  BY DEF Bufs, BufOps
<1>2. <<Call("fill", b, NULL)>> \in Seq(Plain)
  BY <1>1, OnePlain
<1>3. <<Call("free", b, NULL)>> \in Seq(Plain)
  BY <1>1, OnePlain
<1>4. <<>> \in Seq(Plain)
  BY EmptySeq
<1>5. PICK mode : mode = PortMode("out")
  OBVIOUS
<1>6. mode # "KEEP" => acodec \notin {"Loaded", "IdleToLoaded"}
  BY <1>5 DEF PortMode
<1>7. mode \in {"RESUBMIT", "FREE", "KEEP"}
  BY <1>5 DEF PortMode
<1>8. /\ mode = "RESUBMIT" => Disposes(b) = <<Call("fill", b, NULL)>>
      /\ mode = "FREE" => Disposes(b) = <<Call("free", b, NULL)>>
      /\ mode = "KEEP" => Disposes(b) = <<>>
  BY <1>5 DEF Disposes
<1> QED BY <1>2, <1>3, <1>4, <1>6, <1>7, <1>8

LEMMA OutputDrainedStep ==
    ASSUME CodecInv, NEW b \in OutBufs, onOutputBufferDrained(b)
    PROVE  CodecInv'
<1>1. /\ calls = <<>> /\ mStatus[b] = "DOWNSTREAM"
      /\ mStatus' = [mStatus EXCEPT ![b] = "US"]
      /\ UNCHANGED <<compVars, mBuffers, modeVars, mDeferredQueue, flushes,
                     sessions>>
  BY DEF onOutputBufferDrained, MediaCodecReplies, Ready
<1>2. /\ UNCHANGED <<m_state, m_flags, portVars, headVars, ev, m_cmd_lock,
                     toFlush, drvVars, mBuffers>>
      /\ cb' = cb
  BY <1>1 DEF compVars
<1>3. CodecType /\ cb \in Seq(Callback)
  BY Typing, CodecTyping
<1>4. b \in Bufs
  BY DEF Bufs
<1>5. /\ mStatus' \in [Bufs -> {"US", "COMPONENT", "UPSTREAM", "DOWNSTREAM"}]
      /\ \A c \in Bufs : Held(c)' <= Held(c)
  BY <1>1, <1>4, HeldLess
<1>6. \A c \in Bufs : Count(cb', c) + Held(c)' <= Count(cb, c) + Held(c)
  <2>1. \A c \in Bufs : Count(cb, c) \in Nat
    BY <1>3, CountFacts
  <2>2. \A c \in Bufs : Held(c) \in Nat /\ Held(c)' \in Nat
    BY DEF Held
  <2> QED BY <1>2, <1>5, <2>1, <2>2
<1>7. CASE calls' = Disposes(b) /\ UNCHANGED <<acodec, mState>>
  <2>1. /\ calls' \in Seq(Plain)
        /\ calls' = <<>> \/ acodec' \notin {"Loaded", "IdleToLoaded"}
    BY <1>7, DisposesPlain
  <2>2. CodecType'
    BY <1>1, <1>3, <1>5, <1>7 DEF CodecType, modeVars
  <2> QED BY <1>1, <1>2, <1>3, <1>6, <1>7, <2>1, <2>2, PlainStep
<1>8. CASE IfWeOwn(WeOwnAllWith(mStatus'), mFlushComplete, mComponentNowIdle)
  <2>1. /\ CallOK' /\ LifeOK'
        /\ acodec' \in {"Loaded", "LoadedToIdle", "IdleToExecuting",
                        "Executing", "OutputPortSettingsChanged", "Flushing",
                        "ExecutingToIdle", "IdleToLoaded"}
        /\ mState' \in {"CONFIGURED", "STARTING", "STARTED", "FLUSHING",
                        "STOPPING"}
    BY <1>1, <1>8, IfWeOwnFacts
  <2>2. CodecType'
    BY <1>1, <1>3, <1>5, <2>1 DEF CodecType, modeVars
  <2> QED BY <1>1, <1>2, <1>3, <1>6, <2>1, <2>2, HandlerStep
<1> QED BY <1>7, <1>8 DEF onOutputBufferDrained

(* The callbacks.                                                          *)
LEMMA CallbackFacts ==
    ASSUME CodecInv, NEW what, OnCallback(what)
    PROVE  /\ calls = <<>> /\ cb \in Seq(Callback) /\ cb' \in Seq(Callback)
           /\ UNCHANGED <<m_state, m_flags, portVars, headVars, ev, m_cmd_lock,
                          toFlush, drvVars, mBuffers>>
           /\ \A b : /\ Count(cb, b) = (IF Head(cb).p1 = b THEN 1 ELSE 0)
                                          + Count(cb', b)
                     /\ Count(cb', b) \in Nat
<1>1. /\ calls = <<>> /\ cb # <<>> /\ cb' = Tail(cb) /\ cb \in Seq(Callback)
      /\ UNCHANGED <<m_state, m_flags, portVars, headVars, ev, m_cmd_lock,
                     toFlush, drvVars, mBuffers>>
  BY Typing DEF OnCallback, Ready
<1>2. cb' \in Seq(Callback)
  BY <1>1, HeadTailProperties
<1>3. \A b : Count(cb, b) = (IF Head(cb).p1 = b THEN 1 ELSE 0) + Count(cb', b)
  BY <1>1, CountFacts
<1>4. \A b : Count(cb', b) \in Nat
  BY <1>2, CountFacts
<1> QED BY <1>1, <1>2, <1>3, <1>4

LEMMA CallbackGone ==
    ASSUME CodecInv, NEW what, OnCallback(what),
           \A b \in Bufs : Held(b)' <= Held(b)
    PROVE  \A b \in Bufs : Count(cb', b) + Held(b)' <= Count(cb, b) + Held(b)
<1>1. \A b : /\ Count(cb, b) = (IF Head(cb).p1 = b THEN 1 ELSE 0)
                                  + Count(cb', b)
             /\ Count(cb', b) \in Nat
  BY CallbackFacts
<1>2. \A b \in Bufs : Held(b) \in Nat /\ Held(b)' \in Nat
  BY DEF Held
<1> QED BY <1>1, <1>2

LEMMA BufferBack ==
    ASSUME CodecInv, NEW what, OnCallback(what), NEW b \in Bufs,
           b = Head(cb).p1, HasBuffer(b),
           NEW v \in {"US", "UPSTREAM", "DOWNSTREAM"},
           mStatus' = [mStatus EXCEPT ![b] = v]
    PROVE  /\ mStatus' \in [Bufs -> {"US", "COMPONENT", "UPSTREAM",
                                     "DOWNSTREAM"}]
           /\ \A c \in Bufs : Count(cb', c) + Held(c)' <= Count(cb, c) + Held(c)
<1>1. mStatus \in [Bufs -> {"US", "COMPONENT", "UPSTREAM", "DOWNSTREAM"}]
  BY CodecTyping
<1>2. mStatus' \in [Bufs -> {"US", "COMPONENT", "UPSTREAM", "DOWNSTREAM"}]
  BY <1>1
<1>3. /\ mBuffers' = mBuffers
      /\ \A c : /\ Count(cb, c) = (IF b = c THEN 1 ELSE 0) + Count(cb', c)
                /\ Count(cb', c) \in Nat
  BY CallbackFacts
<1>4. ASSUME NEW c \in Bufs
      PROVE  Count(cb', c) + Held(c)' <= Count(cb, c) + Held(c)
  <2>1. Owned(PortOf(c))' = Owned(PortOf(c))
    BY <1>3 DEF Owned
  <2>2. Held(c)' \in {0, 1} /\ Held(c) \in {0, 1}
    BY DEF Held
  <2>3. CASE c = b
    BY <1>3, <2>2, <2>3
  <2>4. CASE c # b
    <3>1. mStatus'[c] = mStatus[c]
      BY <1>1, <2>4
    <3>2. Held(c)' = Held(c)
      BY <2>1, <3>1 DEF Held
    <3> QED BY <1>3, <2>2, <2>4, <3>2
  <2> QED BY <2>3, <2>4
<1> QED BY <1>2, <1>4

LEMMA EmptyDoneStep ==
    ASSUME CodecInv, onOMXEmptyBufferDone
    PROVE  CodecInv'
<1>1. PICK b \in Bufs : b = Head(cb).p1
  BY DEF onOMXEmptyBufferDone, Bufs
<1>2. PICK v \in {"US", "UPSTREAM", "DOWNSTREAM"} :
        /\ OnCallback("BUFFER_DONE") /\ HasBuffer(b)
        /\ mStatus' = [mStatus EXCEPT ![b] = v]
        /\ UNCHANGED <<acodec, calls, modeVars, mDeferredQueue, mState, requests>>
  BY <1>1 DEF onOMXEmptyBufferDone
<1>3. /\ mStatus' \in [Bufs -> {"US", "COMPONENT", "UPSTREAM", "DOWNSTREAM"}]
      /\ \A c \in Bufs : Count(cb', c) + Held(c)' <= Count(cb, c) + Held(c)
  BY <1>1, <1>2, BufferBack
<1>4. /\ calls = <<>> /\ cb' \in Seq(Callback)
      /\ UNCHANGED <<m_state, m_flags, portVars, headVars, ev, m_cmd_lock,
                     toFlush, drvVars, mBuffers>>
  BY <1>2, CallbackFacts
<1>5. CodecType'
  BY <1>2, <1>3, <1>4, CodecTyping DEF CodecType, modeVars
<1>6. calls' = <<>> /\ acodec' = acodec /\ calls' \in Seq(Plain)
  BY <1>2, <1>4, EmptySeq
<1> QED BY <1>3, <1>4, <1>5, <1>6, PlainStep

LEMMA FillDoneStep ==
    ASSUME CodecInv, onOMXFillBufferDone
    PROVE  CodecInv'
<1>1. PICK b \in OutBufs : b = Head(cb).p1 /\ b \in Bufs
  BY DEF onOMXFillBufferDone, Bufs
<1>2. PICK v \in {"US", "UPSTREAM", "DOWNSTREAM"} :
        /\ OnCallback("BUFFER_DONE") /\ HasBuffer(b)
        /\ mStatus' = [mStatus EXCEPT ![b] = v]
        /\ calls' = <<>> \/ calls' = Disposes(b)
        /\ UNCHANGED <<acodec, modeVars, mDeferredQueue, mState, requests>>
  BY <1>1 DEF onOMXFillBufferDone
<1>3. /\ mStatus' \in [Bufs -> {"US", "COMPONENT", "UPSTREAM", "DOWNSTREAM"}]
      /\ \A c \in Bufs : Count(cb', c) + Held(c)' <= Count(cb, c) + Held(c)
  BY <1>1, <1>2, BufferBack
<1>4. /\ calls = <<>> /\ cb' \in Seq(Callback)
      /\ UNCHANGED <<m_state, m_flags, portVars, headVars, ev, m_cmd_lock,
                     toFlush, drvVars, mBuffers>>
  BY <1>2, CallbackFacts
<1>5. CodecType'
  BY <1>2, <1>3, <1>4, CodecTyping DEF CodecType, modeVars
<1>6. /\ calls' \in Seq(Plain) /\ acodec' = acodec
      /\ calls' = <<>> \/ acodec' \notin {"Loaded", "IdleToLoaded"}
  BY <1>2, DisposesPlain, EmptySeq
<1> QED BY <1>3, <1>4, <1>5, <1>6, PlainStep

LEMMA SettingsStep ==
    ASSUME CodecInv, OnSettingsChanged
    PROVE  CodecInv'
<1>1. /\ OnCallback("SETTINGS") /\ UNCHANGED <<mState, requests>>
  BY DEF OnSettingsChanged
<1>2. /\ calls = <<>> /\ cb' \in Seq(Callback)
      /\ UNCHANGED <<m_state, m_flags, portVars, headVars, ev, m_cmd_lock,
                     toFlush, drvVars, mBuffers>>
  BY <1>1, CallbackFacts
<1>3. CASE acodec = "Executing" /\ ExecutingHandles("settings")
  <2>1. /\ calls' \in Seq(Plain) /\ CodecType'
        /\ acodec' \notin {"Loaded", "IdleToLoaded"}
        /\ \A b \in Bufs : Held(b)' <= Held(b)
    BY <1>1, <1>2, <1>3, ExecutingFacts
  <2>2. \A b \in Bufs : Count(cb', b) + Held(b)' <= Count(cb, b) + Held(b)
    BY <1>1, <2>1, CallbackGone
  <2> QED BY <1>2, <2>1, <2>2, PlainStep
<1>4. CASE UNCHANGED <<acodec, calls, mStatus, modeVars>>
  <2>1. CodecType'
    BY <1>1, <1>2, <1>4, CodecTyping DEF CodecType, modeVars
  <2>2. \A b \in Bufs : Held(b)' <= Held(b)
    BY <1>2, <1>4, HeldSame
  <2>3. \A b \in Bufs : Count(cb', b) + Held(b)' <= Count(cb, b) + Held(b)
    BY <1>1, <2>2, CallbackGone
  <2>4. calls' = <<>> /\ acodec' = acodec /\ calls' \in Seq(Plain)
    BY <1>2, <1>4, EmptySeq
  <2> QED BY <1>2, <2>1, <2>3, <2>4, PlainStep
<1> QED BY <1>3, <1>4 DEF OnSettingsChanged

(* The completions.  A handler that sends or submits, by mode.             *)
LEMMA PlainDone ==
    ASSUME CodecInv, OnCallback("CMD_COMPLETE"), UNCHANGED <<mStatus, mState>>,
           UNCHANGED modeVars, calls' \in Seq(Plain),
           acodec' \in {"IdleToExecuting", "Executing"}
    PROVE  CodecInv'
<1>1. /\ calls = <<>> /\ cb' \in Seq(Callback)
      /\ UNCHANGED <<m_state, m_flags, portVars, headVars, ev, m_cmd_lock,
                     toFlush, drvVars, mBuffers>>
  BY CallbackFacts
<1>2. CodecType'
  BY <1>1, CodecTyping DEF CodecType, modeVars
<1>3. \A b \in Bufs : Held(b)' <= Held(b)
  BY <1>1, HeldSame
<1>4. \A b \in Bufs : Count(cb', b) + Held(b)' <= Count(cb, b) + Held(b)
  BY <1>3, CallbackGone
<1> QED BY <1>1, <1>2, <1>4, PlainStep

LEMMA LoadedToIdleDoneStep ==
    ASSUME CodecInv, LoadedToIdleDone
    PROVE  CodecInv'
<1>1. /\ OnCallback("CMD_COMPLETE") /\ acodec' = "IdleToExecuting"
      /\ UNCHANGED modeVars /\ UNCHANGED <<mStatus, mState>>
      /\ calls' = sendCommand("StateSet", "Executing")
  BY DEF LoadedToIdleDone, Enter
<1>2. calls' \in Seq(Plain)
  BY <1>1, SendPlain DEF Names, Args, States
<1> QED BY <1>1, <1>2, PlainDone

LEMMA OutputPortEnabledStep ==
    ASSUME CodecInv, OutputPortEnabled
    PROVE  CodecInv'
<1>1. /\ OnCallback("CMD_COMPLETE") /\ acodec' = "Executing"
      /\ UNCHANGED modeVars /\ UNCHANGED <<mStatus, mState>>
      /\ calls' = submitOutputBuffers \/ calls' = <<>>
  BY DEF OutputPortEnabled, Enter
<1>2. calls' \in Seq(Plain)
  BY <1>1, SubmitPlain, EmptySeq
<1> QED BY <1>1, <1>2, PlainDone

LEMMA IdleToExecutingDoneStep ==
    ASSUME CodecInv, IdleToExecutingDone
    PROVE  CodecInv'
<1>1. /\ OnCallback("CMD_COMPLETE") /\ Resume /\ acodec' = "Executing"
      /\ UNCHANGED <<mFlushComplete, mComponentNowIdle, mState>>
  BY DEF IdleToExecutingDone
<1>2. /\ calls = <<>> /\ cb' \in Seq(Callback)
      /\ UNCHANGED <<m_state, m_flags, portVars, headVars, ev, m_cmd_lock,
                     toFlush, drvVars, mBuffers>>
  BY <1>1, CallbackFacts
<1>3. /\ calls' \in Seq(Plain)
      /\ mStatus' \in [Bufs -> {"US", "COMPONENT", "UPSTREAM", "DOWNSTREAM"}]
      /\ mActive' \in BOOLEAN
      /\ \A b \in Bufs : Held(b)' <= Held(b)
  BY <1>1, <1>2, ResumeFacts
<1>4. CodecType'
  BY <1>1, <1>2, <1>3, CodecTyping DEF CodecType
<1>5. \A b \in Bufs : Count(cb', b) + Held(b)' <= Count(cb, b) + Held(b)
  BY <1>1, <1>3, CallbackGone
<1> QED BY <1>1, <1>2, <1>3, <1>4, <1>5, PlainStep

LEMMA OutputPortDisabledStep ==
    ASSUME CodecInv, OutputPortDisabled
    PROVE  CodecInv'
<1>1. /\ OnCallback("CMD_COMPLETE") /\ mBuffers["out"] = <<>>
      /\ acodec = "OutputPortSettingsChanged"
      /\ calls' = sendCommand("PortEnable", "out")
                     \o allocateBuffersOnPort("out")
      /\ UNCHANGED <<acodec, mStatus, modeVars, mState>>
  BY DEF OutputPortDisabled
<1>2. /\ calls = <<>> /\ cb' \in Seq(Callback)
      /\ UNCHANGED <<m_state, m_flags, portVars, headVars, ev, m_cmd_lock,
                     toFlush, drvVars, mBuffers>>
  BY <1>1, CallbackFacts
<1>3. CallOK'
  <2>1. PICK s : s = sendCommand("PortEnable", "out") /\ Alloc(s, {})
    BY AllocSend DEF Names, Args, Ports
  <2>2. PICK o : o = allocateBuffersOnPort("out") /\ Alloc(o, OutBufs)
    BY AllocPort DEF Ports, BufsOf
  <2>3. Alloc(s \o o, {} \cup OutBufs)
    BY <2>1, <2>2, AllocConcat
  <2>4. {} \cup OutBufs = OutBufs
    OBVIOUS
  <2>5. Alloc(calls', OutBufs)
    BY <1>1, <2>1, <2>2, <2>3, <2>4
  <2>6. Owned("out") = {}
    BY <1>1 DEF Owned, Entries
  <2>7. Compact("out")
    BY <2>6, CompactEmpty DEF Ports
  <2>8. Owned("out")' = Owned("out") /\ Compact("out")' = Compact("out")
    BY <1>2 DEF Owned, Compact, headVars
  <2>9. \A b \in OutBufs : PortOf(b) = "out"
    BY BufsFacts DEF Ports, BufsOf
  <2>10. \A b \in OutBufs : b \notin Owned(PortOf(b))' /\ Compact(PortOf(b))'
    BY <2>6, <2>7, <2>8, <2>9
  <2> QED BY <2>5, <2>10, AllocCallOK
<1>4. LifeOK'
  BY <1>1 DEF LifeOK
<1>5. CodecType'
  BY <1>1, <1>2, CodecTyping DEF CodecType, modeVars
<1>6. \A b \in Bufs : Held(b)' <= Held(b)
  BY <1>1, <1>2, HeldSame
<1>7. \A b \in Bufs : Count(cb', b) + Held(b)' <= Count(cb, b) + Held(b)
  BY <1>1, <1>6, CallbackGone
<1> QED BY <1>2, <1>3, <1>4, <1>5, <1>7, HandlerStep

LEMMA WaitsDoneStep ==
    ASSUME CodecInv, ExecutingToIdleDone \/ \E p \in Ports : PortFlushed(p)
    PROVE  CodecInv'
<1>1. PICK all, done, idle :
        /\ OnCallback("CMD_COMPLETE") /\ IfWeOwn(all, done, idle)
        /\ UNCHANGED <<mStatus, mActive>>
        /\ mComponentNowIdle' = mComponentNowIdle \/ mComponentNowIdle' = TRUE
        /\ \/ mFlushComplete' = mFlushComplete
           \/ \E p \in Ports : mFlushComplete' = mFlushComplete \cup {p}
  <2>1. CASE ExecutingToIdleDone
    BY <2>1 DEF ExecutingToIdleDone
  <2>2. CASE \E p \in Ports : PortFlushed(p)
    BY <2>2 DEF PortFlushed
  <2> QED BY <2>1, <2>2
<1>2. /\ calls = <<>> /\ cb' \in Seq(Callback)
      /\ UNCHANGED <<m_state, m_flags, portVars, headVars, ev, m_cmd_lock,
                     toFlush, drvVars, mBuffers>>
  BY <1>1, CallbackFacts
<1>3. /\ CallOK' /\ LifeOK'
      /\ acodec' \in {"Loaded", "LoadedToIdle", "IdleToExecuting",
                      "Executing", "OutputPortSettingsChanged", "Flushing",
                      "ExecutingToIdle", "IdleToLoaded"}
      /\ mState' \in {"CONFIGURED", "STARTING", "STARTED", "FLUSHING",
                      "STOPPING"}
  BY <1>1, <1>2, IfWeOwnFacts
<1>4. CodecType'
  <2>1. mFlushComplete' \subseteq Ports
    BY <1>1, CodecTyping DEF CodecType
  <2>2. mComponentNowIdle' \in BOOLEAN
    BY <1>1, CodecTyping DEF CodecType
  <2> QED BY <1>1, <1>2, <1>3, <2>1, <2>2, CodecTyping DEF CodecType
<1>5. \A b \in Bufs : Held(b)' <= Held(b)
  BY <1>1, <1>2, HeldSame
<1>6. \A b \in Bufs : Count(cb', b) + Held(b)' <= Count(cb, b) + Held(b)
  BY <1>1, <1>5, CallbackGone
<1> QED BY <1>2, <1>3, <1>4, <1>6, HandlerStep

(* All the calls that free buffers are made when IdleToLoaded is left.     *)
LEMMA IdleToLoadedDoneStep ==
    ASSUME CodecInv, IdleToLoadedDone
    PROVE  CodecInv'
<1>1. /\ OnCallback("CMD_COMPLETE") /\ acodec = "IdleToLoaded"
      /\ acodec' = "Loaded" /\ UNCHANGED modeVars /\ mState' = "CONFIGURED"
      /\ UNCHANGED <<calls, mStatus>>
  BY DEF IdleToLoadedDone, Enter
<1>2. /\ calls = <<>> /\ cb' \in Seq(Callback)
      /\ UNCHANGED <<m_state, m_flags, portVars, headVars, ev, m_cmd_lock,
                     toFlush, drvVars, mBuffers>>
  BY <1>1, CallbackFacts
<1>3. CallOK'
  BY <1>1, <1>2, PlainCalls, EmptySeq
<1>4. LifeOK'
  <2>1. calls' = <<>> /\ Len(calls) = 0 /\ Len(calls') = 0
    BY <1>1, <1>2
  <2>2. ToFree = {}
    BY <2>1 DEF ToFree
  <2>3. \A p \in Ports : Owned(p) = {}
    BY <1>1, <2>2 DEF CodecInv, LifeOK
  <2>4. \A p \in Ports : Owned(p)' = Owned(p)
    BY <1>2 DEF Owned
  <2> QED BY <1>1, <2>1, <2>3, <2>4 DEF LifeOK
<1>5. CodecType'
  BY <1>1, <1>2, CodecTyping DEF CodecType, modeVars
<1>6. \A b \in Bufs : Held(b)' <= Held(b)
  BY <1>1, <1>2, HeldSame
<1>7. \A b \in Bufs : Count(cb', b) + Held(b)' <= Count(cb, b) + Held(b)
  BY <1>1, <1>6, CallbackGone
<1> QED BY <1>2, <1>3, <1>4, <1>5, <1>7, HandlerStep

LEMMA OnComponentPreserves ==
    ASSUME CodecInv, OnComponent
    PROVE  CodecInv'
BY EmptyDoneStep, FillDoneStep, SettingsStep, LoadedToIdleDoneStep,
   IdleToExecutingDoneStep, OutputPortDisabledStep, OutputPortEnabledStep,
   WaitsDoneStep, IdleToLoadedDoneStep DEF OnComponent, OnCmdComplete

-------------------------------------------------------------------------------
(* The OMX calls.  The calls that are left, once the first is made.        *)
LEMMA HeadCall ==
    ASSUME CodecInv, calls # <<>>
    PROVE  /\ Len(calls) \in Nat \ {0} /\ Head(calls) = calls[1]
           /\ calls[1] \in CallType
           /\ Tail(calls) \in Seq(CallType) /\ Len(Tail(calls)) = Len(calls) - 1
           /\ \A i \in 1..(Len(calls) - 1) :
                /\ Tail(calls)[i] = calls[i + 1] /\ i + 1 \in 1..Len(calls)
                /\ calls[i + 1].op # "sem_wait" /\ i + 1 # 1
<1>1. /\ calls \in Seq(CallType)
      /\ \A i \in 1..Len(calls) : calls[i].op = "sem_wait" => i = 1
  BY DEF CodecInv, CallOK
<1>2. Len(calls) \in Nat \ {0} /\ Head(calls) = calls[1]
  BY <1>1, EmptySeq
<1>3. calls[1] \in CallType
  BY <1>1, <1>2
<1>4. /\ Tail(calls) \in Seq(CallType) /\ Len(Tail(calls)) = Len(calls) - 1
      /\ \A i \in 1..(Len(calls) - 1) : Tail(calls)[i] = calls[i + 1]
  BY <1>1, <1>2, HeadTailProperties
<1>5. \A i \in 1..(Len(calls) - 1) : i + 1 \in 1..Len(calls) /\ i + 1 # 1
  BY <1>2
<1> QED BY <1>1, <1>2, <1>3, <1>4, <1>5

LEMMA TailCallOK ==
    ASSUME CodecInv, calls # <<>>, calls' = Tail(calls),
           UNCHANGED <<headVars, mBuffers>>
    PROVE  CallOK'
<1>1. /\ Len(calls) \in Nat \ {0} /\ calls' \in Seq(CallType)
      /\ Len(calls') = Len(calls) - 1
      /\ \A i \in 1..(Len(calls) - 1) :
           /\ calls'[i] = calls[i + 1] /\ i + 1 \in 1..Len(calls)
           /\ calls[i + 1].op # "sem_wait"
  BY HeadCall
<1>2. \A p : Owned(p)' = Owned(p) /\ Compact(p)' = Compact(p)
  BY DEF Owned, Compact, headVars
<1>3. ASSUME NEW i \in 1..Len(calls') PROVE UseOK(i)'
  <2>1. UseOK(i + 1)
    BY <1>1 DEF CodecInv, CallOK
  <2>2. ASSUME NEW j \in 1..Len(calls'), calls'[i].op = "use"
        PROVE  /\ calls'[j].op \notin {"free", "free_not_owned"}
               /\ calls'[j].op = "use" /\ calls'[j].x = calls'[i].x => j = i
    <3>1. calls'[i] = calls[i + 1] /\ calls'[j] = calls[j + 1]
          /\ j + 1 \in 1..Len(calls)
      BY <1>1
    <3>2. /\ calls[j + 1].op \notin {"free", "free_not_owned"}
          /\ calls[j + 1].op = "use" /\ calls[j + 1].x = calls[i + 1].x
               => j + 1 = i + 1
      BY <2>1, <2>2, <3>1 DEF UseOK
    <3> QED BY <3>1, <3>2
  <2>3. calls'[i] = calls[i + 1]
    BY <1>1
  <2> QED BY <1>2, <2>1, <2>2, <2>3 DEF UseOK
<1> QED BY <1>1, <1>3 DEF CallOK

(* The buffers still to be freed, when the first call is made.             *)
LEMMA TailFrees ==
    ASSUME CodecInv, calls # <<>>, calls' = Tail(calls)
    PROVE  /\ \A b \in ToFree : b \in ToFree' \/ (calls[1].op = "free"
                                                    /\ b = calls[1].x)
           /\ (\A i \in 1..Len(calls) : calls[i].op # "use")
                => \A i \in 1..Len(calls') : calls'[i].op # "use"
<1>1. /\ Len(calls) \in Nat \ {0} /\ Len(calls') = Len(calls) - 1
      /\ \A i \in 1..(Len(calls) - 1) :
           calls'[i] = calls[i + 1] /\ i + 1 \in 1..Len(calls)
  BY HeadCall
<1>2. ASSUME NEW b \in ToFree, b \notin ToFree'
      PROVE  calls[1].op = "free" /\ b = calls[1].x
  <2>1. PICK k \in 1..Len(calls) : calls[k].op = "free" /\ calls[k].x = b
    BY <1>2 DEF ToFree
  <2>2. CASE k = 1
    BY <2>1, <2>2
  <2>3. CASE k # 1
    <3>1. PICK j \in 1..(Len(calls) - 1) : j + 1 = k
      <4>1. k - 1 \in 1..(Len(calls) - 1) /\ (k - 1) + 1 = k
        BY <1>1, <2>3
      <4> QED BY <4>1
    <3>2. j \in 1..Len(calls') /\ calls'[j].op = "free" /\ calls'[j].x = b
      BY <1>1, <2>1, <3>1
    <3>3. b \in ToFree'
      BY <3>2 DEF ToFree
    <3> QED BY <1>2, <3>3
  <2> QED BY <2>2, <2>3
<1> QED BY <1>1, <1>2

LEMMA TailLifeOK ==
    ASSUME CodecInv, calls # <<>>, calls' = Tail(calls), acodec' = acodec,
           \A p \in Ports : Owned(p)' \subseteq Owned(p),
           calls[1].op = "free" => \A p \in Ports : calls[1].x \notin Owned(p)'
    PROVE  LifeOK'
<1>1. LifeOK
  BY DEF CodecInv
<1>2. /\ \A b \in ToFree : b \in ToFree' \/ (calls[1].op = "free"
                                               /\ b = calls[1].x)
      /\ (\A i \in 1..Len(calls) : calls[i].op # "use")
           => \A i \in 1..Len(calls') : calls'[i].op # "use"
  BY TailFrees
<1> QED BY <1>1, <1>2 DEF LifeOK

(* No command is under way when another call than sem_wait is the first.   *)
LEMMA NoCommand ==
    ASSUME CodecInv, calls # <<>>, calls[1].op # "sem_wait"
    PROVE  Commands(ev.cmd) = 0 /\ m_cmd_lock = 0
<1>1. Commands(ev.cmd) \in Nat /\ m_cmd_lock \in Nat
  BY Typing
<1>2. ~Makes("sem_wait")
  BY HeadCall DEF Makes
<1>3. Commands(ev.cmd) + m_cmd_lock <= 0
  BY <1>2 DEF CodecInv, CommandOK
<1> QED BY <1>1, <1>3

(* A call that leaves the headers alone.                                   *)
LEMMA CallStep ==
    ASSUME CodecInv, calls # <<>>, calls' = Tail(calls),
           UNCHANGED <<m_state, m_flags, portVars, headVars, toFlush, drvVars,
                       mBuffers, cb, acodec, modeVars, userVars>>,
           calls[1].op \notin {"use", "free"}, ev' \in EvType,
           Commands(ev'.cmd) = 0, m_cmd_lock' = 0,
           mStatus' \in [Bufs -> {"US", "COMPONENT", "UPSTREAM", "DOWNSTREAM"}],
           \A b \in Bufs : EvWeight(ev', b) + Held(b)' <= EvWeight(ev, b) + Held(b)
    PROVE  CodecInv'
<1>1. CallOK'
  BY TailCallOK
<1>2. LifeOK'
  <2>1. \A p \in Ports : Owned(p)' = Owned(p)
    BY DEF Owned
  <2> QED BY <2>1, TailLifeOK
<1>3. CodecType'
  BY CodecTyping DEF CodecType, modeVars, userVars
<1>4. CommandOK'
  <2>1. 0 + 0 <= IF Makes("sem_wait")' THEN 1 ELSE 0
    OBVIOUS
  <2> QED BY <2>1 DEF CommandOK
<1>5. m_cmd_lock' \in 0..1 /\ cb \in Seq(Callback) /\ cb' \in Seq(Callback)
      /\ ev \in EvType /\ msgs \in Seq(Msg)
  BY Typing
<1>6. ASSUME NEW b \in Bufs
      PROVE  EvWeight(ev', b) + Count(cb', b) + Held(b)'
               <= EvWeight(ev, b) + Count(cb, b) + Held(b)
  <2>1. /\ EvWeight(ev, b) \in Nat /\ EvWeight(ev', b) \in Nat
        /\ Count(cb, b) \in Nat /\ Count(cb', b) = Count(cb, b)
    BY <1>5, WeightFacts
  <2>2. Held(b) \in Nat /\ Held(b)' \in Nat
    BY DEF Held
  <2> QED BY <2>1, <2>2
<1> QED BY <1>1, <1>2, <1>3, <1>4, <1>5, <1>6, CodecStep

LEMMA PassOverStep ==
    ASSUME CodecInv, PassOver
    PROVE  CodecInv'
<1>1. /\ calls # <<>> /\ Head(calls).op = "free_not_owned"
      /\ calls' = Tail(calls)
      /\ UNCHANGED <<compVars, acodec, callVars, modeVars, mDeferredQueue,
                     userVars>>
  BY DEF PassOver, Makes
<1>2. calls[1].op = "free_not_owned"
  BY <1>1, HeadCall
<1>3. Commands(ev.cmd) = 0 /\ m_cmd_lock = 0
  BY <1>1, <1>2, NoCommand
<1>4. /\ UNCHANGED <<m_state, m_flags, portVars, headVars, toFlush, drvVars,
                     mBuffers, cb, acodec, modeVars, userVars>>
      /\ ev' = ev /\ m_cmd_lock' = m_cmd_lock /\ mStatus' = mStatus
  BY <1>1 DEF compVars, callVars
<1>5. /\ ev \in EvType /\ cb \in Seq(Callback) /\ msgs \in Seq(Msg)
      /\ mStatus \in [Bufs -> {"US", "COMPONENT", "UPSTREAM", "DOWNSTREAM"}]
  BY Typing, CodecTyping
<1>6. \A b \in Bufs : EvWeight(ev', b) + Held(b)' <= EvWeight(ev, b) + Held(b)
  <2>1. \A b \in Bufs : EvWeight(ev, b) \in Nat
    BY <1>5, WeightFacts
  <2>2. \A b \in Bufs : Held(b) \in Nat /\ Held(b)' = Held(b)
    BY <1>4 DEF Held, Owned
  <2> QED BY <1>4, <2>1, <2>2
<1>7. calls[1].op \notin {"use", "free"}
  BY <1>2
<1>8. ev' \in EvType /\ Commands(ev'.cmd) = 0 /\ m_cmd_lock' = 0
      /\ mStatus' \in [Bufs -> {"US", "COMPONENT", "UPSTREAM", "DOWNSTREAM"}]
  BY <1>3, <1>4, <1>5
<1> QED BY <1>1, <1>4, <1>6, <1>7, <1>8, CallStep

LEMMA CommandTakenByClient ==
    ASSUME CodecInv, CommandTaken
    PROVE  CodecInv'
<1>1. /\ calls # <<>> /\ Head(calls).op = "sem_wait" /\ m_cmd_lock > 0
      /\ m_cmd_lock' = m_cmd_lock - 1 /\ calls' = Tail(calls)
      /\ UNCHANGED <<m_state, m_flags, portVars, headVars, ev, toFlush, drvVars,
                     cb, acodec, callVars, modeVars, mDeferredQueue, userVars>>
  BY DEF CommandTaken, Makes
<1>2. calls[1].op = "sem_wait"
  BY <1>1, HeadCall
<1>3. Commands(ev.cmd) = 0 /\ m_cmd_lock = 1
  <2>1. Commands(ev.cmd) \in Nat /\ m_cmd_lock \in Nat
    BY Typing
  <2>2. Commands(ev.cmd) + m_cmd_lock <= 1
    BY <2>1 DEF CodecInv, CommandOK
  <2> QED BY <1>1, <2>1, <2>2
<1>4. /\ UNCHANGED <<m_state, m_flags, portVars, headVars, toFlush, drvVars,
                     mBuffers, cb, acodec, modeVars, userVars>>
      /\ ev' = ev /\ mStatus' = mStatus
  BY <1>1 DEF callVars
<1>5. /\ ev \in EvType /\ cb \in Seq(Callback) /\ msgs \in Seq(Msg)
      /\ mStatus \in [Bufs -> {"US", "COMPONENT", "UPSTREAM", "DOWNSTREAM"}]
  BY Typing, CodecTyping
<1>6. \A b \in Bufs : EvWeight(ev', b) + Held(b)' <= EvWeight(ev, b) + Held(b)
  <2>1. \A b \in Bufs : EvWeight(ev, b) \in Nat
    BY <1>5, WeightFacts
  <2>2. \A b \in Bufs : Held(b) \in Nat /\ Held(b)' = Held(b)
    BY <1>4 DEF Held, Owned
  <2> QED BY <1>4, <2>1, <2>2
<1>7. calls[1].op \notin {"use", "free"}
  BY <1>2
<1>8. ev' \in EvType /\ Commands(ev'.cmd) = 0 /\ m_cmd_lock' = 0
      /\ mStatus' \in [Bufs -> {"US", "COMPONENT", "UPSTREAM", "DOWNSTREAM"}]
  BY <1>1, <1>3, <1>4, <1>5
<1> QED BY <1>1, <1>4, <1>6, <1>7, <1>8, CallStep

(* A set of numbers up to n has a largest one.                             *)
LEMMA MaxFacts ==
    ASSUME NEW n \in Nat, NEW S \in SUBSET (1..n), S # {}
    PROVE  Max(S) \in S
<1>1. PICK R : IsWellFoundedOn(R, Nat) /\ \A x, y \in Nat : x < y => <<x, y>> \in R
  <2>1. \A x, y \in Nat : x < y => <<x, y>> \in OpToRel(<, Nat)
    BY DEF OpToRel
  <2> QED BY <2>1, NatLessThanWellFounded, Zenon
<1>2. PICK T : T = {n - i : i \in S}
  OBVIOUS
<1>3. T \subseteq Nat /\ T # {}
  <2>1. \A i \in S : n - i \in Nat
    OBVIOUS
  <2>2. PICK i \in S : TRUE
    OBVIOUS
  <2>3. n - i \in T
    BY <1>2
  <2> QED BY <1>2, <2>1, <2>3
<1>4. PICK x \in T : \A y \in T : ~(<<y, x>> \in R)
  <2>1. IsWellFoundedOn(R, Nat)
    BY <1>1
  <2> QED BY <1>3, <2>1, WFMin, Zenon
<1>5. PICK m \in S : x = n - m
  BY <1>2
<1>6. ASSUME NEW i \in S PROVE m >= i
  <2>1. n - i \in T
    BY <1>2
  <2>2. ~(n - i < x)
    BY <1>1, <1>3, <1>4, <2>1
  <2> QED BY <1>5, <2>2
<1> QED BY <1>6 DEF Max

(* A buffer that is submitted is ACodec's.                                 *)
LEMMA SubmitHeld ==
    ASSUME CodecInv, NEW b \in Bufs, SubmitOk(b)
    PROVE  b \in Owned(PortOf(b)) /\ mStatus[b] = "US" /\ Held(b) = 1
<1>1. Registered(b) /\ mStatus[b] = "US"
  BY DEF SubmitOk, SubmitAccepted
<1>2. b \in Owned(PortOf(b))
  BY <1>1, BufsFacts DEF CodecInv, HeadsMatch
<1> QED BY <1>1, <1>2 DEF Held

(* It goes from ACodec into a queue; no other buffer does.                 *)
LEMMA SubmitStep ==
    ASSUME CodecInv, calls # <<>>, calls' = Tail(calls),
           NEW p \in Ports, NEW b \in BufsOf(p), NEW len \in {"empty", "data"},
           calls[1].op \in {"fill", "empty"}, SubmitOk(b),
           ev' = post_event(ev, This(p), b, len),
           mStatus' \in [Bufs -> {"US", "COMPONENT", "UPSTREAM", "DOWNSTREAM"}],
           mStatus'[b] = "COMPONENT",
           \A c \in Bufs \ {b} : Held(c)' <= Held(c),
           UNCHANGED <<m_state, m_flags, portVars, headVars, m_cmd_lock,
                       toFlush, drvVars, mBuffers, cb, acodec, modeVars,
                       userVars>>
    PROVE  CodecInv'
<1>1. b \in Bufs
  BY BufsFacts
<1>2. b \in Owned(PortOf(b)) /\ Held(b) = 1
  BY <1>1, SubmitHeld
<1>3. ev \in EvType /\ msgs \in Seq(Msg) /\ cb \in Seq(Callback)
  BY Typing
<1>4. /\ ev' \in EvType /\ ev'.cmd = ev.cmd
      /\ \A c : EvWeight(ev', c) = EvWeight(ev, c) + (IF b = c THEN 1 ELSE 0)
  BY <1>3, PostBuffer
<1>5. Commands(ev.cmd) = 0 /\ m_cmd_lock = 0
  BY NoCommand
<1>6. Commands(ev'.cmd) = 0 /\ m_cmd_lock' = 0
      /\ calls[1].op \notin {"use", "free"}
  BY <1>4, <1>5
<1>7. ASSUME NEW c \in Bufs
      PROVE  EvWeight(ev', c) + Held(c)' <= EvWeight(ev, c) + Held(c)
  <2>1. EvWeight(ev, c) \in Nat
    BY <1>3, WeightFacts
  <2>2. Held(c) \in Nat /\ Held(c)' \in Nat
    BY DEF Held
  <2>3. CASE c = b
    <3>1. Held(b)' = 0
      BY DEF Held
    <3>2. EvWeight(ev', c) = EvWeight(ev, c) + 1
      BY <1>4, <2>3
    <3> QED BY <1>2, <2>1, <2>3, <3>1, <3>2
  <2>4. CASE c # b
    <3>1. EvWeight(ev', c) = EvWeight(ev, c) + 0
      BY <1>4, <2>4
    <3> QED BY <2>1, <2>2, <2>4, <3>1
  <2> QED BY <2>3, <2>4
<1> QED BY <1>4, <1>6, <1>7, CallStep

LEMMA FillBufferStep ==
    ASSUME CodecInv, FillBuffer
    PROVE  CodecInv'
<1>1. /\ calls # <<>> /\ Head(calls).op = "fill" /\ SubmitOk(Head(calls).x)
      /\ ev' = post_event(ev, "FTB", Head(calls).x, "empty")
      /\ mStatus' = [mStatus EXCEPT ![Head(calls).x] = "COMPONENT"]
      /\ calls' = Tail(calls)
      /\ UNCHANGED <<m_state, m_flags, portVars, headVars, m_cmd_lock, toFlush,
                     drvVars, cb, acodec, mBuffers, modeVars, mDeferredQueue,
                     userVars>>
  BY DEF FillBuffer, Makes
<1>2. PICK b \in OutBufs : b = Head(calls).x
  <2>1. calls[1] \in CallType /\ Head(calls) = calls[1]
    BY <1>1, HeadCall
  <2> QED BY <1>1, <2>1 DEF CallType
<1>3. calls[1].op = "fill"
  BY <1>1, HeadCall
<1>4. PICK p \in Ports : p = "out"
  BY DEF Ports
<1>5. b \in BufsOf(p) /\ This(p) = "FTB" /\ b \in Bufs
  BY <1>4 DEF BufsOf, This, Bufs
<1>6. mStatus \in [Bufs -> {"US", "COMPONENT", "UPSTREAM", "DOWNSTREAM"}]
  BY CodecTyping
<1>7. /\ mStatus' \in [Bufs -> {"US", "COMPONENT", "UPSTREAM", "DOWNSTREAM"}]
      /\ mStatus'[b] = "COMPONENT"
      /\ \A c \in Bufs \ {b} : mStatus'[c] = mStatus[c]
  BY <1>1, <1>2, <1>5, <1>6
<1>8. \A c \in Bufs \ {b} : Held(c)' <= Held(c)
  BY <1>1, <1>7 DEF Held, Owned
<1>9. ev' = post_event(ev, This(p), b, "empty") /\ SubmitOk(b)
  BY <1>1, <1>2, <1>5
<1> QED BY <1>1, <1>3, <1>5, <1>7, <1>8, <1>9, SubmitStep

(* ACodec asks for another input buffer, one it has.                       *)
LEMMA MoreInput ==
    ASSUME CodecInv, mBuffers' = mBuffers, NEW b \in InBufs,
           mStatus' = getMoreInputDataIfPossible(
                        [mStatus EXCEPT ![b] = "COMPONENT"])
    PROVE  /\ mStatus' \in [Bufs -> {"US", "COMPONENT", "UPSTREAM",
                                     "DOWNSTREAM"}]
           /\ mStatus'[b] = "COMPONENT"
           /\ \A c \in Bufs \ {b} : Held(c)' <= Held(c)
<1>1. PICK s : s = [mStatus EXCEPT ![b] = "COMPONENT"]
  OBVIOUS
<1>2. mStatus \in [Bufs -> {"US", "COMPONENT", "UPSTREAM", "DOWNSTREAM"}]
  BY CodecTyping
<1>3. /\ s \in [Bufs -> {"US", "COMPONENT", "UPSTREAM", "DOWNSTREAM"}]
      /\ s[b] = "COMPONENT" /\ \A c \in Bufs \ {b} : s[c] = mStatus[c]
  BY <1>1, <1>2 DEF Bufs
<1>4. PICK ours : ours = {i \in 1..Len(mBuffers["in"]) :
                            s[mBuffers["in"][i]] = "US"}
  OBVIOUS
<1>5. mStatus' = IF ours = {} THEN s
                 ELSE [s EXCEPT ![mBuffers["in"][Max(ours)]] = "UPSTREAM"]
  BY <1>1, <1>4 DEF getMoreInputDataIfPossible
<1>6. /\ \A c \in Bufs \ {b} :
           mStatus'[c] # "COMPONENT" => mStatus[c] # "COMPONENT"
      /\ mStatus' \in [Bufs -> {"US", "COMPONENT", "UPSTREAM", "DOWNSTREAM"}]
      /\ mStatus'[b] = "COMPONENT"
  <2>1. CASE ours = {}
    BY <1>3, <1>5, <2>1
  <2>2. CASE ours # {}
    <3>1. /\ Len(mBuffers["in"]) \in Nat
          /\ \A i \in 1..Len(mBuffers["in"]) : mBuffers["in"][i] \in Bufs
      BY BuffersFacts DEF Ports
    <3>2. Max(ours) \in ours
      BY <1>4, <2>2, <3>1, MaxFacts
    <3>3. PICK d \in Bufs : d = mBuffers["in"][Max(ours)] /\ s[d] = "US"
      BY <1>4, <3>1, <3>2
    <3>4. mStatus' = [s EXCEPT ![d] = "UPSTREAM"] /\ d # b
      BY <1>3, <1>5, <2>2, <3>3
    <3>5. /\ mStatus' \in [Bufs -> {"US", "COMPONENT", "UPSTREAM",
                                    "DOWNSTREAM"}]
          /\ mStatus'[d] = "UPSTREAM"
          /\ \A c \in Bufs : c # d => mStatus'[c] = s[c]
      BY <1>3, <3>4
    <3>6. mStatus'[b] = "COMPONENT"
      BY <1>3, <3>4, <3>5 DEF Bufs
    <3>7. ASSUME NEW c \in Bufs \ {b}, mStatus'[c] # "COMPONENT"
          PROVE  mStatus[c] # "COMPONENT"
      <4>1. c \in Bufs /\ s[c] = mStatus[c]
        BY <1>3
      <4>2. CASE c = d
        BY <3>3, <4>1, <4>2
      <4>3. CASE c # d
        BY <3>5, <3>7, <4>1, <4>3
      <4> QED BY <4>2, <4>3
    <3> QED BY <3>5, <3>6, <3>7
  <2> QED BY <2>1, <2>2
<1>7. ASSUME NEW c \in Bufs \ {b} PROVE Held(c)' <= Held(c)
  <2>1. Owned(PortOf(c))' = Owned(PortOf(c))
    BY DEF Owned
  <2>2. mStatus'[c] # "COMPONENT" => mStatus[c] # "COMPONENT"
    BY <1>6
  <2> QED BY <2>1, <2>2 DEF Held
<1> QED BY <1>6, <1>7

LEMMA EmptyBufferStep ==
    ASSUME CodecInv, EmptyBuffer
    PROVE  CodecInv'
<1>1. /\ calls # <<>> /\ Head(calls).op = "empty" /\ SubmitOk(Head(calls).x)
      /\ ev' = post_event(ev, "ETB", Head(calls).x, "data")
      /\ mStatus' = getMoreInputDataIfPossible(
                      [mStatus EXCEPT ![Head(calls).x] = "COMPONENT"])
      /\ calls' = Tail(calls)
      /\ UNCHANGED <<m_state, m_flags, portVars, headVars, m_cmd_lock, toFlush,
                     drvVars, cb, acodec, mBuffers, modeVars, mDeferredQueue,
                     userVars>>
  BY DEF EmptyBuffer, Makes
<1>2. PICK b \in InBufs : b = Head(calls).x
  <2>1. calls[1] \in CallType /\ Head(calls) = calls[1]
    BY <1>1, HeadCall
  <2> QED BY <1>1, <2>1 DEF CallType
<1>3. calls[1].op = "empty"
  BY <1>1, HeadCall
<1>4. PICK p \in Ports : p = "in"
  BY DEF Ports
<1>5. b \in BufsOf(p) /\ This(p) = "ETB"
  BY <1>4 DEF BufsOf, This
<1>6. /\ mStatus' \in [Bufs -> {"US", "COMPONENT", "UPSTREAM", "DOWNSTREAM"}]
      /\ mStatus'[b] = "COMPONENT"
      /\ \A c \in Bufs \ {b} : Held(c)' <= Held(c)
  BY <1>1, <1>2, MoreInput
<1>7. ev' = post_event(ev, This(p), b, "data") /\ SubmitOk(b)
  BY <1>1, <1>2, <1>5
<1> QED BY <1>1, <1>3, <1>5, <1>6, <1>7, SubmitStep

(* A command is sent; the client waits for it.                             *)
LEMMA SendCommandStep ==
    ASSUME CodecInv, SendCommand
    PROVE  CodecInv'
<1>1. /\ calls # <<>> /\ Head(calls).op = "send"
      /\ ev' = post_event(ev, "COMMAND", Head(calls).x, Head(calls).y)
      /\ calls' = <<Call("sem_wait", NULL, NULL)>> \o Tail(calls)
      /\ UNCHANGED <<m_state, m_flags, portVars, headVars, m_cmd_lock, toFlush,
                     drvVars, cb, acodec, callVars, modeVars, mDeferredQueue,
                     userVars>>
  BY DEF SendCommand, Makes
<1>2. /\ Len(calls) \in Nat \ {0} /\ Head(calls) = calls[1]
      /\ calls[1] \in CallType
      /\ Tail(calls) \in Seq(CallType) /\ Len(Tail(calls)) = Len(calls) - 1
      /\ \A i \in 1..(Len(calls) - 1) :
           /\ Tail(calls)[i] = calls[i + 1] /\ i + 1 \in 1..Len(calls)
           /\ calls[i + 1].op # "sem_wait" /\ i + 1 # 1
  BY <1>1, HeadCall
<1>3. PICK w : w = Call("sem_wait", NULL, NULL)
  OBVIOUS
<1>4. w \in CallType /\ w.op = "sem_wait"
  BY <1>3 DEF Call, CallType, BufOps
<1>5. <<w>> \in Seq(CallType) /\ Len(<<w>>) = 1 /\ <<w>>[1] = w
  BY <1>4
<1>6. PICK s \in Seq(CallType) : s = <<w>> /\ Len(s) = 1 /\ s[1] = w
  BY <1>5
<1>7. /\ calls' \in Seq(CallType) /\ Len(calls') = 1 + (Len(calls) - 1)
      /\ \A i \in 1..(1 + (Len(calls) - 1)) :
           calls'[i] = IF i <= 1 THEN s[i] ELSE Tail(calls)[i - 1]
  <2>1. calls' = s \o Tail(calls)
    BY <1>1, <1>3, <1>6
  <2> QED BY <1>2, <1>6, <2>1, ConcatProperties
<1>8. /\ Len(calls') = Len(calls) /\ calls'[1] = w
      /\ \A i \in 1..Len(calls) : i # 1 => calls'[i] = calls[i]
  <2>1. Len(calls') = Len(calls)
    BY <1>2, <1>7
  <2>2. calls'[1] = w
    BY <1>2, <1>6, <1>7
  <2>3. ASSUME NEW i \in 1..Len(calls), i # 1 PROVE calls'[i] = calls[i]
    <3>1. i \in 1..(1 + (Len(calls) - 1)) /\ ~(i <= 1)
          /\ i - 1 \in 1..(Len(calls) - 1) /\ (i - 1) + 1 = i
      BY <1>2, <2>3
    <3> QED BY <1>2, <1>7, <3>1
  <2> QED BY <2>1, <2>2, <2>3
<1>9. calls[1].op = "send"
  BY <1>1, <1>2
<1>10. mBuffers' = mBuffers /\ mStatus' = mStatus
  BY <1>1 DEF callVars
<1>11. \A p : Owned(p)' = Owned(p) /\ Compact(p)' = Compact(p)
  BY <1>1, <1>10 DEF Owned, Compact, headVars
<1>12. CallOK'
  <2>1. ASSUME NEW i \in 1..Len(calls)
        PROVE  UseOK(i)' /\ (calls'[i].op = "sem_wait" => i = 1)
    <3>1. /\ UseOK(i) /\ (calls[i].op = "sem_wait" => i = 1)
      BY DEF CodecInv, CallOK
    <3>2. CASE i = 1
      BY <1>4, <1>8, <3>2 DEF UseOK
    <3>3. CASE i # 1
      <4>1. calls'[i] = calls[i]
        BY <1>8, <3>3
      <4>2. ASSUME NEW j \in 1..Len(calls'), calls'[i].op = "use"
            PROVE  /\ calls'[j].op \notin {"free", "free_not_owned"}
                   /\ calls'[j].op = "use" /\ calls'[j].x = calls'[i].x => j = i
        <5>1. j \in 1..Len(calls)
          BY <1>8
        <5>2. /\ calls[j].op \notin {"free", "free_not_owned"}
              /\ calls[j].op = "use" /\ calls[j].x = calls[i].x => j = i
          BY <3>1, <4>1, <4>2, <5>1 DEF UseOK
        <5>3. CASE j = 1
          BY <1>4, <1>8, <5>3
        <5>4. CASE j # 1
          BY <1>8, <4>1, <5>1, <5>2, <5>4
        <5> QED BY <5>3, <5>4
      <4> QED BY <1>11, <3>1, <4>1, <4>2 DEF UseOK
    <3> QED BY <3>2, <3>3
  <2> QED BY <1>7, <1>8, <2>1 DEF CallOK
<1>13. LifeOK'
  <2>1. \A i \in 1..Len(calls') :
          /\ calls'[i].op = "free" <=> calls[i].op = "free"
          /\ calls'[i].op = "use" <=> calls[i].op = "use"
          /\ calls'[i].op = "free" => calls'[i].x = calls[i].x
    BY <1>4, <1>8, <1>9
  <2>2. \A b \in ToFree : b \in ToFree'
    <3> SUFFICES ASSUME NEW b \in ToFree PROVE b \in ToFree'
      OBVIOUS
    <3>1. PICK k \in 1..Len(calls) : calls[k].op = "free" /\ calls[k].x = b
      BY DEF ToFree
    <3>2. k \in 1..Len(calls') /\ calls'[k].op = "free" /\ calls'[k].x = b
      BY <1>8, <2>1, <3>1
    <3> QED BY <3>2 DEF ToFree
  <2>3. LifeOK /\ acodec' = acodec
    BY <1>1 DEF CodecInv
  <2> QED BY <1>8, <1>11, <2>1, <2>2, <2>3 DEF LifeOK
<1>14. PICK x \in Names, y \in Args : x = Head(calls).x /\ y = Head(calls).y
  BY <1>2, <1>9 DEF CallType
<1>15. PICK id \in Ids : id = "COMMAND"
  BY DEF Ids
<1>16. QueueOf(id) = "cmd" /\ Entry(id, x, y) \in CmdEntry
  BY <1>15 DEF QueueOf, Entry, CmdEntry
<1>17. ev \in EvType /\ msgs \in Seq(Msg) /\ cb \in Seq(Callback)
  BY Typing
<1>18. /\ ev' \in EvType
       /\ Commands(ev'.cmd) = Commands(ev.cmd) + 1
       /\ \A b : EvWeight(ev', b) = EvWeight(ev, b)
  <2>1. ev' = post_event(ev, id, x, y)
    BY <1>1, <1>14, <1>15
  <2>2. /\ post_event(ev, id, x, y) \in EvType
        /\ Commands(post_event(ev, id, x, y).cmd)
             = Commands(ev.cmd) + (IF id = "COMMAND" THEN 1 ELSE 0)
        /\ \A b : EvWeight(post_event(ev, id, x, y), b) = EvWeight(ev, b)
    BY <1>16, <1>17, PostCommand
  <2> QED BY <1>15, <2>1, <2>2
<1>19. Commands(ev.cmd) = 0 /\ m_cmd_lock = 0
  BY <1>1, <1>9, NoCommand
<1>20. CommandOK' /\ m_cmd_lock' \in 0..1
  <2>1. Makes("sem_wait")'
    <3>1. calls' # <<>> /\ Head(calls') = calls'[1]
      BY <1>2, <1>7, <1>8, EmptySeq
    <3> QED BY <1>4, <1>8, <3>1 DEF Makes
  <2>2. Commands(ev'.cmd) = 1 /\ m_cmd_lock' = 0
    BY <1>1, <1>18, <1>19
  <2> QED BY <2>1, <2>2 DEF CommandOK
<1>21. CodecType'
  BY <1>1, <1>10, CodecTyping DEF CodecType, modeVars, userVars
<1>22. ASSUME NEW b \in Bufs
       PROVE  EvWeight(ev', b) + Count(cb', b) + Held(b)'
                <= EvWeight(ev, b) + Count(cb, b) + Held(b)
  <2>1. /\ EvWeight(ev, b) \in Nat /\ Count(cb, b) \in Nat
        /\ Count(cb', b) = Count(cb, b)
    BY <1>1, <1>17, WeightFacts
  <2>2. Held(b)' = Held(b) /\ Held(b) \in Nat
    BY <1>10 DEF Held, Owned
  <2> QED BY <1>18, <2>1, <2>2
<1>23. /\ UNCHANGED <<m_state, m_flags, portVars, headVars, toFlush, drvVars,
                      mBuffers>>
       /\ cb' \in Seq(Callback)
  BY <1>1, <1>10, <1>17
<1> QED BY <1>12, <1>13, <1>18, <1>20, <1>21, <1>22, <1>23, CodecStep

-------------------------------------------------------------------------------
(* The calls that change the headers.                                      *)
LEMMA PostIfFacts ==
    ASSUME NEW e \in EvType, NEW c \in Names, NEW a \in Args, NEW done,
           c = "StateSet" => a \in States
    PROVE  /\ PostIf(done, e, c, a) \in EvType
           /\ Commands(PostIf(done, e, c, a).cmd) = Commands(e.cmd)
           /\ \A b : EvWeight(PostIf(done, e, c, a), b) = EvWeight(e, b)
<1>1. CASE done
  <2>1. PostIf(done, e, c, a) = post_event(e, "COMMAND_DONE", c, a)
    BY <1>1 DEF PostIf
  <2> QED BY <2>1, PostDone
<1>2. CASE ~done
  <2>1. PostIf(done, e, c, a) = e
    BY <1>2 DEF PostIf
  <2> QED BY <2>1
<1> QED BY <1>1, <1>2

LEMMA HeaderStep ==
    ASSUME CodecInv, calls # <<>>, calls[1].op # "sem_wait",
           UNCHANGED <<m_state, portVars, m_cmd_lock, toFlush, drvVars, cb,
                       acodec, modeVars, userVars>>,
           m_flags' \subseteq m_flags, ev' \in EvType,
           Commands(ev'.cmd) = Commands(ev.cmd),
           \A b : EvWeight(ev', b) = EvWeight(ev, b),
           mStatus' \in [Bufs -> {"US", "COMPONENT", "UPSTREAM", "DOWNSTREAM"}],
           mBuffers' \in [Ports -> Seq(Bufs)],
           m_cur_buf_num' \in [Ports -> 0..Cardinality(Bufs)],
           DOMAIN m_omx_bufhead' = Ports, \A p \in Ports : HeadOK(p)',
           HeadsMatch', CallOK', LifeOK',
           \A b \in Bufs :
              Flight(b) + Held(b)' <= IF b \in Owned(PortOf(b))' THEN 1 ELSE 0
    PROVE  CodecInv'
<1>1. /\ CompType /\ CompOK /\ ev \in EvType /\ msgs \in Seq(Msg)
      /\ cb \in Seq(Callback) /\ \A p \in Ports : drv[p] \subseteq BufsOf(p)
  BY Typing
<1>2. Commands(ev.cmd) = 0 /\ m_cmd_lock = 0
  BY NoCommand
<1>3. CommandOK'
  <2>1. Commands(ev'.cmd) = 0 /\ m_cmd_lock' = 0
    BY <1>2
  <2>2. 0 + 0 <= IF Makes("sem_wait")' THEN 1 ELSE 0
    OBVIOUS
  <2> QED BY <2>1, <2>2 DEF CommandOK
<1>4. TypeOK'
  <2>1. m_flags' \subseteq ({"IDLE", "LOADING", "EXECUTE"} \X {"all"})
                    \cup ({"FLUSH", "ENABLE", "DISABLE"} \X Ports)
    BY <1>1 DEF CompType
  <2>2. /\ m_state' \in States /\ m_port_enabled' \in [Ports -> BOOLEAN]
        /\ m_port_flushing' \in [Ports -> BOOLEAN]
        /\ m_port_reconfig' \in BOOLEAN /\ toFlush' \subseteq Ports
        /\ drv' \in [Ports -> SUBSET Bufs] /\ flushReq' \subseteq Ports
    BY <1>1 DEF CompType, portVars, drvVars
  <2>3. m_cmd_lock' \in 0..1
    BY <1>2
  <2>4. /\ acodec' \in {"Loaded", "LoadedToIdle", "IdleToExecuting",
                        "Executing", "OutputPortSettingsChanged", "Flushing",
                        "ExecutingToIdle", "IdleToLoaded"}
        /\ mActive' \in BOOLEAN /\ mComponentNowIdle' \in BOOLEAN
        /\ mFlushComplete' \subseteq Ports
        /\ mState' \in {"CONFIGURED", "STARTING", "STARTED", "FLUSHING",
                        "STOPPING"}
    BY CodecTyping DEF CodecType, modeVars, userVars
  <2> QED BY <2>1, <2>2, <2>3, <2>4 DEF TypeOK, States
<1>5. CompOK'
  BY <1>1 DEF CompOK, drvVars
<1>6. OnePlace'
  <2> SUFFICES ASSUME NEW b \in Bufs
               PROVE  (Places(b) <= IF b \in Owned(PortOf(b)) THEN 1 ELSE 0)'
    BY DEF OnePlace
  <2>1. Places(b)' = Flight(b)' + Held(b)'
    BY <1>5, PlacesFlightNext
  <2>2. /\ InDriver(b)' = InDriver(b) /\ MsgCount(msgs', b) = MsgCount(msgs, b)
        /\ Count(cb', b) = Count(cb, b) /\ EvWeight(ev', b) = EvWeight(ev, b)
    BY DEF InDriver, drvVars
  <2>3. Flight(b)' = Flight(b)
    BY <2>2 DEF Flight
  <2> QED BY <2>1, <2>3
<1> QED BY <1>3, <1>4, <1>5, <1>6 DEF CodecInv

(* A buffer that ACodec does not have is nowhere, and neither is one with  *)
(* ACodec anywhere else.                                                   *)
LEMMA NotInFlight ==
    ASSUME CodecInv, NEW b \in Bufs
    PROVE  /\ Flight(b) \in Nat /\ Held(b) \in {0, 1}
           /\ Flight(b) + Held(b) <= IF b \in Owned(PortOf(b)) THEN 1 ELSE 0
           /\ b \notin Owned(PortOf(b)) => Flight(b) = 0
           /\ Held(b) = 1 => Flight(b) = 0
<1>1. Flight(b) \in Nat /\ Places(b) = Flight(b) + Held(b)
  BY Typing, PlacesFlight
<1>2. Held(b) \in {0, 1}
  BY DEF Held
<1>3. Flight(b) + Held(b) <= IF b \in Owned(PortOf(b)) THEN 1 ELSE 0
  BY <1>1 DEF CodecInv, OnePlace
<1>4. b \notin Owned(PortOf(b)) => Flight(b) = 0
  BY <1>1, <1>2, <1>3
<1>5. Held(b) = 1 => Flight(b) = 0
  BY <1>1, <1>2, <1>3
<1> QED BY <1>1, <1>2, <1>3, <1>4, <1>5

LEMMA HeaderFacts ==
    ASSUME CodecInv, NEW p \in Ports
    PROVE  /\ m_omx_bufhead[p] \in [1..max_count(p) -> BufsOf(p) \cup {NULL}]
           /\ {b \in BufsOf(p) : Registered(b)} = Owned(p)
           /\ m_cur_buf_num[p] = Cardinality(Owned(p))
           /\ m_cur_buf_num[p] \in Nat /\ max_count(p) \in Nat
           /\ max_count(p) <= Cardinality(Bufs) /\ Cardinality(Bufs) \in Nat
           /\ IsFiniteSet(Owned(p))
           /\ m_cur_buf_num \in [Ports -> 0..Cardinality(Bufs)]
<1>1. /\ m_omx_bufhead[p] \in [1..max_count(p) -> BufsOf(p) \cup {NULL}]
      /\ {b \in BufsOf(p) : Registered(b)} = Owned(p)
      /\ m_cur_buf_num[p] = Cardinality(Owned(p))
      /\ m_cur_buf_num \in [Ports -> 0..Cardinality(Bufs)]
  BY DEF CodecInv, HeadOK, HeadsMatch, TypeOK
<1>2. IsFiniteSet(Bufs)
  BY ComponentAssumption, FS_Union DEF Bufs
<1>3. BufsOf(p) \in SUBSET Bufs /\ Owned(p) \in SUBSET BufsOf(p)
  BY BufsFacts, BuffersFacts
<1>4. IsFiniteSet(BufsOf(p)) /\ Cardinality(BufsOf(p)) <= Cardinality(Bufs)
  BY <1>2, <1>3, FS_Subset
<1>5. IsFiniteSet(Owned(p))
  BY <1>3, <1>4, FS_Subset
<1>6. /\ Cardinality(Bufs) \in Nat /\ Cardinality(BufsOf(p)) \in Nat
      /\ Cardinality(Owned(p)) \in Nat
  BY <1>2, <1>4, <1>5, FS_CardinalityType
<1> QED BY <1>1, <1>4, <1>5, <1>6 DEF max_count

(* A buffer is used: it takes the first slot that is free.                 *)
LEMMA UseBufferStep ==
    ASSUME CodecInv, UseBuffer
    PROVE  CodecInv'
<1>1. /\ calls # <<>> /\ Head(calls).op = "use" /\ calls' = Tail(calls)
      /\ UseAccepted(Head(calls).x) /\ use_buffer(Head(calls).x)
      /\ mBuffers' = [mBuffers EXCEPT ![PortOf(Head(calls).x)] =
                        Append(@, Head(calls).x)]
      /\ mStatus' = [mStatus EXCEPT ![Head(calls).x] = "US"]
      /\ UNCHANGED <<m_state, portVars, m_cmd_lock, toFlush, drvVars, cb,
                     acodec, modeVars, mDeferredQueue, userVars>>
  BY DEF UseBuffer, Makes
<1>2. /\ Len(calls) \in Nat \ {0} /\ Head(calls) = calls[1]
      /\ calls[1] \in CallType /\ calls' \in Seq(CallType)
      /\ Len(calls') = Len(calls) - 1
      /\ \A i \in 1..(Len(calls) - 1) :
           /\ calls'[i] = calls[i + 1] /\ i + 1 \in 1..Len(calls)
           /\ calls[i + 1].op # "sem_wait" /\ i + 1 # 1
  BY <1>1, HeadCall
<1>3. PICK b \in Bufs : b = Head(calls).x
  BY <1>1, <1>2 DEF CallType, BufOps
<1>4. PICK p \in Ports : p = PortOf(b) /\ b \in BufsOf(p)
  BY BufsFacts
<1>5. calls[1].op = "use" /\ calls[1].x = b /\ 1 \in 1..Len(calls)
  BY <1>1, <1>2, <1>3
<1>6. /\ b \notin Owned(p) /\ Compact(p)
      /\ \A j \in 1..Len(calls) :
           /\ calls[j].op \notin {"free", "free_not_owned"}
           /\ calls[j].op = "use" /\ calls[j].x = b => j = 1
  <2>1. UseOK(1)
    BY <1>5 DEF CodecInv, CallOK
  <2> QED BY <1>4, <1>5, <2>1 DEF UseOK
<1>7. PICK num \in Nat : num = m_cur_buf_num[p] /\ num = Cardinality(Owned(p))
                         /\ num < max_count(p)
  BY <1>1, <1>3, <1>4, HeaderFacts DEF UseAccepted
<1>8. /\ m_omx_bufhead' = [m_omx_bufhead EXCEPT ![p][num + 1] = b]
      /\ m_cur_buf_num' = [m_cur_buf_num EXCEPT ![p] = @ + 1]
      /\ m_flags' \subseteq m_flags
      /\ ev' = PostIf(<<"IDLE", "all">> \in UseClears(b),
                      PostIf(<<"ENABLE", p>> \in UseClears(b), ev,
                             "PortEnable", p),
                      "StateSet", "Idle")
  BY <1>1, <1>3, <1>4, <1>7 DEF use_buffer, SlotFor
<1>9. /\ ev' \in EvType /\ Commands(ev'.cmd) = Commands(ev.cmd)
      /\ \A c : EvWeight(ev', c) = EvWeight(ev, c)
  <2>1. ev \in EvType /\ "PortEnable" \in Names /\ p \in Args
        /\ "StateSet" \in Names /\ "Idle" \in Args /\ "Idle" \in States
    BY Typing DEF Names, Args, States
  <2>2. PICK e : e = PostIf(<<"ENABLE", p>> \in UseClears(b), ev,
                            "PortEnable", p)
    OBVIOUS
  <2>3. /\ e \in EvType /\ Commands(e.cmd) = Commands(ev.cmd)
        /\ \A c : EvWeight(e, c) = EvWeight(ev, c)
    BY <2>1, <2>2, PostIfFacts
  <2>4. ev' = PostIf(<<"IDLE", "all">> \in UseClears(b), e, "StateSet", "Idle")
    BY <1>8, <2>2
  <2>5. /\ ev' \in EvType /\ Commands(ev'.cmd) = Commands(e.cmd)
        /\ \A c : EvWeight(ev', c) = EvWeight(e, c)
    BY <2>1, <2>3, <2>4, PostIfFacts
  <2> QED BY <2>3, <2>5
<1>10. /\ mBuffers \in [Ports -> Seq(Bufs)]
       /\ mStatus \in [Bufs -> {"US", "COMPONENT", "UPSTREAM", "DOWNSTREAM"}]
  BY CodecTyping DEF CodecType
<1>11. /\ mBuffers' = [mBuffers EXCEPT ![p] = Append(@, b)]
       /\ mStatus' = [mStatus EXCEPT ![b] = "US"]
  BY <1>1, <1>3, <1>4
<1>12. /\ mBuffers'[p] = list_add_tail(b, mBuffers[p])
       /\ \A q \in Ports : q # p => mBuffers'[q] = mBuffers[q]
  BY <1>10, <1>11 DEF list_add_tail
<1>13. /\ mBuffers'[p] \in Seq(BufsOf(p)) /\ LinkedOnce(mBuffers'[p])
       /\ Entries(mBuffers'[p]) = Entries(mBuffers[p]) \cup {b}
  <2>1. PICK l \in Seq(BufsOf(p)) :
           l = mBuffers[p] /\ LinkedOnce(l) /\ b \notin Entries(l)
    BY <1>6, BuffersFacts DEF Owned
  <2>2. /\ list_add_tail(b, l) \in Seq(BufsOf(p))
        /\ LinkedOnce(list_add_tail(b, l))
        /\ Entries(list_add_tail(b, l)) = Entries(l) \cup {b}
    <3>1. PICK S : S = BufsOf(p)
      OBVIOUS
    <3>2. l \in Seq(S) /\ b \in S /\ LinkedOnce(l) /\ b \notin Entries(l)
      BY <1>4, <2>1, <3>1
    <3> QED BY <3>1, <3>2, ListAddTail
  <2> QED BY <1>12, <2>1, <2>2
<1>14. /\ Owned(p)' = Owned(p) \cup {b}
       /\ \A q \in Ports : q # p => Owned(q)' = Owned(q)
  BY <1>12, <1>13 DEF Owned
<1>15. mBuffers' \in [Ports -> Seq(Bufs)]
  <2>1. Append(mBuffers[p], b) \in Seq(Bufs)
    BY <1>10
  <2> QED BY <1>10, <1>11, <2>1
<1>16. /\ mStatus' \in [Bufs -> {"US", "COMPONENT", "UPSTREAM", "DOWNSTREAM"}]
       /\ \A c \in Bufs : c # b => mStatus'[c] = mStatus[c]
  BY <1>10, <1>11
<1>17. /\ m_omx_bufhead[p] \in [1..max_count(p) -> BufsOf(p) \cup {NULL}]
       /\ DOMAIN m_omx_bufhead = Ports /\ max_count(p) \in Nat
       /\ {c \in BufsOf(p) : Registered(c)} = Owned(p)
       /\ max_count(p) <= Cardinality(Bufs) /\ Cardinality(Bufs) \in Nat
       /\ IsFiniteSet(Owned(p))
       /\ m_cur_buf_num \in [Ports -> 0..Cardinality(Bufs)]
  BY HeaderFacts DEF CodecInv
<1>18. num + 1 \in 1..max_count(p) /\ m_omx_bufhead[p][num + 1] = NULL
  BY <1>6, <1>7, <1>17 DEF Compact
<1>19. PICK s \in 1..max_count(p) : s = num + 1
  BY <1>18
<1>20. /\ DOMAIN m_omx_bufhead' = Ports
       /\ m_omx_bufhead'[p] = [m_omx_bufhead[p] EXCEPT ![s] = b]
       /\ \A q \in Ports : q # p => m_omx_bufhead'[q] = m_omx_bufhead[q]
  BY <1>8, <1>17, <1>19
<1>21. /\ m_omx_bufhead'[p] \in [1..max_count(p) -> BufsOf(p) \cup {NULL}]
       /\ m_omx_bufhead'[p][s] = b
       /\ \A k \in 1..max_count(p) :
            k # s => m_omx_bufhead'[p][k] = m_omx_bufhead[p][k]
  BY <1>4, <1>17, <1>20
<1>22. /\ m_cur_buf_num' \in [Ports -> 0..Cardinality(Bufs)]
       /\ m_cur_buf_num'[p] = num + 1
       /\ \A q \in Ports : q # p => m_cur_buf_num'[q] = m_cur_buf_num[q]
  <2>1. num + 1 \in 0..Cardinality(Bufs)
    BY <1>17, <1>18
  <2> QED BY <1>7, <1>8, <1>17, <2>1
<1>23. ASSUME NEW q \in Ports PROVE HeadOK(q)'
  <2>1. CASE q = p
    BY <1>13, <1>21, <2>1 DEF HeadOK
  <2>2. CASE q # p
    BY <1>12, <1>20, <2>2 DEF CodecInv, HeadOK
  <2> QED BY <2>1, <2>2
<1>24. HeadsMatch'
  <2>1. ASSUME NEW q \in Ports
        PROVE  /\ {c \in BufsOf(q) : Registered(c)'} = Owned(q)'
               /\ m_cur_buf_num'[q] = Cardinality(Owned(q)')
    <3>1. \A c \in BufsOf(q) : PortOf(c) = q
      BY BufsFacts
    <3>2. CASE q = p
      <4>1. ASSUME NEW c \in BufsOf(p)
            PROVE  Registered(c)' <=> c = b \/ Registered(c)
        <5>1. PortOf(c) = p
          BY <3>1, <3>2
        <5>2. c # NULL
          BY BufsFacts
        <5>3. Registered(c)' <=> \E k \in 1..max_count(p) :
                                     m_omx_bufhead'[p][k] = c
          BY <5>1 DEF Registered
        <5>4. Registered(c) <=> \E k \in 1..max_count(p) :
                                     m_omx_bufhead[p][k] = c
          BY <5>1 DEF Registered
        <5> QED BY <1>18, <1>19, <1>21, <5>2, <5>3, <5>4
      <4>2. {c \in BufsOf(p) : Registered(c)'} = Owned(p) \cup {b}
        BY <1>4, <1>17, <4>1
      <4>3. Cardinality(Owned(p) \cup {b}) = num + 1
        BY <1>6, <1>7, <1>17, FS_AddElement
      <4> QED BY <1>14, <1>22, <3>2, <4>2, <4>3
    <3>3. CASE q # p
      <4>1. \A c \in BufsOf(q) : Registered(c)' <=> Registered(c)
        BY <1>20, <3>1, <3>3 DEF Registered
      <4>2. {c \in BufsOf(q) : Registered(c)'} = {c \in BufsOf(q) : Registered(c)}
        BY <4>1
      <4> QED BY <1>14, <1>22, <3>3, <4>2, HeaderFacts
    <3> QED BY <3>2, <3>3
  <2> QED BY <2>1 DEF HeadsMatch
<1>25. CallOK'
  <2>1. ASSUME NEW q \in Ports, Compact(q) PROVE Compact(q)'
    <3>1. CASE q = p
      <4>1. ASSUME NEW k \in 1..max_count(p), k > num + 1
            PROVE  m_omx_bufhead'[p][k] = NULL
        <5>1. k # s /\ k > num
          BY <1>17, <1>19, <4>1
        <5> QED BY <1>6, <1>7, <1>21, <5>1 DEF Compact
      <4> QED BY <1>22, <3>1, <4>1 DEF Compact
    <3>2. CASE q # p
      BY <1>20, <1>22, <2>1, <3>2 DEF Compact
    <3> QED BY <3>1, <3>2
  <2>2. ASSUME NEW i \in 1..Len(calls') PROVE UseOK(i)'
    <3> SUFFICES ASSUME calls'[i].op = "use" PROVE UseOK(i)'
      BY DEF UseOK
    <3>1. calls'[i] = calls[i + 1] /\ i + 1 \in 1..Len(calls) /\ i + 1 # 1
      BY <1>2
    <3>2. calls[i + 1] \in CallType
      BY <3>1 DEF CodecInv, CallOK
    <3>3. PICK c \in Bufs : c = calls'[i].x
      BY <3>1, <3>2 DEF CallType, BufOps
    <3>4. PortOf(c) \in Ports
      BY BufsFacts
    <3>5. UseOK(i + 1)
      BY <3>1 DEF CodecInv, CallOK
    <3>6. /\ c \notin Owned(PortOf(c)) /\ Compact(PortOf(c))
          /\ \A j \in 1..Len(calls) :
               calls[j].op = "use" /\ calls[j].x = c => j = i + 1
      BY <3>1, <3>3, <3>5 DEF UseOK
    <3>7. c # b
      BY <1>6, <3>1, <3>3
    <3>8. c \notin Owned(PortOf(c))'
      BY <1>14, <3>4, <3>6, <3>7
    <3>9. Compact(PortOf(c))'
      BY <2>1, <3>4, <3>6
    <3>10. ASSUME NEW j \in 1..Len(calls')
           PROVE  /\ calls'[j].op \notin {"free", "free_not_owned"}
                  /\ calls'[j].op = "use" /\ calls'[j].x = c => j = i
      <4>1. calls'[j] = calls[j + 1] /\ j + 1 \in 1..Len(calls)
        BY <1>2
      <4>2. calls[j + 1].op \notin {"free", "free_not_owned"}
        BY <1>6, <4>1
      <4>3. calls[j + 1].op = "use" /\ calls[j + 1].x = c => j + 1 = i + 1
        BY <3>6, <4>1
      <4> QED BY <4>1, <4>2, <4>3
    <3>11. \A d \in {c} : d \notin Owned(PortOf(d))' /\ Compact(PortOf(d))'
      BY <3>8, <3>9
    <3> QED BY <3>3, <3>10, <3>11 DEF UseOK
  <2> QED BY <1>2, <2>2 DEF CallOK
<1>26. LifeOK'
  <2>1. acodec \notin {"Loaded", "IdleToLoaded"}
    BY <1>5 DEF CodecInv, LifeOK
  <2> QED BY <1>1, <2>1 DEF LifeOK
<1>27. ASSUME NEW c \in Bufs
       PROVE  Flight(c) + Held(c)' <= IF c \in Owned(PortOf(c))' THEN 1 ELSE 0
  <2>1. /\ Flight(c) \in Nat /\ PortOf(c) \in Ports
        /\ Flight(c) + Held(c) <= IF c \in Owned(PortOf(c)) THEN 1 ELSE 0
        /\ c \notin Owned(PortOf(c)) => Flight(c) = 0
    BY NotInFlight, BufsFacts
  <2>2. CASE c = b
    <3>1. Flight(c) = 0 /\ c \in Owned(PortOf(c))'
      BY <1>4, <1>6, <1>14, <2>1, <2>2
    <3>2. Held(c)' \in {0, 1}
      BY DEF Held
    <3> QED BY <3>1, <3>2
  <2>3. CASE c # b
    <3>1. c \in Owned(PortOf(c))' <=> c \in Owned(PortOf(c))
      BY <1>14, <2>1, <2>3
    <3>2. Held(c)' = Held(c)
      BY <1>16, <2>3, <3>1 DEF Held
    <3> QED BY <2>1, <3>1, <3>2
  <2> QED BY <2>2, <2>3
<1>28. calls[1].op # "sem_wait"
  BY <1>5
<1> QED BY <1>1, <1>8, <1>9, <1>15, <1>16, <1>20, <1>22, <1>23, <1>24, <1>25,
           <1>26, <1>27, <1>28, HeaderStep

(* A buffer is freed: it is ACodec's, so it is nowhere else.               *)
LEMMA FreeBufferStep ==
    ASSUME CodecInv, FreeBuffer
    PROVE  CodecInv'
<1>1. /\ calls # <<>> /\ Head(calls).op \in {"free", "free_not_owned"}
      /\ calls' = Tail(calls)
      /\ FreeAccepted(Head(calls).x) /\ mStatus[Head(calls).x] = "US"
      /\ free_buffer(Head(calls).x)
      /\ mBuffers' = [mBuffers EXCEPT ![PortOf(Head(calls).x)] =
                        list_del(Head(calls).x, @)]
      /\ UNCHANGED <<m_state, portVars, m_cmd_lock, toFlush, drvVars, cb,
                     acodec, mStatus, modeVars, mDeferredQueue, userVars>>
  BY DEF FreeBuffer, Frees, Makes
<1>2. /\ Len(calls) \in Nat \ {0} /\ Head(calls) = calls[1]
      /\ calls[1] \in CallType /\ calls' \in Seq(CallType)
      /\ Len(calls') = Len(calls) - 1
      /\ \A i \in 1..(Len(calls) - 1) :
           /\ calls'[i] = calls[i + 1] /\ i + 1 \in 1..Len(calls)
           /\ calls[i + 1].op # "sem_wait" /\ i + 1 # 1
  BY <1>1, HeadCall
<1>3. PICK b \in Bufs : b = Head(calls).x
  BY <1>1, <1>2 DEF CallType, BufOps
<1>4. PICK p \in Ports : p = PortOf(b) /\ b \in BufsOf(p)
  BY BufsFacts
<1>5. /\ calls[1].op \in {"free", "free_not_owned"} /\ calls[1].x = b
      /\ 1 \in 1..Len(calls)
  BY <1>1, <1>2, <1>3
<1>6. /\ m_omx_bufhead[p] \in [1..max_count(p) -> BufsOf(p) \cup {NULL}]
      /\ DOMAIN m_omx_bufhead = Ports /\ max_count(p) \in Nat
      /\ {c \in BufsOf(p) : Registered(c)} = Owned(p)
      /\ m_cur_buf_num[p] = Cardinality(Owned(p)) /\ m_cur_buf_num[p] \in Nat
      /\ Cardinality(Bufs) \in Nat /\ IsFiniteSet(Owned(p))
      /\ m_cur_buf_num \in [Ports -> 0..Cardinality(Bufs)]
  BY HeaderFacts DEF CodecInv
<1>7. b \in Owned(p) /\ mStatus[b] = "US"
  BY <1>1, <1>3, <1>4, <1>6 DEF FreeAccepted
<1>8. /\ m_omx_bufhead' = [m_omx_bufhead EXCEPT ![p] =
                             [i \in 1..max_count(p) |->
                                IF @[i] = b THEN NULL ELSE @[i]]]
      /\ m_cur_buf_num' = [m_cur_buf_num EXCEPT ![p] = @ - 1]
      /\ m_flags' \subseteq m_flags
      /\ ev' = PostIf(<<"LOADING", "all">> \in FreeClears(b),
                      PostIf(<<"DISABLE", p>> \in FreeClears(b), ev,
                             "PortDisable", p),
                      "StateSet", "Loaded")
  BY <1>1, <1>3, <1>4 DEF free_buffer
<1>9. /\ ev' \in EvType /\ Commands(ev'.cmd) = Commands(ev.cmd)
      /\ \A c : EvWeight(ev', c) = EvWeight(ev, c)
  <2>1. ev \in EvType /\ "PortDisable" \in Names /\ p \in Args
        /\ "StateSet" \in Names /\ "Loaded" \in Args /\ "Loaded" \in States
    BY Typing DEF Names, Args, States
  <2>2. PICK e : e = PostIf(<<"DISABLE", p>> \in FreeClears(b), ev,
                            "PortDisable", p)
    OBVIOUS
  <2>3. /\ e \in EvType /\ Commands(e.cmd) = Commands(ev.cmd)
        /\ \A c : EvWeight(e, c) = EvWeight(ev, c)
    BY <2>1, <2>2, PostIfFacts
  <2>4. ev' = PostIf(<<"LOADING", "all">> \in FreeClears(b), e, "StateSet",
                     "Loaded")
    BY <1>8, <2>2
  <2>5. /\ ev' \in EvType /\ Commands(ev'.cmd) = Commands(e.cmd)
        /\ \A c : EvWeight(ev', c) = EvWeight(e, c)
    BY <2>1, <2>3, <2>4, PostIfFacts
  <2> QED BY <2>3, <2>5
<1>10. /\ mBuffers \in [Ports -> Seq(Bufs)]
       /\ mStatus' \in [Bufs -> {"US", "COMPONENT", "UPSTREAM", "DOWNSTREAM"}]
  BY <1>1, CodecTyping DEF CodecType
<1>11. mBuffers' = [mBuffers EXCEPT ![p] = list_del(b, @)]
  BY <1>1, <1>3, <1>4
<1>12. /\ mBuffers'[p] = list_del(b, mBuffers[p])
       /\ \A q \in Ports : q # p => mBuffers'[q] = mBuffers[q]
  BY <1>10, <1>11
<1>13. /\ mBuffers'[p] \in Seq(BufsOf(p)) /\ LinkedOnce(mBuffers'[p])
       /\ Entries(mBuffers'[p]) = Entries(mBuffers[p]) \ {b}
  <2>1. PICK S, l : S = BufsOf(p) /\ l = mBuffers[p]
    OBVIOUS
  <2>2. l \in Seq(S) /\ LinkedOnce(l) /\ b \in Entries(l)
    BY <1>7, <2>1, BuffersFacts DEF Owned
  <2>3. PICK k \in 1..Len(l) : l[k] = b
    BY <2>2 DEF Entries
  <2>4. /\ list_del(l[k], l) \in Seq(S) /\ LinkedOnce(list_del(l[k], l))
        /\ Entries(list_del(l[k], l)) = Entries(l) \ {l[k]}
    BY <2>2, ListDel
  <2> QED BY <1>12, <2>1, <2>3, <2>4
<1>14. /\ Owned(p)' = Owned(p) \ {b}
       /\ \A q \in Ports : q # p => Owned(q)' = Owned(q)
  BY <1>12, <1>13 DEF Owned
<1>15. mBuffers' \in [Ports -> Seq(Bufs)]
  <2>1. mBuffers'[p] \in Seq(Bufs)
    BY <1>13, BufsFacts, SeqMonotonic
  <2> QED BY <1>10, <1>11, <1>12, <2>1
<1>16. /\ DOMAIN m_omx_bufhead' = Ports
       /\ m_omx_bufhead'[p] = [i \in 1..max_count(p) |->
                                 IF m_omx_bufhead[p][i] = b THEN NULL
                                 ELSE m_omx_bufhead[p][i]]
       /\ \A q \in Ports : q # p => m_omx_bufhead'[q] = m_omx_bufhead[q]
  BY <1>6, <1>8
<1>17. /\ m_omx_bufhead'[p] \in [1..max_count(p) -> BufsOf(p) \cup {NULL}]
       /\ \A k \in 1..max_count(p) :
            m_omx_bufhead'[p][k] = IF m_omx_bufhead[p][k] = b THEN NULL
                                   ELSE m_omx_bufhead[p][k]
  BY <1>6, <1>16
<1>18. Cardinality(Owned(p) \ {b}) = m_cur_buf_num[p] - 1
       /\ m_cur_buf_num[p] - 1 \in Nat
  <2>1. Cardinality(Owned(p) \ {b}) = m_cur_buf_num[p] - 1
    BY <1>6, <1>7, FS_RemoveElement
  <2>2. Cardinality(Owned(p) \ {b}) \in Nat
    BY <1>6, FS_RemoveElement, FS_CardinalityType
  <2> QED BY <2>1, <2>2
<1>19. /\ m_cur_buf_num' \in [Ports -> 0..Cardinality(Bufs)]
       /\ m_cur_buf_num'[p] = m_cur_buf_num[p] - 1
       /\ \A q \in Ports : q # p => m_cur_buf_num'[q] = m_cur_buf_num[q]
  <2>1. m_cur_buf_num[p] - 1 \in 0..Cardinality(Bufs)
    BY <1>6, <1>18
  <2> QED BY <1>6, <1>8, <2>1
<1>20. ASSUME NEW q \in Ports PROVE HeadOK(q)'
  <2>1. CASE q = p
    BY <1>13, <1>17, <2>1 DEF HeadOK
  <2>2. CASE q # p
    BY <1>12, <1>16, <2>2 DEF CodecInv, HeadOK
  <2> QED BY <2>1, <2>2
<1>21. HeadsMatch'
  <2>1. ASSUME NEW q \in Ports
        PROVE  /\ {c \in BufsOf(q) : Registered(c)'} = Owned(q)'
               /\ m_cur_buf_num'[q] = Cardinality(Owned(q)')
    <3>1. \A c \in BufsOf(q) : PortOf(c) = q
      BY BufsFacts
    <3>2. CASE q = p
      <4>1. ASSUME NEW c \in BufsOf(p)
            PROVE  Registered(c)' <=> c # b /\ Registered(c)
        <5>1. PortOf(c) = p
          BY <3>1, <3>2
        <5>2. c # NULL
          BY BufsFacts
        <5>3. Registered(c)' <=> \E k \in 1..max_count(p) :
                                     m_omx_bufhead'[p][k] = c
          BY <5>1 DEF Registered
        <5>4. Registered(c) <=> \E k \in 1..max_count(p) :
                                     m_omx_bufhead[p][k] = c
          BY <5>1 DEF Registered
        <5> QED BY <1>17, <5>2, <5>3, <5>4
      <4>2. {c \in BufsOf(p) : Registered(c)'} = Owned(p) \ {b}
        BY <1>6, <4>1
      <4> QED BY <1>14, <1>18, <1>19, <3>2, <4>2
    <3>3. CASE q # p
      <4>1. \A c \in BufsOf(q) : Registered(c)' <=> Registered(c)
        BY <1>16, <3>1, <3>3 DEF Registered
      <4>2. {c \in BufsOf(q) : Registered(c)'} = {c \in BufsOf(q) : Registered(c)}
        BY <4>1
      <4> QED BY <1>14, <1>19, <3>3, <4>2, HeaderFacts
    <3> QED BY <3>2, <3>3
  <2> QED BY <2>1 DEF HeadsMatch
<1>22. CallOK'
  <2>1. \A i \in 1..Len(calls) : calls[i].op # "use"
    BY <1>5 DEF CodecInv, CallOK, UseOK
  <2>2. \A i \in 1..Len(calls') : /\ calls'[i].op # "use"
                                  /\ calls'[i].op # "sem_wait"
    BY <1>2, <2>1
  <2> QED BY <1>2, <2>2 DEF CallOK, UseOK
<1>23. LifeOK'
  <2>1. \A q \in Ports : Owned(q)' \subseteq Owned(q)
    BY <1>14
  <2>2. \A q \in Ports : b \notin Owned(q)'
    <3>1. \A q \in Ports : q # p => b \notin Owned(q)
      BY <1>4, BuffersFacts, BufsFacts
    <3> QED BY <1>14, <3>1
  <2> QED BY <1>1, <1>5, <2>1, <2>2, TailLifeOK
<1>24. ASSUME NEW c \in Bufs
       PROVE  Flight(c) + Held(c)' <= IF c \in Owned(PortOf(c))' THEN 1 ELSE 0
  <2>1. /\ Flight(c) \in Nat /\ PortOf(c) \in Ports
        /\ Flight(c) + Held(c) <= IF c \in Owned(PortOf(c)) THEN 1 ELSE 0
        /\ Held(c) = 1 => Flight(c) = 0
    BY NotInFlight, BufsFacts
  <2>2. CASE c = b
    <3>1. Held(b) = 1
      BY <1>4, <1>7 DEF Held
    <3>2. c \notin Owned(PortOf(c))'
      BY <1>4, <1>14, <2>2
    <3>3. Held(c)' = 0
      BY <3>2 DEF Held
    <3> QED BY <2>1, <2>2, <3>1, <3>2, <3>3
  <2>3. CASE c # b
    <3>1. c \in Owned(PortOf(c))' <=> c \in Owned(PortOf(c))
      BY <1>14, <2>1, <2>3
    <3>2. Held(c)' = Held(c)
      BY <1>1, <3>1 DEF Held
    <3> QED BY <2>1, <3>1, <3>2
  <2> QED BY <2>2, <2>3
<1>25. calls[1].op # "sem_wait"
  BY <1>5
<1> QED BY <1>1, <1>8, <1>9, <1>10, <1>15, <1>16, <1>19, <1>20, <1>21, <1>22,
           <1>23, <1>24, <1>25, HeaderStep

LEMMA OmxCallPreserves ==
    ASSUME CodecInv, OmxCall
    PROVE  CodecInv'
BY UseBufferStep, FreeBufferStep, PassOverStep, FillBufferStep,
   EmptyBufferStep, SendCommandStep, CommandTakenByClient DEF OmxCall

-------------------------------------------------------------------------------
(* MediaCodec.  Its steps change mState and its own requests.              *)
LEMMA UserStep ==
    ASSUME CodecInv,
           UNCHANGED <<compVars, acodec, calls, callVars, modeVars>>,
           mState' \in {"CONFIGURED", "STARTING", "STARTED", "FLUSHING",
                        "STOPPING"}
    PROVE  CodecInv'
<1> USE DEF compVars, portVars, headVars, drvVars, callVars, modeVars
<1>1. TypeOK'
  BY DEF CodecInv, TypeOK
<1>2. CompOK' /\ CommandOK'
  <2>1. CompOK' = CompOK
    BY DEF CompOK
  <2>2. CommandOK' = CommandOK
    BY DEF CommandOK, Makes
  <2> QED BY <2>1, <2>2 DEF CodecInv
<1>3. (DOMAIN m_omx_bufhead = Ports)' /\ (\A p \in Ports : HeadOK(p))'
  BY DEF CodecInv, HeadOK
<1>4. HeadsMatch' /\ CallOK' /\ LifeOK'
  <2>1. HeadsMatch' = HeadsMatch
    BY DEF HeadsMatch, Registered, Owned
  <2>2. CallOK' = CallOK
    BY DEF CallOK, UseOK, Compact, Owned
  <2>3. LifeOK' = LifeOK
    BY DEF LifeOK, ToFree, Owned
  <2> QED BY <2>1, <2>2, <2>3 DEF CodecInv
<1>5. OnePlace'
  <2>1. OnePlace' = OnePlace
    BY DEF OnePlace, Places, Owned
  <2> QED BY <2>1 DEF CodecInv
<1> QED BY <1>1, <1>2, <1>3, <1>4, <1>5 DEF CodecInv

LEMMA UserPreserves ==
    ASSUME CodecInv, BuffersAllocated \/ UserStarts \/ UserFlushes \/ UserStops
    PROVE  CodecInv'
BY UserStep DEF BuffersAllocated, UserStarts, UserFlushes, UserStops, Asks

LEMMA StutterPreserves ==
    ASSUME CodecInv, UNCHANGED vars
    PROVE  CodecInv'
<1>1. UNCHANGED <<compVars, acodec, calls, callVars, modeVars>>
      /\ mState' = mState
  BY DEF vars, codecVars, userVars
<1>2. mState \in {"CONFIGURED", "STARTING", "STARTED", "FLUSHING", "STOPPING"}
  BY CodecTyping DEF CodecType
<1> QED BY <1>1, <1>2, UserStep

LEMMA NextPreserves ==
    ASSUME CodecInv, [Next]_vars
    PROVE  CodecInv'
<1>1. CASE Component
  BY <1>1, ComponentPreserves
<1>2. CASE OmxCall
  BY <1>2, OmxCallPreserves
<1>3. CASE processDeferredMessages \/ OnRequest \/ OnComponent
  BY <1>3, DeferredStep, RequestStep, OnComponentPreserves
<1>4. CASE \E b \in InBufs : onInputBufferFilled(b)
  BY <1>4, InputFilledStep
<1>5. CASE \E b \in OutBufs : onOutputBufferDrained(b)
  BY <1>5, OutputDrainedStep
<1>6. CASE BuffersAllocated \/ UserStarts \/ UserFlushes \/ UserStops
  BY <1>6, UserPreserves
<1>7. CASE UNCHANGED vars
  BY <1>7, StutterPreserves
<1> QED BY <1>1, <1>2, <1>3, <1>4, <1>5, <1>6, <1>7 DEF Next

LEMMA InitCodec ==
    ASSUME Init
    PROVE  CodecInv
<1> USE DEF Init, ComponentInit
<1>1. /\ IsFiniteSet(Bufs) /\ Cardinality(Bufs) \in Nat
  BY ComponentAssumption, FS_Union, FS_CardinalityType DEF Bufs
<1>2. /\ \A S : <<>> \in Seq(S)
      /\ Len(<<>>) = 0 /\ 1..0 = {} /\ Cardinality({}) = 0
  BY EmptySeq, FS_EmptySet
<1>3. \A p \in Ports : /\ mBuffers[p] = <<>> /\ m_cur_buf_num[p] = 0
                       /\ drv[p] = {}
                       /\ m_omx_bufhead[p] = [i \in 1..max_count(p) |-> NULL]
  BY DEF Both
<1>4. \A p \in Ports : Owned(p) = {}
  BY <1>2, <1>3 DEF Owned, Entries
<1>5. TypeOK
  <2>1. m_cur_buf_num \in [Ports -> 0..Cardinality(Bufs)]
    BY <1>1 DEF Both
  <2>2. mBuffers \in [Ports -> Seq(Bufs)]
    BY <1>2 DEF Both
  <2>3. drv \in [Ports -> SUBSET Bufs]
    BY DEF Both
  <2>4. /\ m_port_enabled \in [Ports -> BOOLEAN]
        /\ m_port_flushing \in [Ports -> BOOLEAN]
    BY DEF Both
  <2>5. /\ m_state \in {"Loaded", "Idle", "Executing"} /\ m_flags = {}
        /\ m_cmd_lock \in 0..1
        /\ toFlush \subseteq Ports /\ flushReq \subseteq Ports
    OBVIOUS
  <2>6. m_port_reconfig \in BOOLEAN
    OBVIOUS
  <2>7. /\ acodec \in {"Loaded", "LoadedToIdle", "IdleToExecuting",
                       "Executing", "OutputPortSettingsChanged", "Flushing",
                       "ExecutingToIdle", "IdleToLoaded"}
        /\ mStatus \in [Bufs -> {"US", "COMPONENT", "UPSTREAM", "DOWNSTREAM"}]
        /\ mActive \in BOOLEAN /\ mComponentNowIdle \in BOOLEAN
        /\ mFlushComplete \subseteq Ports
        /\ mState \in {"CONFIGURED", "STARTING", "STARTED", "FLUSHING",
                       "STOPPING"}
    OBVIOUS
  <2> HIDE DEF Init, ComponentInit
  <2> QED BY <2>1, <2>2, <2>3, <2>4, <2>5, <2>6, <2>7 DEF TypeOK
<1>6. CompOK
  <2>1. ev \in EvType
    BY <1>2 DEF EvType
  <2> QED BY <1>2, <1>3, <2>1 DEF CompOK
<1>7. CommandOK
  <2>1. Commands(ev.cmd) = 0
    BY <1>2 DEF Commands
  <2> QED BY <2>1 DEF CommandOK, Makes
<1>8. DOMAIN m_omx_bufhead = Ports /\ \A p \in Ports : HeadOK(p)
  BY <1>2, <1>3 DEF HeadOK, LinkedOnce
<1>9. HeadsMatch
  <2>1. \A p \in Ports : \A b \in BufsOf(p) : ~Registered(b)
    BY <1>3, BufsFacts DEF Registered
  <2> QED BY <1>2, <1>3, <1>4, <2>1 DEF HeadsMatch
<1>10. CallOK /\ LifeOK
  BY <1>2, <1>4 DEF CallOK, LifeOK
<1>11. OnePlace
  <2> SUFFICES ASSUME NEW b \in Bufs PROVE Places(b) <= 0 /\ Places(b) \in Nat
    BY DEF OnePlace
  <2>1. PortOf(b) \in Ports
    BY BufsFacts
  <2>2. InDriver(b) = 0 /\ Held(b) = 0
    BY <1>3, <1>4, <2>1 DEF InDriver, Held
  <2>3. MsgCount(msgs, b) = 0 /\ Count(cb, b) = 0 /\ EvWeight(ev, b) = 0
    BY <1>2 DEF MsgCount, Count, EvWeight
  <2>4. Places(b) = Flight(b) + Held(b)
    BY <1>6, PlacesFlight
  <2> QED BY <2>2, <2>3, <2>4 DEF Flight
<1> QED BY <1>5, <1>6, <1>7, <1>8, <1>9, <1>10, <1>11 DEF CodecInv

-------------------------------------------------------------------------------
(* Every behaviour of ACodec and the component keeps the invariant.        *)
LEMMA CodecInvariant == Spec => []CodecInv
<1>1. Init => CodecInv
  BY InitCodec
<1>2. CodecInv /\ [Next]_vars => CodecInv'
  BY NextPreserves
<1> QED BY <1>1, <1>2, PTL DEF Spec

(* Every variable of ACodec and of the component keeps its type, whatever  *)
(* order the calls, events, messages and callbacks come in.  In particular *)
(* the semaphore m_cmd_lock that send_command waits for is never posted    *)
(* twice, and m_cur_buf_num never counts below zero or past the headers.   *)
THEOREM CodecTypeCorrect == Spec => []TypeOK
<1>1. CodecInv => TypeOK
  BY DEF CodecInv
<1> QED BY <1>1, CodecInvariant, PTL

(* The headers that use_buffer and free_buffer keep in m_omx_bufhead are   *)
(* exactly the buffers in ACodec's mBuffers, and m_cur_buf_num counts      *)
(* them, for any number of buffers: no header is overwritten when a port   *)
(* is emptied in part or in full and filled again.                         *)
THEOREM CodecHeadsMatch == Spec => []HeadsMatch
<1>1. CodecInv => HeadsMatch
  BY DEF CodecInv
<1> QED BY <1>1, CodecInvariant, PTL

(* A buffer is in one place at most: with ACodec or MediaCodec, in a queue *)
(* of the component, in a driver message, in the driver or in a callback;  *)
(* and a buffer that free_buffer took is in none of them.                  *)
THEOREM CodecOnePlace == Spec => []OnePlace
<1>1. CodecInv => OnePlace
  BY DEF CodecInv
<1> QED BY <1>1, CodecInvariant, PTL
===============================================================================
