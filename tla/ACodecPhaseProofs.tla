-------------------------- MODULE ACodecPhaseProofs --------------------------
(***************************************************************************)
(* The phases of a command, and why the component keeps to them. CodecInv  *)
(* says where buffers and headers are; it does not say which answer may be *)
(* under way, what state the component is in when ACodec makes a call, or  *)
(* that a pending bit belongs to the command ACodec waits for. PhaseInv    *)
(* does.                                                                   *)
(*                                                                         *)
(* This module states PhaseInv and shows that the event thread, the        *)
(* message thread and the driver preserve it. ACodecCallProofs does the    *)
(* same for ACodec, and draws the conclusions.                             *)
(***************************************************************************)
EXTENDS ACodecProofs

(* The commands.  ACodec waits for one command at a time, and for a flush  *)
(* of each port.  A command is asked until the event thread has taken it;  *)
(* from then on there is at most one answer under way: the pending bit     *)
(* that will bring it, the event that carries it, or the callback.         *)
Asked == /\ calls # <<>>
         /\ \/ Head(calls).op = "send"
            \/ Head(calls).op = "sem_wait" /\ m_cmd_lock = 0

Reconfigures == acodec = "OutputPortSettingsChanged"
Disabling == Reconfigures /\ (m_port_enabled["out"] <=> Asked)
Enabling == Reconfigures /\ ~(m_port_enabled["out"] <=> Asked)
Stopping == acodec = "ExecutingToIdle" /\ ~mComponentNowIdle
ToIdle == acodec = "LoadedToIdle" \/ Stopping
Flushes(p) == acodec = "Flushing" /\ p \notin mFlushComplete

DoneEntry(cmd, arg) == Entry("COMMAND_DONE", cmd, arg)
Occurs(q, e) == Hits(q, {e})
Carried(cmd, arg) == Occurs(ev.cmd, DoneEntry(cmd, arg))
Told(cmd, arg) == Occurs(cb, CmdComplete(cmd, arg))
Bit(flag, q) == IF <<flag, q>> \in m_flags THEN 1 ELSE 0

Under(cmd, arg, flag, q) == Carried(cmd, arg) + Told(cmd, arg) + Bit(flag, q)

AnsweredOnce(cmd, arg, flag, q, awaited) ==
    Under(cmd, arg, flag, q) <= IF awaited /\ ~Asked THEN 1 ELSE 0

AnswerOK ==
    /\ AnsweredOnce("StateSet", "Idle", "IDLE", "all", ToIdle)
    /\ AnsweredOnce("StateSet", "Executing", "EXECUTE", "all",
                    acodec = "IdleToExecuting")
    /\ AnsweredOnce("StateSet", "Loaded", "LOADING", "all",
                    acodec = "IdleToLoaded")
    /\ AnsweredOnce("PortDisable", "out", "DISABLE", "out", Disabling)
    /\ AnsweredOnce("PortEnable", "out", "ENABLE", "out", Enabling)
    /\ \A p \in Ports : AnsweredOnce("Flush", p, "FLUSH", p, Flushes(p))

(* The commands, answers and bits there are.                               *)
Sought ==
    {c \in Names \X Args :
       \/ c = <<"StateSet", "Idle">> /\ ToIdle
       \/ c = <<"StateSet", "Executing">> /\ acodec = "IdleToExecuting"
       \/ c = <<"StateSet", "Loaded">> /\ acodec = "IdleToLoaded"
       \/ c = <<"PortDisable", "out">> /\ Disabling
       \/ c = <<"PortEnable", "out">> /\ Enabling
       \/ c = <<"Flush", "all">> /\ \A p \in Ports : Flushes(p)}

PortAnswers == {<<"PortDisable", "out">>, <<"PortEnable", "out">>}
DoneAnswers == {<<"StateSet", "Idle">>, <<"StateSet", "Loaded">>}
                  \cup PortAnswers
AllAnswers == DoneAnswers \cup {<<"StateSet", "Executing">>}
                 \cup ({"Flush"} \X Ports)
KnownEntry == {e \in CmdEntry : e.id = "COMMAND_DONE" =>
                                   <<e.p1, e.p2>> \in DoneAnswers}
KnownCallback == {c \in Callback :
                    /\ c.what = "CMD_COMPLETE" => <<c.p1, c.p2>> \in AllAnswers
                    /\ c.what = "BUFFER_DONE" => c.p1 \in Bufs}
KnownOK ==
    /\ ev.cmd \in Seq(KnownEntry) /\ cb \in Seq(KnownCallback)
    /\ \A i \in 1..Len(ev.cmd) : ev.cmd[i].id = "COMMAND" =>
                                   <<ev.cmd[i].p1, ev.cmd[i].p2>> \in Sought
    /\ m_flags \cap ({"ENABLE", "DISABLE"} \X {"in"}) = {}

(* The component's state is the one ACodec takes it to be in; it changes   *)
(* as the answer becomes a callback.                                       *)
StateOK ==
    /\ acodec = "Loaded" => m_state = "Loaded"
    /\ acodec = "LoadedToIdle" =>
         m_state = IF Told("StateSet", "Idle") > 0 THEN "Idle" ELSE "Loaded"
    /\ acodec = "IdleToExecuting" =>
         m_state = IF Told("StateSet", "Executing") > 0 THEN "Executing"
                   ELSE "Idle"
    /\ acodec \in {"Executing", "Flushing", "OutputPortSettingsChanged"} =>
         m_state = "Executing"
    /\ acodec = "ExecutingToIdle" =>
         m_state = IF mComponentNowIdle \/ Told("StateSet", "Idle") > 0
                   THEN "Idle" ELSE "Executing"
    /\ acodec = "IdleToLoaded" =>
         m_state = IF Told("StateSet", "Loaded") > 0 THEN "Loaded" ELSE "Idle"
    /\ Carried("StateSet", "Idle") > 0 => acodec = "LoadedToIdle"
    /\ m_port_enabled["in"]
    /\ ~Reconfigures => m_port_enabled["out"]

(* A flush of the input port is answered once; only an executing component *)
(* flushes.                                                                *)
EntriesOf(id) == {e \in CmdEntry : e.id = id}
MsgsOf(code) == {m \in Msg : m.code = code}
InputFlushes ==
    (IF "in" \in flushReq THEN 1 ELSE 0)
      + Hits(msgs, MsgsOf("FLUSH_INPUT_DONE"))
      + Hits(ev.cmd, EntriesOf("FLUSH_INPUT_DONE"))
FlushOK ==
    /\ InputFlushes <= IF m_port_flushing["in"] THEN 1 ELSE 0
    /\ m_port_flushing["in"] => \/ <<"FLUSH", "in">> \in m_flags
                                \/ Stopping /\ <<"IDLE", "all">> \in m_flags
    /\ m_port_flushing["in"] \/ m_port_flushing["out"] \/ toFlush # {} =>
         m_state = "Executing"
    /\ toFlush \in {{}, {"out"}, Ports}
    /\ toFlush = {"out"} => Disabling /\ Told("PortDisable", "out") = 0
    /\ toFlush = Ports => /\ Stopping /\ <<"IDLE", "all">> \in m_flags
                          /\ ~m_port_flushing["in"]

(* The answer to a stop comes before that of the flush made for the stop.  *)
StopFirst(q, Stops, Flushed) ==
    \A i, j \in 1..Len(q) : q[i] \in Flushed /\ q[j] \in Stops => j < i
StopOK ==
    /\ Hits(msgs, MsgsOf("STOP_DONE")) > 0
         \/ Hits(ev.cmd, EntriesOf("STOP_DONE")) > 0
         => toFlush = Ports \/ m_port_flushing["in"]
    /\ Hits(ev.cmd, EntriesOf("FLUSH_INPUT_DONE")) > 0 =>
         Hits(msgs, MsgsOf("STOP_DONE")) = 0
    /\ StopFirst(ev.cmd, EntriesOf("STOP_DONE"), EntriesOf("FLUSH_INPUT_DONE"))
    /\ StopFirst(msgs, MsgsOf("STOP_DONE"), MsgsOf("FLUSH_INPUT_DONE"))

(* What the calls of a handler find, by the command they belong to.        *)
Fits(op, b) ==
    /\ op = "use" => acodec = "LoadedToIdle" \/ (Enabling /\ b \in OutBufs)
    /\ op = "free" => /\ acodec = "IdleToLoaded" \/ (Disabling /\ b \in OutBufs)
                      /\ mStatus[b] = "US"
    /\ op = "free_not_owned" => Disabling /\ b \in OutBufs
    /\ op = "fill" => acodec = "Executing" /\ mActive /\ mStatus[b] = "US"
    /\ op = "empty" => /\ acodec = "Executing" \/ Reconfigures
                       /\ mActive /\ mStatus[b] = "US"
    /\ op \in BufOps \ {"use"} => b \in Owned(PortOf(b))
CallsOf(i) ==
    LET c == calls[i] IN
    /\ c.op = "send" => i = 1 /\ <<c.x, c.y>> \in Sought
    /\ c.op = "empty" => Len(calls) = 1
    /\ c.op \in BufOps =>
         /\ Fits(c.op, c.x)
         /\ \A j \in 1..Len(calls) :
              calls[j].op \in BufOps /\ calls[j].x = c.x => j = i
CallsOK == \A i \in 1..Len(calls) : CallsOf(i)

(* An ACodec that is not active has all buffers, and is full but for an    *)
(* output port being reconfigured.                                         *)
Inactive == \/ acodec \in {"LoadedToIdle", "IdleToExecuting", "IdleToLoaded"}
            \/ (acodec = "Executing" \/ Reconfigures) /\ ~mActive
BuffersOK ==
    /\ mActive => acodec = "Executing" \/ Reconfigures
    /\ Inactive => allYourBuffersAreBelongToUs
    /\ Enabling => \A b \in Owned("out") : mStatus[b] = "US"
    /\ \A b \in Bufs : mStatus[b] # "US" => b \in Owned(PortOf(b))
    /\ \A b \in OutBufs : mStatus[b] # "UPSTREAM"
    /\ acodec \notin {"Loaded", "LoadedToIdle", "IdleToLoaded"} =>
         m_cur_buf_num["in"] = max_count("in")
    /\ acodec = "LoadedToIdle" /\ ~Asked /\ <<"IDLE", "all">> \notin m_flags =>
         \A p \in Ports : m_cur_buf_num[p] = max_count(p)
    /\ acodec = "IdleToLoaded" /\ ~Asked /\ <<"LOADING", "all">> \notin m_flags =>
         \A p \in Ports : m_cur_buf_num[p] = 0
    /\ Disabling /\ ~Asked /\ <<"DISABLE", "out">> \notin m_flags =>
         m_cur_buf_num["out"] = 0

PhaseInv ==
    /\ AnswerOK /\ KnownOK /\ StateOK /\ FlushOK /\ StopOK /\ CallsOK
    /\ BuffersOK

-------------------------------------------------------------------------------
LEMMA HitsNat ==
    ASSUME NEW S, NEW q \in Seq(S), NEW T
    PROVE  Hits(q, T) \in Nat
BY HitsConcat

(* A queue without hits has no element of the set.                         *)
LEMMA HitsNone ==
    ASSUME NEW S, NEW q \in Seq(S), NEW T
    PROVE  Hits(q, T) = 0 <=> \A i \in 1..Len(q) : q[i] \notin T
<1> DEFINE A == {i \in 1..Len(q) : q[i] \in T}
<1>1. IsFiniteSet(A)
  <2>1. IsFiniteSet(1..Len(q)) /\ A \in SUBSET (1..Len(q))
    BY FS_Interval
  <2> QED BY <2>1, FS_Subset
<1>2. Cardinality(A) = 0 <=> A = {}
  BY <1>1, FS_EmptySet
<1> QED BY <1>2 DEF Hits

LEMMA NoCommands ==
    ASSUME NEW S, NEW q \in Seq(S), Commands(q) = 0
    PROVE  \A i \in 1..Len(q) : q[i].id # "COMMAND"
<1> DEFINE A == {i \in 1..Len(q) : q[i].id = "COMMAND"}
<1>1. IsFiniteSet(A)
  <2>1. IsFiniteSet(1..Len(q)) /\ A \in SUBSET (1..Len(q))
    BY FS_Interval
  <2> QED BY <2>1, FS_Subset
<1>2. A = {}
  BY <1>1, FS_EmptySet DEF Commands
<1> QED BY <1>2

(* The counts of the invariant are numbers.                                *)
LEMMA UnderFacts ==
    ASSUME CodecInv
    PROVE  /\ ev.cmd \in Seq(CmdEntry) /\ msgs \in Seq(Msg)
           /\ cb \in Seq(Callback)
           /\ \A T : Hits(ev.cmd, T) \in Nat /\ Hits(msgs, T) \in Nat
                        /\ Hits(cb, T) \in Nat
           /\ \A c, a : Carried(c, a) \in Nat /\ Told(c, a) \in Nat
           /\ \A f, q : Bit(f, q) \in {0, 1}
<1>1. /\ ev.cmd \in Seq(CmdEntry) /\ msgs \in Seq(Msg)
      /\ cb \in Seq(Callback)
  BY Typing DEF EvType
<1>2. \A T : Hits(ev.cmd, T) \in Nat /\ Hits(msgs, T) \in Nat
                /\ Hits(cb, T) \in Nat
  BY <1>1, HitsNat
<1> QED BY <1>1, <1>2 DEF Carried, Told, Occurs, Bit

LEMMA UnderFactsNext ==
    ASSUME CodecInv'
    PROVE  /\ ev'.cmd \in Seq(CmdEntry) /\ msgs' \in Seq(Msg)
           /\ cb' \in Seq(Callback)
           /\ \A T : Hits(ev'.cmd, T) \in Nat /\ Hits(msgs', T) \in Nat
                        /\ Hits(cb', T) \in Nat
           /\ \A c, a : Carried(c, a)' \in Nat /\ Told(c, a)' \in Nat
           /\ \A f, q : Bit(f, q)' \in {0, 1}
<1>1. CompOK'
  BY DEF CodecInv
<1>2. /\ ev'.cmd \in Seq(CmdEntry) /\ msgs' \in Seq(Msg)
      /\ cb' \in Seq(Callback)
  BY <1>1 DEF CompOK, EvType
<1>3. \A T : Hits(ev'.cmd, T) \in Nat /\ Hits(msgs', T) \in Nat
                /\ Hits(cb', T) \in Nat
  BY <1>2, HitsNat
<1> QED BY <1>2, <1>3 DEF Carried, Told, Occurs, Bit

(* One answer: where it is, there is no other.                             *)
LEMMA OneAnswer ==
    ASSUME CodecInv, NEW c, NEW a, NEW f, NEW q, NEW w,
           AnsweredOnce(c, a, f, q, w)
    PROVE  /\ Carried(c, a) \in Nat /\ Told(c, a) \in Nat
           /\ ~w \/ Asked => /\ Carried(c, a) = 0 /\ Told(c, a) = 0
                             /\ <<f, q>> \notin m_flags
           /\ <<f, q>> \in m_flags => Carried(c, a) = 0 /\ Told(c, a) = 0
           /\ Carried(c, a) > 0 => Carried(c, a) = 1 /\ Told(c, a) = 0
           /\ Told(c, a) > 0 => Told(c, a) = 1 /\ Carried(c, a) = 0
<1>1. Carried(c, a) \in Nat /\ Told(c, a) \in Nat /\ Bit(f, q) \in {0, 1}
  BY UnderFacts
<1>2. Bit(f, q) = 1 <=> <<f, q>> \in m_flags
  BY DEF Bit
<1>3. Carried(c, a) + Told(c, a) + Bit(f, q) <= 1
  BY <1>1 DEF AnsweredOnce, Under
<1>4. ~w \/ Asked => Carried(c, a) + Told(c, a) + Bit(f, q) <= 0
  BY <1>1 DEF AnsweredOnce, Under
<1> HIDE DEF Carried, Told, Bit
<1> QED BY <1>1, <1>2, <1>3, <1>4

(* The phases do not change while ACodec's state and the command it waits  *)
(* for stay.                                                               *)
LEMMA PhaseKept ==
    ASSUME UNCHANGED <<acodec, mComponentNowIdle, mFlushComplete,
                       m_port_enabled>>,
           Asked' <=> Asked
    PROVE  /\ Disabling' <=> Disabling
           /\ Enabling' <=> Enabling
           /\ Reconfigures' <=> Reconfigures
           /\ Stopping' <=> Stopping
           /\ ToIdle' <=> ToIdle
           /\ \A p \in Ports : Flushes(p)' <=> Flushes(p)
           /\ Sought' = Sought
<1>1. /\ Reconfigures' <=> Reconfigures
      /\ Stopping' <=> Stopping
      /\ \A p \in Ports : Flushes(p)' <=> Flushes(p)
  BY DEF Reconfigures, Stopping, Flushes
<1>2. /\ Disabling' <=> Disabling
      /\ Enabling' <=> Enabling
      /\ ToIdle' <=> ToIdle
  BY <1>1 DEF Disabling, Enabling, ToIdle
<1>3. Sought' = Sought
  BY <1>1, <1>2 DEF Sought
<1> QED BY <1>1, <1>2, <1>3

LEMMA SamePhase ==
    ASSUME UNCHANGED <<acodec, calls, mComponentNowIdle, mFlushComplete,
                       m_port_enabled, m_cmd_lock>>
    PROVE  /\ Asked' <=> Asked
           /\ Disabling' <=> Disabling
           /\ Enabling' <=> Enabling
           /\ Reconfigures' <=> Reconfigures
           /\ Stopping' <=> Stopping
           /\ ToIdle' <=> ToIdle
           /\ \A p \in Ports : Flushes(p)' <=> Flushes(p)
           /\ Sought' = Sought
<1>1. Asked' <=> Asked
  BY DEF Asked
<1> QED BY <1>1, PhaseKept

LEMMA AnswerStep ==
    ASSUME CodecInv, CodecInv', AnswerOK,
           UNCHANGED <<acodec, mComponentNowIdle, mFlushComplete,
                       m_port_enabled>>,
           Asked' <=> Asked,
           Under("StateSet", "Idle", "IDLE", "all")'
             <= Under("StateSet", "Idle", "IDLE", "all"),
           Under("StateSet", "Executing", "EXECUTE", "all")'
             <= Under("StateSet", "Executing", "EXECUTE", "all"),
           Under("StateSet", "Loaded", "LOADING", "all")'
             <= Under("StateSet", "Loaded", "LOADING", "all"),
           Under("PortDisable", "out", "DISABLE", "out")'
             <= Under("PortDisable", "out", "DISABLE", "out"),
           Under("PortEnable", "out", "ENABLE", "out")'
             <= Under("PortEnable", "out", "ENABLE", "out"),
           \A p \in Ports : Under("Flush", p, "FLUSH", p)'
                              <= Under("Flush", p, "FLUSH", p)
    PROVE  AnswerOK'
<1>1. \A c, a, f, q : Under(c, a, f, q) \in Nat /\ Under(c, a, f, q)' \in Nat
  <2>1. \A n, m \in Nat, k \in {0, 1} : n + m + k \in Nat
    OBVIOUS
  <2> QED BY <2>1, UnderFacts, UnderFactsNext DEF Under
<1>2. ASSUME NEW x \in Nat, NEW y \in Nat, NEW z \in {0, 1}, x <= y, y <= z
      PROVE  x <= z
  BY <1>2
<1>3. ASSUME NEW c, NEW a, NEW f, NEW q, NEW w, NEW v, v <=> w,
             AnsweredOnce(c, a, f, q, w), Under(c, a, f, q)' <= Under(c, a, f, q)
      PROVE  Under(c, a, f, q)' <= IF v /\ ~Asked' THEN 1 ELSE 0
  BY <1>1, <1>2, <1>3 DEF AnsweredOnce
<1> USE <1>3, PhaseKept DEF AnsweredOnce, AnswerOK
<1>4. AnsweredOnce("StateSet", "Idle", "IDLE", "all", ToIdle)'
  OBVIOUS
<1>5. AnsweredOnce("StateSet", "Executing", "EXECUTE", "all",
                   acodec = "IdleToExecuting")'
  OBVIOUS
<1>6. AnsweredOnce("StateSet", "Loaded", "LOADING", "all",
                   acodec = "IdleToLoaded")'
  OBVIOUS
<1>7. AnsweredOnce("PortDisable", "out", "DISABLE", "out", Disabling)'
  OBVIOUS
<1>8. AnsweredOnce("PortEnable", "out", "ENABLE", "out", Enabling)'
  OBVIOUS
<1>9. \A p \in Ports : AnsweredOnce("Flush", p, "FLUSH", p, Flushes(p))'
  OBVIOUS
<1> QED BY <1>4, <1>5, <1>6, <1>7, <1>8, <1>9

-------------------------------------------------------------------------------
(* The order of the answers of a stop and of its flush.                    *)
LEMMA StopFirstTail ==
    ASSUME NEW S, NEW q \in Seq(S), q # <<>>, NEW A, NEW B, StopFirst(q, A, B)
    PROVE  StopFirst(Tail(q), A, B)
<1>1. /\ Len(q) \in Nat \ {0} /\ Len(Tail(q)) = Len(q) - 1
      /\ \A i \in 1..(Len(q) - 1) : Tail(q)[i] = q[i + 1]
  BY EmptySeq
<1>2. ASSUME NEW i \in 1..Len(Tail(q)), NEW j \in 1..Len(Tail(q)),
             Tail(q)[i] \in B, Tail(q)[j] \in A
      PROVE  j < i
  <2>1. i + 1 \in 1..Len(q) /\ j + 1 \in 1..Len(q)
    BY <1>1
  <2>2. q[i + 1] \in B /\ q[j + 1] \in A
    BY <1>1, <1>2
  <2>3. j + 1 < i + 1
    BY <2>1, <2>2 DEF StopFirst
  <2> QED BY <2>3, <1>1
<1> QED BY <1>2 DEF StopFirst

LEMMA StopFirstAppend ==
    ASSUME NEW S, NEW q \in Seq(S), NEW e \in S, NEW A, NEW B,
           StopFirst(q, A, B), e \in A => e \notin B /\ Hits(q, B) = 0
    PROVE  StopFirst(Append(q, e), A, B)
<1>1. /\ Len(q) \in Nat /\ Len(Append(q, e)) = Len(q) + 1
      /\ \A i \in 1..Len(q) : Append(q, e)[i] = q[i]
      /\ Append(q, e)[Len(q) + 1] = e
  OBVIOUS
<1>2. ASSUME NEW i \in 1..(Len(q) + 1), NEW j \in 1..(Len(q) + 1),
             Append(q, e)[i] \in B, Append(q, e)[j] \in A
      PROVE  j < i
  <2>1. CASE j = Len(q) + 1
    <3>1. e \in A /\ e \notin B /\ \A k \in 1..Len(q) : q[k] \notin B
      BY <1>1, <1>2, <2>1, HitsNone
    <3>2. i = Len(q) + 1 \/ i \in 1..Len(q)
      BY <1>1
    <3> QED BY <1>1, <1>2, <3>1, <3>2
  <2>2. CASE j \in 1..Len(q) /\ i = Len(q) + 1
    BY <1>1, <2>2
  <2>3. CASE j \in 1..Len(q) /\ i \in 1..Len(q)
    <3>1. q[i] \in B /\ q[j] \in A
      BY <1>1, <1>2, <2>3
    <3> QED BY <2>3, <3>1 DEF StopFirst
  <2>4. \A k \in 1..(Len(q) + 1) : k = Len(q) + 1 \/ k \in 1..Len(q)
    BY <1>1
  <2> QED BY <2>1, <2>2, <2>3, <2>4
<1> QED BY <1>1, <1>2 DEF StopFirst

LEMMA StopFirstHead ==
    ASSUME NEW S, NEW q \in Seq(S), q # <<>>, NEW A, NEW B,
           StopFirst(q, A, B), Head(q) \in B
    PROVE  Hits(Tail(q), A) = 0 /\ Hits(q, A) = 0
<1>1. /\ Len(q) \in Nat \ {0} /\ Len(Tail(q)) = Len(q) - 1
      /\ \A i \in 1..(Len(q) - 1) : Tail(q)[i] = q[i + 1]
      /\ Head(q) = q[1] /\ Tail(q) \in Seq(S)
  BY EmptySeq
<1>2. ASSUME NEW j \in 1..Len(q) PROVE q[j] \notin A
  <2>1. q[j] \in A => j < 1
    BY <1>1 DEF StopFirst
  <2> QED BY <1>1, <2>1
<1>3. Hits(q, A) = 0
  BY <1>2, HitsNone
<1>4. \A i \in 1..Len(Tail(q)) : Tail(q)[i] \notin A
  BY <1>1, <1>2
<1>5. Hits(Tail(q), A) = 0
  BY <1>1, <1>4, HitsNone
<1> QED BY <1>3, <1>5

-------------------------------------------------------------------------------
(* What a step leaves, conjunct by conjunct.                               *)
LEMMA CallsSame ==
    ASSUME CallsOK,
           UNCHANGED <<acodec, calls, mComponentNowIdle, mFlushComplete,
                       mActive, mBuffers, mStatus, m_port_enabled, m_cmd_lock>>
    PROVE  CallsOK'
<1>1. /\ Disabling' <=> Disabling
      /\ Enabling' <=> Enabling
      /\ Reconfigures' <=> Reconfigures
      /\ Sought' = Sought
  BY SamePhase
<1>2. \A p \in Ports : Owned(p)' = Owned(p)
  BY DEF Owned
<1>3. ASSUME NEW i \in 1..Len(calls) PROVE CallsOf(i)'
  <2>1. CallsOf(i)
    BY DEF CallsOK
  <2>2. PortOf(calls[i].x) \in Ports
    BY DEF PortOf, Ports
  <2>3. Owned(PortOf(calls[i].x))' = Owned(PortOf(calls[i].x))
    BY DEF Owned
  <2> QED BY <1>1, <2>1, <2>3 DEF CallsOf, Fits
<1> QED BY <1>3 DEF CallsOK

LEMMA BuffersSame ==
    ASSUME BuffersOK,
           UNCHANGED <<acodec, calls, mComponentNowIdle, mFlushComplete,
                       mActive, mBuffers, mStatus, m_port_enabled, m_cmd_lock,
                       m_cur_buf_num>>,
           acodec = "LoadedToIdle" /\ <<"IDLE", "all">> \in m_flags =>
              <<"IDLE", "all">> \in m_flags',
           <<"LOADING", "all">> \in m_flags => <<"LOADING", "all">> \in m_flags',
           <<"DISABLE", "out">> \in m_flags => <<"DISABLE", "out">> \in m_flags'
    PROVE  BuffersOK'
<1>1. /\ Disabling' <=> Disabling
      /\ Enabling' <=> Enabling
      /\ Asked' <=> Asked
      /\ Reconfigures' <=> Reconfigures
  BY SamePhase
<1>2. Inactive' <=> Inactive
  BY <1>1 DEF Inactive
<1>3. /\ allYourBuffersAreBelongToUs' <=> allYourBuffersAreBelongToUs
      /\ \A p : Owned(p)' = Owned(p)
  BY DEF allYourBuffersAreBelongToUs, Owned
<1> QED BY <1>1, <1>2, <1>3 DEF BuffersOK

LEMMA StateSame ==
    ASSUME StateOK, CodecInv, CodecInv',
           UNCHANGED <<acodec, m_state, mComponentNowIdle, m_port_enabled>>,
           \A a : Told("StateSet", a)' = Told("StateSet", a),
           Carried("StateSet", "Idle")' <= Carried("StateSet", "Idle")
    PROVE  StateOK'
<1>1. Carried("StateSet", "Idle")' > 0 => Carried("StateSet", "Idle") > 0
  BY UnderFacts, UnderFactsNext
<1>2. Reconfigures' <=> Reconfigures
  BY DEF Reconfigures
<1> QED BY <1>1, <1>2 DEF StateOK

LEMMA KnownSame ==
    ASSUME CodecInv, KnownOK,
           UNCHANGED <<acodec, mComponentNowIdle, mFlushComplete,
                       m_port_enabled>>,
           Asked' <=> Asked,
           m_flags' \subseteq m_flags, cb' \in Seq(KnownCallback),
           NEW k \in KnownEntry, k.id # "COMMAND",
           \/ ev'.cmd = ev.cmd
           \/ ev.cmd # <<>> /\ ev'.cmd = Tail(ev.cmd)
           \/ ev'.cmd = Append(ev.cmd, k)
    PROVE  KnownOK'
<1>1. Sought' = Sought
  BY PhaseKept
<1>2. ev.cmd \in Seq(KnownEntry)
  BY DEF KnownOK
<1>3. ev'.cmd \in Seq(KnownEntry)
  <2>1. CASE ev'.cmd = ev.cmd
    BY <1>2, <2>1
  <2>2. CASE ev.cmd # <<>> /\ ev'.cmd = Tail(ev.cmd)
    BY <1>2, <2>2, HeadTailProperties
  <2>3. CASE ev'.cmd = Append(ev.cmd, k)
    BY <1>2, <2>3
  <2> QED BY <2>1, <2>2, <2>3
<1>4. ASSUME NEW i \in 1..Len(ev'.cmd), ev'.cmd[i].id = "COMMAND"
      PROVE  \E j \in 1..Len(ev.cmd) : ev.cmd[j] = ev'.cmd[i]
  <2>1. CASE ev'.cmd = ev.cmd
    BY <2>1
  <2>2. CASE ev.cmd # <<>> /\ ev'.cmd = Tail(ev.cmd)
    <3>1. Len(ev.cmd) \in Nat \ {0} /\ Len(ev'.cmd) = Len(ev.cmd) - 1
      BY <1>2, <2>2, EmptySeq
    <3>2. ev'.cmd[i] = ev.cmd[i + 1] /\ i + 1 \in 1..Len(ev.cmd)
      BY <1>2, <2>2, <3>1
    <3> QED BY <3>2
  <2>3. CASE ev'.cmd = Append(ev.cmd, k)
    <3>1. Len(ev.cmd) \in Nat /\ Len(ev'.cmd) = Len(ev.cmd) + 1
      BY <1>2, <2>3
    <3>2. ev'.cmd[Len(ev.cmd) + 1] = k
      BY <1>2, <2>3
    <3>3. i \in 1..Len(ev.cmd)
      BY <1>4, <3>1, <3>2
    <3>4. ev'.cmd[i] = ev.cmd[i]
      BY <1>2, <2>3, <3>3
    <3> QED BY <3>3, <3>4
  <2> QED BY <2>1, <2>2, <2>3
<1>5. ASSUME NEW i \in 1..Len(ev'.cmd), ev'.cmd[i].id = "COMMAND"
      PROVE  <<ev'.cmd[i].p1, ev'.cmd[i].p2>> \in Sought
  <2>1. PICK j \in 1..Len(ev.cmd) : ev.cmd[j] = ev'.cmd[i]
    BY <1>4, <1>5
  <2>2. <<ev.cmd[j].p1, ev.cmd[j].p2>> \in Sought
    BY <1>5, <2>1 DEF KnownOK
  <2> QED BY <2>1, <2>2
<1>6. m_flags' \cap ({"ENABLE", "DISABLE"} \X {"in"}) = {}
  BY DEF KnownOK
<1> QED BY <1>1, <1>3, <1>5, <1>6 DEF KnownOK

LEMMA InputFlushesNat ==
    ASSUME CodecInv
    PROVE  InputFlushes \in Nat
<1>1. \A T : Hits(ev.cmd, T) \in Nat /\ Hits(msgs, T) \in Nat
  BY UnderFacts
<1> QED BY <1>1 DEF InputFlushes

LEMMA InputFlushesNatNext ==
    ASSUME CodecInv'
    PROVE  InputFlushes' \in Nat
<1>1. \A T : Hits(ev'.cmd, T) \in Nat /\ Hits(msgs', T) \in Nat
  BY UnderFactsNext
<1> QED BY <1>1 DEF InputFlushes

LEMMA FlushSame ==
    ASSUME CodecInv, CodecInv', FlushOK,
           UNCHANGED <<acodec, mComponentNowIdle, toFlush, m_port_flushing>>,
           m_state' = m_state \/ m_state' = "Executing",
           <<"FLUSH", "in">> \in m_flags => <<"FLUSH", "in">> \in m_flags',
           Stopping /\ <<"IDLE", "all">> \in m_flags =>
              <<"IDLE", "all">> \in m_flags',
           InputFlushes' <= InputFlushes,
           \/ toFlush = {}
           \/ /\ m_port_enabled' = m_port_enabled /\ (Asked' <=> Asked)
              /\ Told("PortDisable", "out")' = Told("PortDisable", "out")
    PROVE  FlushOK'
<1>1. InputFlushes \in Nat /\ InputFlushes' \in Nat
  BY InputFlushesNat, InputFlushesNatNext
<1>2. /\ Stopping' <=> Stopping
      /\ Reconfigures' <=> Reconfigures
  BY DEF Stopping, Reconfigures
<1>3. InputFlushes' <= IF m_port_flushing'["in"] THEN 1 ELSE 0
  BY <1>1 DEF FlushOK
<1>4. toFlush = {"out"} => Disabling' /\ Told("PortDisable", "out")' = 0
  BY <1>2 DEF FlushOK, Disabling
<1> QED BY <1>2, <1>3, <1>4 DEF FlushOK

(* The event thread takes the first command event, if any.                 *)
Pops == \/ ev'.cmd = ev.cmd
        \/ ev.cmd # <<>> /\ ev'.cmd = Tail(ev.cmd)

LEMMA PopHits ==
    ASSUME CodecInv, Pops
    PROVE  \A T : Hits(ev'.cmd, T) <= Hits(ev.cmd, T)
<1> SUFFICES ASSUME NEW T PROVE Hits(ev'.cmd, T) <= Hits(ev.cmd, T)
  OBVIOUS
<1>1. ev.cmd \in Seq(CmdEntry) /\ Hits(ev.cmd, T) \in Nat
  BY UnderFacts
<1>2. CASE ev'.cmd = ev.cmd
  BY <1>1, <1>2
<1>3. CASE ev.cmd # <<>> /\ ev'.cmd = Tail(ev.cmd)
  <2>1. Hits(ev.cmd, T) = (IF Head(ev.cmd) \in T THEN 1 ELSE 0)
                             + Hits(Tail(ev.cmd), T)
    BY <1>1, <1>3, HitsTail
  <2>2. Tail(ev.cmd) \in Seq(CmdEntry)
    BY <1>1, <1>3, HeadTailProperties
  <2>3. Hits(Tail(ev.cmd), T) \in Nat
    BY <2>2, HitsNat
  <2> QED BY <1>1, <1>3, <2>1, <2>3
<1> QED BY <1>2, <1>3 DEF Pops

LEMMA StopPop ==
    ASSUME CodecInv, CodecInv', StopOK, Pops,
           UNCHANGED <<toFlush, m_port_flushing, msgs>>
    PROVE  StopOK'
<1>1. /\ \A T : Hits(ev'.cmd, T) <= Hits(ev.cmd, T)
      /\ \A T : Hits(ev'.cmd, T) \in Nat /\ Hits(ev.cmd, T) \in Nat
      /\ ev.cmd \in Seq(CmdEntry)
  BY PopHits, UnderFacts, UnderFactsNext
<1>2. \A T : Hits(ev'.cmd, T) > 0 => Hits(ev.cmd, T) > 0
  BY <1>1
<1>3. StopFirst(ev'.cmd, EntriesOf("STOP_DONE"), EntriesOf("FLUSH_INPUT_DONE"))
  <2>1. StopFirst(ev.cmd, EntriesOf("STOP_DONE"), EntriesOf("FLUSH_INPUT_DONE"))
    BY DEF StopOK
  <2> QED BY <1>1, <2>1, StopFirstTail DEF Pops
<1>4. /\ EntriesOf("STOP_DONE")' = EntriesOf("STOP_DONE")
      /\ EntriesOf("FLUSH_INPUT_DONE")' = EntriesOf("FLUSH_INPUT_DONE")
      /\ MsgsOf("STOP_DONE")' = MsgsOf("STOP_DONE")
      /\ MsgsOf("FLUSH_INPUT_DONE")' = MsgsOf("FLUSH_INPUT_DONE")
  OBVIOUS
<1>5. /\ Hits(ev'.cmd, EntriesOf("STOP_DONE")) > 0
           => Hits(ev.cmd, EntriesOf("STOP_DONE")) > 0
      /\ Hits(ev'.cmd, EntriesOf("FLUSH_INPUT_DONE")) > 0
           => Hits(ev.cmd, EntriesOf("FLUSH_INPUT_DONE")) > 0
  BY <1>2
<1>6. StopFirst(msgs', MsgsOf("STOP_DONE"), MsgsOf("FLUSH_INPUT_DONE"))
  BY DEF StopOK
<1> QED BY <1>3, <1>5, <1>6 DEF StopOK

LEMMA InputFlushesPop ==
    ASSUME CodecInv, CodecInv', Pops, UNCHANGED <<flushReq, msgs>>
    PROVE  InputFlushes' <= InputFlushes
<1>1. Hits(ev'.cmd, EntriesOf("FLUSH_INPUT_DONE"))
        <= Hits(ev.cmd, EntriesOf("FLUSH_INPUT_DONE"))
  BY PopHits
<1>2. \A T : Hits(ev'.cmd, T) \in Nat /\ Hits(ev.cmd, T) \in Nat
                /\ Hits(msgs, T) \in Nat
  BY UnderFacts, UnderFactsNext
<1>3. ASSUME NEW x \in Nat, NEW y \in Nat, NEW z \in Nat, NEW u \in Nat, z <= u
      PROVE  x + y + z <= x + y + u
  BY <1>3
<1>4. (IF "in" \in flushReq THEN 1 ELSE 0) \in Nat
  OBVIOUS
<1> QED BY <1>1, <1>2, <1>3, <1>4 DEF InputFlushes

LEMMA CarriedPop ==
    ASSUME CodecInv, Pops
    PROVE  \A c, a : Carried(c, a)' <= Carried(c, a)
BY PopHits DEF Carried, Occurs

LEMMA UnderLess ==
    ASSUME CodecInv, CodecInv', m_flags' \subseteq m_flags, NEW c, NEW a,
           Carried(c, a)' <= Carried(c, a), Told(c, a)' = Told(c, a)
    PROVE  \A f, q : Under(c, a, f, q)' <= Under(c, a, f, q)
<1> SUFFICES ASSUME NEW f, NEW q
             PROVE  Under(c, a, f, q)' <= Under(c, a, f, q)
  OBVIOUS
<1>1. /\ Carried(c, a) \in Nat /\ Told(c, a) \in Nat
      /\ Carried(c, a)' \in Nat
      /\ Bit(f, q) \in {0, 1} /\ Bit(f, q)' \in {0, 1}
  BY UnderFacts, UnderFactsNext
<1>2. Bit(f, q)' <= Bit(f, q)
  BY DEF Bit
<1> QED BY <1>1, <1>2 DEF Under

(* An event that is no answer, or is dropped.                              *)
LEMMA PopQuiet ==
    ASSUME CodecInv, CodecInv', PhaseInv, UNCHANGED codecVars, Pops,
           UNCHANGED <<m_state, m_flags, m_port_enabled, m_port_flushing,
                       headVars, m_cmd_lock, toFlush, flushReq, msgs>>,
           cb' \in Seq(KnownCallback), \A c, a : Told(c, a)' = Told(c, a)
    PROVE  PhaseInv'
<1> USE DEF PhaseInv, codecVars, callVars, modeVars, userVars, headVars
<1>1. \A c, a : Carried(c, a)' <= Carried(c, a)
  BY CarriedPop
<1>2. AnswerOK'
  <2>1. \A c, a, f, q : Under(c, a, f, q)' <= Under(c, a, f, q)
    BY <1>1, UnderLess
  <2> QED BY <2>1, SamePhase, AnswerStep
<1>3. KnownOK'
  <2>1. PICK k : k = Entry("STOP_DONE", NULL, "empty")
    OBVIOUS
  <2>2. k \in KnownEntry /\ k.id # "COMMAND"
    BY <2>1 DEF KnownEntry, CmdEntry, Entry, Ids, DriverIds, Names, Args
  <2> QED BY <2>2, SamePhase, KnownSame DEF Pops
<1>4. StateOK'
  BY <1>1, StateSame
<1>5. FlushOK'
  BY InputFlushesPop, SamePhase, FlushSame
<1>6. StopOK'
  BY StopPop
<1>7. CallsOK'
  BY CallsSame
<1>8. BuffersOK'
  BY BuffersSame
<1> QED BY <1>2, <1>3, <1>4, <1>5, <1>6, <1>7, <1>8

-------------------------------------------------------------------------------
(* The steps of the component.                                             *)
LEMMA TakesPop ==
    ASSUME CodecInv, NEW id, Takes(id), QueueOf(id) = "cmd"
    PROVE  /\ ev.cmd # <<>> /\ Popped(id).cmd = Tail(ev.cmd)
           /\ First(id) = Head(ev.cmd) /\ Head(ev.cmd).id = id
           /\ Head(ev.cmd) \in CmdEntry
BY TakesFacts, TakesCommandFacts, PopFacts

LEMMA ToldAppend ==
    ASSUME CodecInv, NEW x \in KnownCallback, cb \in Seq(KnownCallback),
           cb' = Append(cb, x)
    PROVE  /\ cb' \in Seq(KnownCallback)
           /\ \A c, a : Told(c, a)' = Told(c, a)
                          + (IF x = CmdComplete(c, a) THEN 1 ELSE 0)
           /\ x.what # "CMD_COMPLETE" =>
                \A c, a : Told(c, a)' = Told(c, a)
<1>1. \A T : Hits(cb', T) = Hits(cb, T) + (IF x \in T THEN 1 ELSE 0)
  BY HitsAppend
<1>2. ASSUME NEW c, NEW a
      PROVE  Told(c, a)' = Told(c, a)
                             + (IF x = CmdComplete(c, a) THEN 1 ELSE 0)
  <2>1. x \in {CmdComplete(c, a)} <=> x = CmdComplete(c, a)
    OBVIOUS
  <2> QED BY <1>1, <2>1 DEF Told, Occurs
<1>3. ASSUME x.what # "CMD_COMPLETE", NEW c, NEW a
      PROVE  Told(c, a)' = Told(c, a)
  <2>1. x # CmdComplete(c, a)
    BY <1>3 DEF CmdComplete
  <2>2. Told(c, a) \in Nat
    BY UnderFacts
  <2> QED BY <1>2, <2>1, <2>2
<1>4. cb' \in Seq(KnownCallback)
  OBVIOUS
<1> QED BY <1>2, <1>3, <1>4

LEMMA EventIgnoredPhase ==
    ASSUME CodecInv, PhaseInv, EventIgnored, UNCHANGED codecVars
    PROVE  PhaseInv'
<1>1. CodecInv'
  BY EventIgnoredStep
<1>2. Pops
  <2>1. PICK id : id = Head(ev.pipe)
    OBVIOUS
  <2>2. ev \in EvType /\ ev.pipe # <<>>
    BY Typing DEF EventIgnored, Pending
  <2>3. CASE ev[QueueOf(id)] = <<>>
    <3>1. ev' = [ev EXCEPT !.pipe = Tail(@)]
      BY <2>1, <2>3 DEF EventIgnored
    <3> QED BY <2>2, <3>1 DEF EvType, Pops
  <2>4. CASE ev[QueueOf(id)] # <<>>
    <3>1. ev' = Pop(ev, id)
      BY <2>1, <2>4 DEF EventIgnored, Popped, Pop
    <3>2. ev'.cmd = IF QueueOf(id) = "cmd" THEN Tail(ev.cmd) ELSE ev.cmd
      BY <2>2, <2>4, <3>1, PopFacts
    <3> QED BY <2>4, <3>2 DEF Pops
  <2> QED BY <2>3, <2>4
<1>3. cb' = cb
  BY DEF EventIgnored
<1>4. cb' \in Seq(KnownCallback) /\ \A c, a : Told(c, a)' = Told(c, a)
  BY <1>3 DEF PhaseInv, KnownOK, Told
<1>5. UNCHANGED <<m_state, m_flags, m_port_enabled, m_port_flushing, headVars,
                  m_cmd_lock, toFlush, flushReq, msgs>>
  BY DEF EventIgnored, portVars, drvVars
<1> QED BY <1>1, <1>2, <1>4, <1>5, PopQuiet

LEMMA SubmitProxyPhase ==
    ASSUME CodecInv, PhaseInv, NEW p \in Ports, SubmitProxy(p),
           UNCHANGED codecVars
    PROVE  PhaseInv'
<1>1. CodecInv'
  BY SubmitProxyStep
<1>2. Pops
  <2>1. PICK b, e : b = First(This(p)).p1 /\ e = Popped(This(p))
    OBVIOUS
  <2>2. e \in EvType /\ e.cmd = ev.cmd /\ b \in BufsOf(p)
    BY <2>1, TakesBufferFacts DEF SubmitProxy
  <2>3. ev' = e \/ ev' = post_event(e, Done(p), b, "empty")
    BY <2>1 DEF SubmitProxy
  <2>4. post_event(e, Done(p), b, "empty").cmd = e.cmd
    BY <2>2, PostBuffer
  <2> QED BY <2>2, <2>3, <2>4 DEF Pops
<1>3. cb' = cb
  BY DEF SubmitProxy
<1>4. cb' \in Seq(KnownCallback) /\ \A c, a : Told(c, a)' = Told(c, a)
  BY <1>3 DEF PhaseInv, KnownOK, Told
<1>5. UNCHANGED <<m_state, m_flags, m_port_enabled, m_port_flushing, headVars,
                  m_cmd_lock, toFlush, flushReq, msgs>>
  BY DEF SubmitProxy, portVars
<1> QED BY <1>1, <1>2, <1>4, <1>5, PopQuiet

LEMMA GenerateDonePhase ==
    ASSUME CodecInv, PhaseInv, NEW p \in Ports, GenerateDone(p),
           UNCHANGED codecVars
    PROVE  PhaseInv'
<1>1. CodecInv'
  BY GenerateDoneStep
<1>2. PICK e : e = First(Done(p))
  OBVIOUS
<1>3. PICK x : x = BufferDone(e.p1, DoneLength(p, e.p2))
  OBVIOUS
<1>4. ev'.cmd = ev.cmd /\ e \in BufEntry(p) /\ e.p1 \in Bufs
  BY <1>2, TakesBufferFacts DEF GenerateDone
<1>5. cb' = Append(cb, x)
  BY <1>2, <1>3 DEF GenerateDone
<1>6. x \in KnownCallback /\ x.what # "CMD_COMPLETE"
  <2>1. DoneLength(p, e.p2) \in {"empty", "data"}
    BY <1>4 DEF DoneLength, BufEntry
  <2> QED BY <1>3, <1>4, <2>1 DEF BufferDone, Callback, Args, KnownCallback
<1>7. cb \in Seq(KnownCallback)
  BY DEF PhaseInv, KnownOK
<1>8. cb' \in Seq(KnownCallback) /\ \A c, a : Told(c, a)' = Told(c, a)
  BY <1>5, <1>6, <1>7, ToldAppend
<1>9. UNCHANGED <<m_state, m_flags, m_port_enabled, m_port_flushing, headVars,
                  m_cmd_lock, toFlush, flushReq, msgs>>
  BY DEF GenerateDone, portVars, drvVars
<1>10. Pops
  BY <1>4 DEF Pops
<1> QED BY <1>1, <1>8, <1>9, <1>10, PopQuiet

LEMMA ImageSizeChangePhase ==
    ASSUME CodecInv, PhaseInv, ImageSizeChange, UNCHANGED codecVars
    PROVE  PhaseInv'
<1>1. CodecInv'
  BY ImageSizeChangeStep
<1>2. QueueOf("IMAGE_SIZE_CHANGE") = "cmd"
  BY DEF QueueOf
<1>3. Pops
  BY <1>2, TakesPop DEF ImageSizeChange, Pops
<1>4. cb' = Append(cb, SettingsChanged)
  BY DEF ImageSizeChange
<1>5. SettingsChanged \in KnownCallback /\ SettingsChanged.what # "CMD_COMPLETE"
  BY DEF SettingsChanged, Callback, Args, KnownCallback, Names
<1>6. cb \in Seq(KnownCallback)
  BY DEF PhaseInv, KnownOK
<1>7. cb' \in Seq(KnownCallback) /\ \A c, a : Told(c, a)' = Told(c, a)
  BY <1>4, <1>5, <1>6, ToldAppend
<1>8. UNCHANGED <<m_state, m_flags, m_port_enabled, m_port_flushing, headVars,
                  m_cmd_lock, toFlush, flushReq, msgs>>
  BY DEF ImageSizeChange, drvVars
<1> QED BY <1>1, <1>3, <1>7, <1>8, PopQuiet

(* A step of the driver or of the message thread.                          *)
LEMMA MessageQuiet ==
    ASSUME CodecInv, CodecInv', PhaseInv, UNCHANGED codecVars,
           UNCHANGED <<m_state, m_flags, m_port_enabled, headVars, m_cmd_lock,
                       cb>>,
           \A c, a : Carried(c, a)' <= Carried(c, a),
           KnownOK', FlushOK', StopOK'
    PROVE  PhaseInv'
<1> USE DEF PhaseInv, codecVars, callVars, modeVars, userVars, headVars
<1>1. \A c, a : Told(c, a)' = Told(c, a)
  BY DEF Told
<1>2. AnswerOK'
  <2>1. \A c, a, f, q : Under(c, a, f, q)' <= Under(c, a, f, q)
    BY <1>1, UnderLess
  <2> QED BY <2>1, SamePhase, AnswerStep
<1>3. StateOK'
  BY <1>1, StateSame
<1>4. CallsOK'
  BY CallsSame
<1>5. BuffersOK'
  BY BuffersSame
<1> QED BY <1>2, <1>3, <1>4, <1>5

LEMMA ByKind ==
    /\ \A id : \A e \in CmdEntry : e \in EntriesOf(id) <=> e.id = id
    /\ \A code : \A m \in Msg : m \in MsgsOf(code) <=> m.code = code
BY DEF EntriesOf, MsgsOf

(* The messages as the message thread takes one, or the driver sends one.  *)
LEMMA MsgsTail ==
    ASSUME CodecInv, msgs # <<>>, msgs' = Tail(msgs)
    PROVE  /\ Head(msgs) \in Msg
           /\ \A code : /\ Hits(msgs', MsgsOf(code)) \in Nat
                        /\ Hits(msgs, MsgsOf(code))
                             = (IF Head(msgs).code = code THEN 1 ELSE 0)
                                  + Hits(msgs', MsgsOf(code))
<1>1. msgs \in Seq(Msg)
  BY UnderFacts
<1>2. Head(msgs) \in Msg /\ msgs' \in Seq(Msg)
  BY <1>1, HeadTailProperties
<1>3. ASSUME NEW code
      PROVE  Hits(msgs, MsgsOf(code)) = (IF Head(msgs).code = code THEN 1 ELSE 0)
                                           + Hits(msgs', MsgsOf(code))
  <2>1. Hits(msgs, MsgsOf(code)) = (IF Head(msgs) \in MsgsOf(code) THEN 1 ELSE 0)
                                      + Hits(msgs', MsgsOf(code))
    BY <1>1, HitsTail
  <2>2. Head(msgs) \in MsgsOf(code) <=> Head(msgs).code = code
    BY <1>2, ByKind
  <2> QED BY <2>1, <2>2
<1>4. \A code : Hits(msgs', MsgsOf(code)) \in Nat
  BY <1>2, HitsNat
<1> QED BY <1>2, <1>3, <1>4

LEMMA MsgsAppend ==
    ASSUME CodecInv, NEW m \in Msg, msgs' = Append(msgs, m)
    PROVE  \A code : Hits(msgs', MsgsOf(code))
                       = Hits(msgs, MsgsOf(code))
                            + (IF m.code = code THEN 1 ELSE 0)
<1> SUFFICES ASSUME NEW code
             PROVE  Hits(msgs', MsgsOf(code)) = Hits(msgs, MsgsOf(code))
                                           + (IF m.code = code THEN 1 ELSE 0)
  OBVIOUS
<1>1. msgs \in Seq(Msg)
  BY UnderFacts
<1>2. Hits(msgs', MsgsOf(code)) = Hits(msgs, MsgsOf(code))
                                    + (IF m \in MsgsOf(code) THEN 1 ELSE 0)
  BY <1>1, HitsAppend
<1>3. m \in MsgsOf(code) <=> m.code = code
  BY ByKind
<1> QED BY <1>2, <1>3

LEMMA DriverSends ==
    ASSUME CodecInv, CodecInv', PhaseInv, UNCHANGED codecVars,
           UNCHANGED <<m_state, m_flags, portVars, headVars, ev, m_cmd_lock,
                       toFlush, cb>>,
           NEW m \in Msg, msgs' = Append(msgs, m), m.code # "STOP_DONE",
           InputFlushes' <= InputFlushes
    PROVE  PhaseInv'
<1> USE DEF PhaseInv, portVars
<1>1. \A c, a : Carried(c, a)' <= Carried(c, a)
  <2>1. \A c, a : Carried(c, a) \in Nat
    BY UnderFacts
  <2> QED BY <2>1 DEF Carried
<1>2. KnownOK'
  <2>1. Sought' = Sought
    BY SamePhase DEF codecVars, modeVars
  <2> QED BY <2>1 DEF KnownOK
<1>3. FlushOK'
  <2>1. Told("PortDisable", "out")' = Told("PortDisable", "out")
    BY DEF Told
  <2> QED BY <2>1, SamePhase, FlushSame DEF codecVars, modeVars, portVars
<1>4. StopOK'
  <2>1. Hits(msgs', MsgsOf("STOP_DONE")) = Hits(msgs, MsgsOf("STOP_DONE"))
    <3>1. Hits(msgs', MsgsOf("STOP_DONE"))
            = Hits(msgs, MsgsOf("STOP_DONE")) + 0
      BY MsgsAppend
    <3>2. Hits(msgs, MsgsOf("STOP_DONE")) \in Nat
      BY UnderFacts
    <3> QED BY <3>1, <3>2
  <2>2. StopFirst(msgs', MsgsOf("STOP_DONE"), MsgsOf("FLUSH_INPUT_DONE"))
    <3>1. msgs \in Seq(Msg)
      BY UnderFacts
    <3>2. m \notin MsgsOf("STOP_DONE")
      BY ByKind
    <3>3. StopFirst(msgs, MsgsOf("STOP_DONE"), MsgsOf("FLUSH_INPUT_DONE"))
      BY DEF StopOK
    <3> QED BY <3>1, <3>2, <3>3, StopFirstAppend
  <2> QED BY <2>1, <2>2 DEF StopOK
<1> QED BY <1>1, <1>2, <1>3, <1>4, MessageQuiet

LEMMA DriverReturnsPhase ==
    ASSUME CodecInv, PhaseInv, NEW p \in Ports, DriverReturns(p),
           UNCHANGED codecVars
    PROVE  PhaseInv'
<1>1. CodecInv'
  BY DriverReturnsStep
<1>2. PICK b \in drv[p], len \in {"empty", "data"} :
        msgs' = Append(msgs, [code |-> Done(p), buf |-> b, len |-> len])
  BY DEF DriverReturns, ReturnedLengths
<1>3. PICK m : m = [code |-> Done(p), buf |-> b, len |-> len]
  OBVIOUS
<1>4. m \in Msg /\ m.code \in {"EBD", "FBD"}
  <2>1. b \in BufsOf(p)
    BY <1>2, Typing
  <2> QED BY <1>3, <2>1 DEF Msg, Done, DriverIds, BufsOf, Bufs, Ports
<1>5. UNCHANGED <<m_state, m_flags, portVars, headVars, ev, m_cmd_lock,
                  toFlush, flushReq, cb>>
  BY DEF DriverReturns
<1>6. InputFlushes' <= InputFlushes
  <2>1. Hits(msgs', MsgsOf("FLUSH_INPUT_DONE"))
          = Hits(msgs, MsgsOf("FLUSH_INPUT_DONE")) + 0
    BY <1>2, <1>3, <1>4, MsgsAppend
  <2>2. Hits(msgs, MsgsOf("FLUSH_INPUT_DONE")) \in Nat
    BY UnderFacts
  <2>3. InputFlushes' = InputFlushes
    BY <1>5, <2>1, <2>2 DEF InputFlushes
  <2> QED BY <2>3, InputFlushesNat
<1> QED BY <1>1, <1>2, <1>3, <1>4, <1>5, <1>6, DriverSends

LEMMA DriverResizesPhase ==
    ASSUME CodecInv, PhaseInv, DriverResizes, UNCHANGED codecVars
    PROVE  PhaseInv'
<1>1. CodecInv'
  BY DriverMessageStep
<1>2. PICK m : m = [code |-> "IMAGE_SIZE_CHANGE", buf |-> NULL,
                    len |-> "empty"]
  OBVIOUS
<1>3. msgs' = Append(msgs, m) /\ m \in Msg /\ m.code = "IMAGE_SIZE_CHANGE"
  BY <1>2 DEF DriverResizes, Msg, DriverIds
<1>4. UNCHANGED <<m_state, m_flags, portVars, headVars, ev, m_cmd_lock,
                  toFlush, flushReq, cb>>
  BY DEF DriverResizes
<1>5. InputFlushes' <= InputFlushes
  <2>1. Hits(msgs', MsgsOf("FLUSH_INPUT_DONE"))
          = Hits(msgs, MsgsOf("FLUSH_INPUT_DONE")) + 0
    BY <1>3, MsgsAppend
  <2>2. Hits(msgs, MsgsOf("FLUSH_INPUT_DONE")) \in Nat
    BY UnderFacts
  <2>3. InputFlushes' = InputFlushes
    BY <1>4, <2>1, <2>2 DEF InputFlushes
  <2> QED BY <2>3, InputFlushesNat
<1> QED BY <1>1, <1>3, <1>4, <1>5, DriverSends

LEMMA DriverFlushedPhase ==
    ASSUME CodecInv, PhaseInv, NEW p \in Ports, DriverFlushed(p),
           UNCHANGED codecVars
    PROVE  PhaseInv'
<1>1. CodecInv'
  BY DriverMessageStep
<1>2. PICK m : m = [code |-> FlushId(p), buf |-> NULL, len |-> "empty"]
  OBVIOUS
<1>3. msgs' = Append(msgs, m) /\ m \in Msg /\ m.code = FlushId(p)
  BY <1>2 DEF DriverFlushed, Msg, DriverIds, FlushId
<1>4. UNCHANGED <<m_state, m_flags, portVars, headVars, ev, m_cmd_lock,
                  toFlush, cb>>
      /\ p \in flushReq /\ flushReq' = flushReq \ {p}
  BY DEF DriverFlushed
<1>5. InputFlushes' <= InputFlushes
  <2>1. Hits(msgs', MsgsOf("FLUSH_INPUT_DONE"))
          = Hits(msgs, MsgsOf("FLUSH_INPUT_DONE"))
              + (IF FlushId(p) = "FLUSH_INPUT_DONE" THEN 1 ELSE 0)
    BY <1>3, MsgsAppend
  <2>2. FlushId(p) = "FLUSH_INPUT_DONE" <=> p = "in"
    BY DEF FlushId, Ports
  <2>3. \A T : Hits(msgs, T) \in Nat /\ Hits(ev.cmd, T) \in Nat
    BY UnderFacts
  <2>4. /\ Hits(msgs, MsgsOf("FLUSH_INPUT_DONE")) \in Nat
        /\ Hits(ev.cmd, EntriesOf("FLUSH_INPUT_DONE")) \in Nat
        /\ ev' = ev
    BY <1>4, <2>3
  <2>5. CASE p = "in"
    BY <1>4, <2>1, <2>2, <2>4, <2>5 DEF InputFlushes
  <2>6. CASE p # "in"
    BY <1>4, <2>1, <2>2, <2>4, <2>6 DEF InputFlushes
  <2> QED BY <2>5, <2>6
<1>6. m.code # "STOP_DONE"
  BY <1>3 DEF FlushId
<1> QED BY <1>1, <1>3, <1>4, <1>5, <1>6, DriverSends

LEMMA MessagePhase ==
    ASSUME CodecInv, PhaseInv, message_process, UNCHANGED codecVars
    PROVE  PhaseInv'
<1> USE DEF PhaseInv
<1>1. CodecInv'
  BY MessageStep
<1>2. PICK m : m = Head(msgs)
  OBVIOUS
<1>3. /\ msgs # <<>> /\ msgs' = Tail(msgs) /\ msgs \in Seq(Msg)
      /\ ev \in EvType /\ ev.cmd \in Seq(CmdEntry)
      /\ UNCHANGED <<m_state, m_flags, portVars, headVars, m_cmd_lock, toFlush,
                     drv, flushReq, resizes, cb>>
  BY Typing, UnderFacts DEF message_process
<1>4. /\ m \in Msg
      /\ \A code : /\ Hits(msgs', MsgsOf(code)) \in Nat
                   /\ Hits(msgs, MsgsOf(code))
                        = (IF m.code = code THEN 1 ELSE 0)
                             + Hits(msgs', MsgsOf(code))
  BY <1>2, <1>3, MsgsTail
<1>5. StopFirst(msgs', MsgsOf("STOP_DONE"), MsgsOf("FLUSH_INPUT_DONE"))
  BY <1>3, StopFirstTail DEF StopOK
<1>6. \A T : Hits(ev.cmd, T) \in Nat
  BY UnderFacts
<1>7. PICK F, G, ST, SM : /\ F = EntriesOf("FLUSH_INPUT_DONE")
                          /\ G = MsgsOf("FLUSH_INPUT_DONE")
                          /\ ST = EntriesOf("STOP_DONE")
                          /\ SM = MsgsOf("STOP_DONE")
  OBVIOUS
<1>8. /\ Hits(ev.cmd, F) \in Nat /\ Hits(ev.cmd, ST) \in Nat
      /\ Hits(msgs', G) \in Nat /\ Hits(msgs', SM) \in Nat
      /\ Hits(msgs, G) = (IF m.code = "FLUSH_INPUT_DONE" THEN 1 ELSE 0)
                            + Hits(msgs', G)
      /\ Hits(msgs, SM) = (IF m.code = "STOP_DONE" THEN 1 ELSE 0)
                             + Hits(msgs', SM)
  BY <1>4, <1>6, <1>7
<1>9. /\ Hits(msgs, SM) > 0 \/ Hits(ev.cmd, ST) > 0
           => toFlush = Ports \/ m_port_flushing["in"]
      /\ Hits(ev.cmd, F) > 0 => Hits(msgs, SM) = 0
      /\ StopFirst(ev.cmd, ST, F) /\ StopFirst(msgs, SM, G)
  BY <1>7 DEF StopOK
<1>10. PICK k : k = Entry(m.code, NULL, "empty")
  OBVIOUS
<1>11. CASE m.code \in {"EBD", "FBD"}
  <2>1. ev'.cmd = ev.cmd
    <3>1. ev' = ev \/ ev' = post_event(ev, m.code, m.buf,
                                       DoneLength(PortOf(m.buf), m.len))
      BY <1>2, <1>11 DEF message_process
    <3>2. PICK p \in Ports : m.code = Done(p) /\ m.buf \in BufsOf(p)
      BY <1>4, <1>11 DEF Msg, Ports, Done, BufsOf
    <3>3. DoneLength(PortOf(m.buf), m.len) \in {"empty", "data"}
      BY <1>4 DEF DoneLength, Msg
    <3>4. post_event(ev, m.code, m.buf, DoneLength(PortOf(m.buf), m.len)).cmd
            = ev.cmd
      BY <1>3, <3>2, <3>3, PostBuffer
    <3> QED BY <3>1, <3>4
  <2>2. \A c, a : Carried(c, a)' <= Carried(c, a)
    <3>1. \A c, a : Carried(c, a) \in Nat
      BY UnderFacts
    <3> QED BY <2>1, <3>1 DEF Carried
  <2>3. KnownOK'
    <3>1. Sought' = Sought
      BY <1>3, SamePhase DEF codecVars, modeVars, portVars
    <3> QED BY <1>3, <2>1, <3>1 DEF KnownOK
  <2>4. FlushOK'
    <3>1. Hits(msgs', G) = Hits(msgs, G)
      BY <1>8, <1>11
    <3>2. InputFlushes' = InputFlushes
      BY <1>3, <1>7, <2>1, <3>1 DEF InputFlushes
    <3>3. InputFlushes' <= InputFlushes
      BY <3>2, InputFlushesNat
    <3>4. Told("PortDisable", "out")' = Told("PortDisable", "out")
      BY <1>3 DEF Told
    <3> QED BY <1>1, <1>3, <3>3, <3>4, SamePhase, FlushSame
           DEF codecVars, modeVars, portVars
  <2>5. StopOK'
    <3>1. Hits(msgs', SM) = Hits(msgs, SM)
      BY <1>8, <1>11
    <3> QED BY <1>3, <1>5, <1>7, <2>1, <3>1 DEF StopOK, portVars
  <2> QED BY <1>1, <1>3, <2>2, <2>3, <2>4, <2>5, MessageQuiet DEF portVars
<1>12. CASE m.code \notin {"EBD", "FBD"}
  <2>1. m.code \in DriverIds \ {"EBD", "FBD"}
    BY <1>4, <1>12 DEF Msg
  <2>2. k \in KnownEntry /\ k \in CmdEntry /\ k.id = m.code
        /\ k.id \notin {"COMMAND", "COMMAND_DONE"}
    BY <1>10, <2>1 DEF KnownEntry, CmdEntry, Entry, Ids, DriverIds, Args
  <2>3. ev'.cmd = Append(ev.cmd, k)
    <3>1. ev' = post_event(ev, m.code, NULL, "empty")
      BY <1>2, <1>12 DEF message_process
    <3>2. QueueOf(m.code) = "cmd"
      BY <2>1 DEF QueueOf, DriverIds
    <3> QED BY <1>3, <1>10, <3>1, <3>2 DEF post_event, EvType
  <2>4. \A T : Hits(ev'.cmd, T) = Hits(ev.cmd, T) + (IF k \in T THEN 1 ELSE 0)
    BY <1>3, <2>2, <2>3, HitsAppend
  <2>5. ASSUME NEW c, NEW a PROVE Carried(c, a)' <= Carried(c, a)
    <3>1. k \notin {DoneEntry(c, a)}
      BY <2>2 DEF DoneEntry, Entry
    <3>2. Carried(c, a) \in Nat
      BY UnderFacts
    <3>3. Carried(c, a)' = Carried(c, a) + 0
      BY <2>4, <3>1 DEF Carried, Occurs
    <3> QED BY <3>2, <3>3
  <2>6. KnownOK'
    <3>1. cb' \in Seq(KnownCallback)
      BY <1>3 DEF KnownOK
    <3> QED BY <1>3, <2>2, <2>3, <3>1, SamePhase, KnownSame
           DEF codecVars, modeVars, portVars
  <2>7. /\ k \in F <=> m.code = "FLUSH_INPUT_DONE"
        /\ k \in ST <=> m.code = "STOP_DONE"
        /\ m \in G <=> m.code = "FLUSH_INPUT_DONE"
        /\ m \in SM <=> m.code = "STOP_DONE"
    BY <1>4, <1>7, <2>2, ByKind
  <2>8. /\ Hits(ev'.cmd, F) = Hits(ev.cmd, F)
                                + (IF m.code = "FLUSH_INPUT_DONE" THEN 1 ELSE 0)
        /\ Hits(ev'.cmd, ST) = Hits(ev.cmd, ST)
                                 + (IF m.code = "STOP_DONE" THEN 1 ELSE 0)
    BY <2>4, <2>7
  <2>9. FlushOK'
    <3>1. Hits(msgs', G) + Hits(ev'.cmd, F) = Hits(msgs, G) + Hits(ev.cmd, F)
      BY <1>8, <2>8
    <3>2. PICK r \in {0, 1} : r = IF "in" \in flushReq THEN 1 ELSE 0
      OBVIOUS
    <3>3. InputFlushes = r + Hits(msgs, G) + Hits(ev.cmd, F)
      BY <1>7, <3>2 DEF InputFlushes
    <3>4. InputFlushes' = r + Hits(msgs', G) + Hits(ev'.cmd, F)
      BY <1>3, <1>7, <3>2 DEF InputFlushes
    <3>5. InputFlushes' <= InputFlushes
      BY <1>8, <2>8, <3>1, <3>3, <3>4
    <3>6. Told("PortDisable", "out")' = Told("PortDisable", "out")
      BY <1>3 DEF Told
    <3> QED BY <1>1, <1>3, <3>5, <3>6, SamePhase, FlushSame
           DEF codecVars, modeVars, portVars
  <2>10. StopOK'
    <3>1. Hits(msgs', SM) > 0 \/ Hits(ev'.cmd, ST) > 0
            => toFlush = Ports \/ m_port_flushing["in"]
      BY <1>8, <1>9, <2>8
    <3>2. Hits(ev'.cmd, F) > 0 => Hits(msgs', SM) = 0
      <4>1. CASE m.code = "FLUSH_INPUT_DONE"
        BY <1>2, <1>3, <1>9, <2>7, <4>1, StopFirstHead
      <4>2. CASE m.code # "FLUSH_INPUT_DONE"
        BY <1>8, <1>9, <2>8, <4>2
      <4> QED BY <4>1, <4>2
    <3>3. StopFirst(ev'.cmd, ST, F)
      <4>1. k \in ST => k \notin F /\ Hits(ev.cmd, F) = 0
        BY <1>8, <1>9, <2>7
      <4> QED BY <1>3, <1>9, <2>2, <2>3, <4>1, StopFirstAppend
    <3> QED BY <1>3, <1>5, <1>7, <3>1, <3>2, <3>3 DEF StopOK, portVars
  <2> QED BY <1>1, <1>3, <2>5, <2>6, <2>9, <2>10, MessageQuiet DEF portVars
<1> QED BY <1>11, <1>12

LEMMA FlushPortPhase ==
    ASSUME CodecInv, PhaseInv, omx_flush_port, UNCHANGED codecVars
    PROVE  PhaseInv'
<1> USE DEF PhaseInv
<1>1. CodecInv'
  BY FlushPortStep
<1>2. /\ toFlush # {} /\ toFlush' = {}
      /\ m_port_flushing' = [p \in Ports |-> m_port_flushing[p] \/ p \in toFlush]
      /\ flushReq' = flushReq \cup toFlush
      /\ UNCHANGED <<m_state, m_flags, m_port_enabled, m_port_reconfig, headVars,
                     ev, m_cmd_lock, drv, msgs, resizes, cb>>
  BY DEF omx_flush_port
<1>3. /\ m_port_flushing'["in"] <=> m_port_flushing["in"] \/ "in" \in toFlush
      /\ m_state = "Executing"
      /\ toFlush = {"out"} \/ toFlush = Ports
  BY <1>2 DEF FlushOK, Ports
<1>4. \A c, a : Carried(c, a)' <= Carried(c, a)
  <2>1. \A c, a : Carried(c, a) \in Nat
    BY UnderFacts
  <2> QED BY <1>2, <2>1 DEF Carried
<1>5. KnownOK'
  <2>1. Sought' = Sought
    BY <1>2, SamePhase DEF codecVars, modeVars
  <2> QED BY <1>2, <2>1 DEF KnownOK
<1>6. Stopping' <=> Stopping
  BY DEF Stopping, codecVars, modeVars
<1>7. PICK x, y : /\ x = Hits(msgs, MsgsOf("FLUSH_INPUT_DONE"))
                  /\ y = Hits(ev.cmd, EntriesOf("FLUSH_INPUT_DONE"))
  OBVIOUS
<1>8. x \in Nat /\ y \in Nat
  BY <1>7, UnderFacts
<1>9. /\ InputFlushes = (IF "in" \in flushReq THEN 1 ELSE 0) + x + y
      /\ InputFlushes' = (IF "in" \in flushReq' THEN 1 ELSE 0) + x + y
  BY <1>2, <1>7 DEF InputFlushes
<1>10. FlushOK'
  <2>1. CASE toFlush = {"out"}
    <3>1. "in" \in flushReq' <=> "in" \in flushReq
      BY <1>2, <2>1
    <3>2. m_port_flushing'["in"] <=> m_port_flushing["in"]
      BY <1>3, <2>1
    <3>3. InputFlushes' <= IF m_port_flushing'["in"] THEN 1 ELSE 0
      BY <1>9, <3>1, <3>2 DEF FlushOK
    <3> QED BY <1>2, <1>3, <1>6, <3>2, <3>3 DEF FlushOK, Ports
  <2>2. CASE toFlush = Ports
    <3>1. Stopping /\ <<"IDLE", "all">> \in m_flags /\ ~m_port_flushing["in"]
      BY <2>2 DEF FlushOK
    <3>2. InputFlushes <= 0
      BY <3>1 DEF FlushOK
    <3>3. x + y = 0 /\ InputFlushes' <= 1
      BY <1>8, <1>9, <3>2
    <3>4. m_port_flushing'["in"]
      BY <1>3, <2>2 DEF Ports
    <3>5. InputFlushes' <= IF m_port_flushing'["in"] THEN 1 ELSE 0
      BY <3>3, <3>4
    <3> QED BY <1>2, <1>3, <1>6, <3>1, <3>5 DEF FlushOK, Ports
  <2> QED BY <1>3, <2>1, <2>2
<1>11. StopOK'
  <2>1. toFlush = Ports \/ m_port_flushing["in"] => m_port_flushing'["in"]
    BY <1>3 DEF Ports
  <2> QED BY <1>2, <2>1 DEF StopOK
<1> QED BY <1>1, <1>2, <1>4, <1>5, <1>10, <1>11, MessageQuiet

(* The callbacks a step adds.                                              *)
LEMMA OccursConcat ==
    ASSUME NEW q \in Seq(KnownCallback), NEW r \in Seq(KnownCallback)
    PROVE  /\ q \o r \in Seq(KnownCallback)
           /\ \A e : /\ Occurs(q, e) \in Nat
                     /\ Occurs(q \o r, e) = Occurs(q, e) + Occurs(r, e)
<1>1. q \o r \in Seq(KnownCallback)
  BY ConcatProperties
<1>2. \A e : /\ Hits(q, {e}) \in Nat
             /\ Hits(q \o r, {e}) = Hits(q, {e}) + Hits(r, {e})
  BY HitsConcat
<1> QED BY <1>1, <1>2 DEF Occurs

LEMMA OccursReturned ==
    ASSUME NEW p \in Ports, NEW q \in Seq(BufEntry(p))
    PROVE  /\ Returned(q) \in Seq(KnownCallback)
           /\ \A c, a : Occurs(Returned(q), CmdComplete(c, a)) = 0
<1>1. PICK r : r = Returned(q)
  OBVIOUS
<1>2. /\ r \in Seq(Callback) /\ Len(r) = Len(q)
      /\ \A i \in 1..Len(q) : r[i] = BufferDone(q[i].p1, q[i].p2)
  BY <1>1, CbReturned DEF Returned
<1>3. ASSUME NEW i \in 1..Len(r)
      PROVE  r[i].what = "BUFFER_DONE" /\ r[i].p1 \in Bufs
  <2>1. r[i] = BufferDone(q[i].p1, q[i].p2) /\ q[i] \in BufEntry(p)
    BY <1>2
  <2>2. q[i].p1 \in Bufs
    BY <2>1 DEF BufEntry, Bufs, BufsOf
  <2> QED BY <2>1, <2>2 DEF BufferDone
<1>4. r \in Seq(KnownCallback)
  <2>1. \A i \in 1..Len(r) : r[i] \in KnownCallback
    BY <1>2, <1>3 DEF KnownCallback
  <2> QED BY <1>2, <2>1
<1>5. ASSUME NEW c, NEW a PROVE Occurs(r, CmdComplete(c, a)) = 0
  <2>1. \A i \in 1..Len(r) : r[i] \notin {CmdComplete(c, a)}
    BY <1>3 DEF CmdComplete
  <2>2. Hits(r, {CmdComplete(c, a)}) = 0
    BY <1>2, <2>1, HitsNone
  <2> QED BY <2>2 DEF Occurs
<1> QED BY <1>1, <1>4, <1>5

LEMMA OccursMaybe ==
    ASSUME NEW c, NEW a, <<c, a>> \in AllAnswers, NEW done
    PROVE  LET q == IF done THEN <<CmdComplete(c, a)>> ELSE <<>> IN
           /\ q \in Seq(KnownCallback)
           /\ \A d, b : Occurs(q, CmdComplete(d, b))
                          = IF done /\ d = c /\ b = a THEN 1 ELSE 0
<1>1. CmdComplete(c, a) \in KnownCallback
  BY DEF CmdComplete, KnownCallback, Callback, AllAnswers, DoneAnswers,
         PortAnswers, Names, Args, States, Ports
<1>2. ASSUME NEW d, NEW b
      PROVE  /\ Occurs(<<>>, CmdComplete(d, b)) = 0
             /\ Occurs(<<CmdComplete(c, a)>>, CmdComplete(d, b))
                  = IF d = c /\ b = a THEN 1 ELSE 0
  <2>1. CmdComplete(c, a) \in {CmdComplete(d, b)} <=> d = c /\ b = a
    BY DEF CmdComplete
  <2>2. /\ Hits(<<>>, {CmdComplete(d, b)}) = 0
        /\ Hits(<<CmdComplete(c, a)>>, {CmdComplete(d, b)})
             = IF CmdComplete(c, a) \in {CmdComplete(d, b)} THEN 1 ELSE 0
    BY HitsOne
  <2> QED BY <2>1, <2>2 DEF Occurs
<1>3. CASE done
  BY <1>1, <1>2, <1>3
<1>4. CASE ~done
  BY <1>1, <1>2, <1>4
<1> QED BY <1>3, <1>4

(* The decoder has started.                                                *)
LEMMA StartDonePhase ==
    ASSUME CodecInv, PhaseInv, StartDone, UNCHANGED codecVars
    PROVE  PhaseInv'
<1> USE DEF PhaseInv
<1>1. CodecInv'
  BY StartDoneStep
<1>2. QueueOf("START_DONE") = "cmd"
  BY DEF QueueOf
<1>3. Pops
  BY <1>2, TakesPop DEF StartDone, Pops
<1>4. UNCHANGED <<portVars, headVars, m_cmd_lock, toFlush, drvVars>>
  BY DEF StartDone
<1>5. CASE <<"EXECUTE", "all">> \notin m_flags
  <2>1. UNCHANGED <<m_flags, m_state, cb>>
    BY <1>5 DEF StartDone
  <2>2. cb' \in Seq(KnownCallback) /\ \A c, a : Told(c, a)' = Told(c, a)
    BY <2>1 DEF KnownOK, Told
  <2> QED BY <1>1, <1>3, <1>4, <2>1, <2>2, PopQuiet DEF portVars, drvVars
<1>6. CASE <<"EXECUTE", "all">> \in m_flags
  <2>1. PICK x : x = CmdComplete("StateSet", "Executing")
    OBVIOUS
  <2>2. /\ m_flags' = m_flags \ {<<"EXECUTE", "all">>} /\ m_state' = "Executing"
        /\ cb' = Append(cb, x)
    BY <1>6, <2>1 DEF StartDone
  <2>3. AnsweredOnce("StateSet", "Executing", "EXECUTE", "all",
                     acodec = "IdleToExecuting")
    BY DEF AnswerOK
  <2>4. /\ acodec = "IdleToExecuting" /\ ~Asked
        /\ Carried("StateSet", "Executing") = 0
        /\ Told("StateSet", "Executing") = 0
    BY <1>6, <2>3, OneAnswer
  <2>5. x \in KnownCallback
    BY <2>1 DEF CmdComplete, KnownCallback, Callback, AllAnswers, Names, Args,
                States
  <2>6. cb \in Seq(KnownCallback)
    BY DEF KnownOK
  <2>7. /\ cb' \in Seq(KnownCallback)
        /\ \A c, a : Told(c, a)' = Told(c, a)
                       + (IF x = CmdComplete(c, a) THEN 1 ELSE 0)
    BY <2>2, <2>5, <2>6, ToldAppend
  <2>8. \A c, a : x = CmdComplete(c, a) <=> c = "StateSet" /\ a = "Executing"
    BY <2>1 DEF CmdComplete
  <2>9. Told("StateSet", "Executing")' = 1
    BY <2>4, <2>7, <2>8
  <2>10. ASSUME NEW c, NEW a, c # "StateSet" \/ a # "Executing"
         PROVE  Told(c, a)' = Told(c, a)
    <3>1. Told(c, a)' = Told(c, a) + 0 /\ Told(c, a) \in Nat
      BY <2>7, <2>8, <2>10, UnderFacts
    <3> QED BY <3>1
  <2>11. \A c, a : Carried(c, a)' <= Carried(c, a)
    BY <1>3, CarriedPop
  <2>12. AnswerOK'
    <3>1. ASSUME NEW c, NEW a, c # "StateSet" \/ a # "Executing"
          PROVE  \A f, q : Under(c, a, f, q)' <= Under(c, a, f, q)
      BY <1>1, <2>2, <2>10, <2>11, <3>1, UnderLess
    <3>2. Under("StateSet", "Executing", "EXECUTE", "all")'
            <= Under("StateSet", "Executing", "EXECUTE", "all")
      <4>1. Carried("StateSet", "Executing")' = 0
        BY <1>1, <2>4, <2>11, UnderFactsNext
      <4>2. /\ Bit("EXECUTE", "all") = 1 /\ Bit("EXECUTE", "all")' = 0
        BY <1>6, <2>2 DEF Bit
      <4> QED BY <2>4, <2>9, <4>1, <4>2 DEF Under
    <3> QED BY <1>1, <1>4, <3>1, <3>2, SamePhase, AnswerStep
            DEF codecVars, modeVars, portVars
  <2>13. KnownOK'
    <3>1. PICK k : k = Entry("STOP_DONE", NULL, "empty")
      OBVIOUS
    <3>2. k \in KnownEntry /\ k.id # "COMMAND"
      BY <3>1 DEF KnownEntry, CmdEntry, Entry, Ids, DriverIds, Names, Args
    <3> QED BY <1>3, <1>4, <2>2, <2>7, <3>2, SamePhase, KnownSame
            DEF Pops, codecVars, modeVars, portVars
  <2>14. StateOK'
    <3>1. acodec' = "IdleToExecuting" /\ m_port_enabled' = m_port_enabled
      BY <1>4, <2>4 DEF codecVars, portVars
    <3>2. Carried("StateSet", "Idle")' = 0
      <4>1. Carried("StateSet", "Idle") = 0
        BY <2>4, UnderFacts DEF StateOK
      <4> QED BY <1>1, <2>11, <4>1, UnderFactsNext
    <3>3. /\ m_port_enabled["in"]
          /\ m_port_enabled["out"]
      BY <2>4 DEF StateOK, Reconfigures
    <3> QED BY <2>2, <2>9, <3>1, <3>2, <3>3 DEF StateOK, Reconfigures
  <2>15. FlushOK'
    <3>1. toFlush = {}
      BY DEF StartDone, Takes, Pending
    <3> QED BY <1>1, <1>3, <1>4, <2>2, <3>1, InputFlushesPop, SamePhase, FlushSame
            DEF codecVars, modeVars, portVars, drvVars
  <2>16. StopOK'
    BY <1>1, <1>3, <1>4, StopPop DEF portVars, drvVars
  <2>17. CallsOK'
    BY <1>4, CallsSame DEF codecVars, callVars, modeVars, portVars
  <2>18. BuffersOK'
    BY <1>4, <2>2, BuffersSame DEF codecVars, callVars, modeVars, portVars,
                                   headVars
  <2> QED BY <2>12, <2>13, <2>14, <2>15, <2>16, <2>17, <2>18
<1> QED BY <1>5, <1>6

(* A completion that is taken from the queue is told.                      *)
LEMMA CarriedTail ==
    ASSUME CodecInv, ev.cmd # <<>>, ev'.cmd = Tail(ev.cmd)
    PROVE  \A c, a : /\ Carried(c, a)' \in Nat
                     /\ Carried(c, a) = (IF Head(ev.cmd) = DoneEntry(c, a)
                                         THEN 1 ELSE 0) + Carried(c, a)'
<1> SUFFICES ASSUME NEW c, NEW a
             PROVE  /\ Carried(c, a)' \in Nat
                    /\ Carried(c, a) = (IF Head(ev.cmd) = DoneEntry(c, a)
                                        THEN 1 ELSE 0) + Carried(c, a)'
  OBVIOUS
<1>1. ev.cmd \in Seq(CmdEntry) /\ Tail(ev.cmd) \in Seq(CmdEntry)
  BY UnderFacts, HeadTailProperties
<1>2. PICK T : T = {DoneEntry(c, a)}
  OBVIOUS
<1>3. Hits(ev.cmd, T) = (IF Head(ev.cmd) \in T THEN 1 ELSE 0)
                           + Hits(Tail(ev.cmd), T)
  BY <1>1, HitsTail
<1>4. Hits(Tail(ev.cmd), T) \in Nat
  BY <1>1, HitsNat
<1>5. Carried(c, a)' = Hits(Tail(ev.cmd), T) /\ Carried(c, a) = Hits(ev.cmd, T)
  BY <1>2 DEF Carried, Occurs, DoneEntry, Entry
<1>6. Head(ev.cmd) \in T <=> Head(ev.cmd) = DoneEntry(c, a)
  BY <1>2
<1> QED BY <1>3, <1>4, <1>5, <1>6

LEMMA CommandDonePhase ==
    ASSUME CodecInv, PhaseInv, CommandDone, UNCHANGED codecVars
    PROVE  PhaseInv'
<1> USE DEF PhaseInv
<1>1. CodecInv'
  BY CommandDoneStep
<1>2. QueueOf("COMMAND_DONE") = "cmd"
  BY DEF QueueOf
<1>3. PICK h : h = Head(ev.cmd)
  OBVIOUS
<1>4. /\ ev.cmd # <<>> /\ ev'.cmd = Tail(ev.cmd) /\ Pops
      /\ First("COMMAND_DONE") = h /\ h.id = "COMMAND_DONE"
  BY <1>2, <1>3, TakesPop DEF CommandDone, Pops
<1>5. /\ UNCHANGED <<m_flags, m_port_enabled, m_port_flushing, headVars,
                     m_cmd_lock, toFlush, drvVars>>
      /\ cb' = Append(cb, CmdComplete(h.p1, h.p2))
      /\ m_state' = IF h.p1 = "StateSet" THEN h.p2 ELSE m_state
  BY <1>4 DEF CommandDone
<1>6. /\ h \in KnownEntry /\ <<h.p1, h.p2>> \in DoneAnswers
      /\ h = DoneEntry(h.p1, h.p2)
  <2>1. h \in KnownEntry
    BY <1>3, <1>4, HeadTailProperties DEF KnownOK
  <2> QED BY <1>4, <2>1 DEF KnownEntry, CmdEntry, DoneEntry, Entry
<1>7. PICK x : x = CmdComplete(h.p1, h.p2)
  OBVIOUS
<1>8. \A c, a : (x = CmdComplete(c, a) <=> c = h.p1 /\ a = h.p2)
             /\ (h = DoneEntry(c, a) <=> c = h.p1 /\ a = h.p2)
  BY <1>6, <1>7 DEF CmdComplete, DoneEntry, Entry
<1>9. x \in KnownCallback /\ cb \in Seq(KnownCallback)
  BY <1>6, <1>7 DEF CmdComplete, KnownCallback, Callback, AllAnswers, Names,
                    Args, States, DoneAnswers, PortAnswers, Ports, KnownOK
<1>10. /\ cb' \in Seq(KnownCallback)
       /\ \A c, a : Told(c, a)' = Told(c, a)
                      + (IF x = CmdComplete(c, a) THEN 1 ELSE 0)
  BY <1>5, <1>7, <1>9, ToldAppend
<1>11. \A c, a : /\ Told(c, a) \in Nat /\ Carried(c, a) \in Nat
                 /\ Carried(c, a)' \in Nat
  BY <1>1, UnderFacts, UnderFactsNext
<1>12. \A c, a : c = h.p1 /\ a = h.p2 =>
                    /\ Told(c, a)' = Told(c, a) + 1
                    /\ Carried(c, a) = Carried(c, a)' + 1
  BY <1>3, <1>4, <1>8, <1>10, <1>11, CarriedTail
<1>13. ASSUME NEW c, NEW a, c # h.p1 \/ a # h.p2
       PROVE  Told(c, a)' = Told(c, a) /\ Carried(c, a) = Carried(c, a)'
  <2>1. Told(c, a)' = Told(c, a) + 0
    BY <1>8, <1>10, <1>13
  <2>2. Carried(c, a) = 0 + Carried(c, a)'
    BY <1>3, <1>4, <1>8, <1>13, CarriedTail
  <2> QED BY <1>11, <2>1, <2>2
<1>14. \A c, a : /\ Told(c, a)' + Carried(c, a)' = Told(c, a) + Carried(c, a)
                 /\ Carried(c, a)' <= Carried(c, a)
  BY <1>11, <1>12, <1>13
<1>15. AnswerOK'
  <2>1. \A f, q : Bit(f, q)' = Bit(f, q) /\ Bit(f, q) \in {0, 1}
    BY <1>5, UnderFacts DEF Bit
  <2>2. ASSUME NEW c, NEW a, NEW f, NEW q
        PROVE  Under(c, a, f, q)' <= Under(c, a, f, q)
    <3>1. /\ Told(c, a)' + Carried(c, a)' = Told(c, a) + Carried(c, a)
          /\ Bit(f, q)' = Bit(f, q) /\ Bit(f, q) \in {0, 1}
          /\ Told(c, a) \in Nat /\ Carried(c, a) \in Nat
          /\ Carried(c, a)' \in Nat /\ Told(c, a)' \in Nat
      BY <1>1, <1>11, <1>14, <2>1, UnderFactsNext
    <3> QED BY <3>1 DEF Under
  <2> QED BY <1>1, <1>5, <2>2, SamePhase, AnswerStep DEF codecVars, modeVars
<1>16. KnownOK'
  <2>1. PICK k : k = Entry("STOP_DONE", NULL, "empty")
    OBVIOUS
  <2>2. k \in KnownEntry /\ k.id # "COMMAND"
    BY <2>1 DEF KnownEntry, CmdEntry, Entry, Ids, DriverIds, Names, Args
  <2> QED BY <1>4, <1>5, <1>10, <2>2, SamePhase, KnownSame
         DEF codecVars, modeVars
<1>17. InputFlushes' <= InputFlushes
  BY <1>1, <1>4, <1>5, InputFlushesPop DEF drvVars
<1>18. CASE h.p1 # "StateSet"
  <2>1. m_state' = m_state /\ \A a : Told("StateSet", a)' = Told("StateSet", a)
    BY <1>5, <1>13, <1>18
  <2>2. StateOK'
    BY <1>1, <1>5, <1>14, <2>1, StateSame DEF codecVars, modeVars
  <2>3. FlushOK'
    <3>1. toFlush = {}
      BY DEF CommandDone, Takes, Pending
    <3> QED BY <1>1, <1>5, <1>17, <2>1, <3>1, SamePhase, FlushSame
           DEF codecVars, modeVars
  <2> QED BY <2>2, <2>3, <1>1, <1>4, <1>5, <1>15, <1>16, StopPop, CallsSame,
             BuffersSame DEF codecVars, callVars, modeVars, headVars, drvVars
<1>19. CASE h.p1 = "StateSet"
  <2>1. /\ h.p2 = "Idle" => acodec = "LoadedToIdle"
        /\ h.p2 = "Loaded" => acodec = "IdleToLoaded"
        /\ h.p2 \in {"Idle", "Loaded"}
        /\ m_state' = h.p2
        /\ Told("StateSet", h.p2)' > 0
        /\ Carried("StateSet", "Idle")' = 0
    <3>1. h.p2 \in {"Idle", "Loaded"} /\ m_state' = h.p2
      BY <1>5, <1>6, <1>19 DEF DoneAnswers, PortAnswers
    <3>2. Carried("StateSet", h.p2) > 0 /\ Told("StateSet", h.p2)' > 0
      BY <1>11, <1>12, <1>19
    <3>3. CASE h.p2 = "Idle"
      <4>1. AnsweredOnce("StateSet", "Idle", "IDLE", "all", ToIdle)
        BY DEF AnswerOK
      <4>2. Carried("StateSet", "Idle") = 1
        BY <3>2, <3>3, <4>1, OneAnswer
      <4>3. Carried("StateSet", "Idle") = Carried("StateSet", "Idle")' + 1
        BY <1>12, <1>19, <3>3
      <4>4. Carried("StateSet", "Idle")' = 0
        BY <1>11, <4>2, <4>3
      <4> QED BY <3>1, <3>2, <3>3, <4>4 DEF StateOK
    <3>4. CASE h.p2 = "Loaded"
      <4>1. AnsweredOnce("StateSet", "Loaded", "LOADING", "all",
                         acodec = "IdleToLoaded")
        BY DEF AnswerOK
      <4>2. acodec = "IdleToLoaded"
        <5>1. acodec # "IdleToLoaded" => Carried("StateSet", "Loaded") = 0
          BY <4>1, OneAnswer
        <5>2. Carried("StateSet", "Loaded") > 0
          BY <3>2, <3>4
        <5> QED BY <5>1, <5>2
      <4>3. Carried("StateSet", "Idle") = 0
        BY <1>11, <4>2 DEF StateOK
      <4>4. Carried("StateSet", "Idle")' = 0
        BY <1>11, <1>14, <4>3
      <4> QED BY <3>1, <3>2, <3>4, <4>2, <4>4
    <3> QED BY <3>1, <3>3, <3>4
  <2>2. acodec' = acodec /\ m_port_enabled' = m_port_enabled
    BY <1>5 DEF codecVars
  <2>3. StateOK'
    <3>1. m_port_enabled["in"] /\ m_port_enabled["out"]
      BY <2>1 DEF StateOK, Reconfigures
    <3> QED BY <2>1, <2>2, <3>1 DEF StateOK, Reconfigures
  <2>4. ~m_port_flushing["in"] /\ ~m_port_flushing["out"] /\ toFlush = {}
    <3>1. m_state # "Executing"
      BY <2>1 DEF StateOK
    <3> QED BY <3>1 DEF FlushOK
  <2>5. FlushOK'
    <3>1. m_port_flushing' = m_port_flushing /\ toFlush' = toFlush
      BY <1>5
    <3>2. InputFlushes' <= 0
      BY <1>1, <1>17, <2>4, InputFlushesNat, InputFlushesNatNext DEF FlushOK
    <3> QED BY <2>4, <3>1, <3>2 DEF FlushOK, Ports
  <2> QED BY <2>3, <2>5, <1>1, <1>4, <1>5, <1>15, <1>16, StopPop, CallsSame,
             BuffersSame DEF codecVars, callVars, modeVars, headVars, drvVars
<1> QED BY <1>18, <1>19

LEMMA StopDonePhase ==
    ASSUME CodecInv, PhaseInv, StopDone, UNCHANGED codecVars
    PROVE  PhaseInv'
<1> USE DEF PhaseInv
<1>1. CodecInv'
  BY StopDoneStep
<1>2. QueueOf("STOP_DONE") = "cmd" /\ Takes("STOP_DONE")
  BY DEF QueueOf, StopDone
<1>3. PICK e : e = Popped("STOP_DONE")
  OBVIOUS
<1>4. /\ ev.cmd # <<>> /\ e.cmd = Tail(ev.cmd) /\ e \in EvType
      /\ Head(ev.cmd).id = "STOP_DONE" /\ Head(ev.cmd) \in CmdEntry
  BY <1>2, <1>3, TakesPop, TakesFacts
<1>5. m_port_flushing["in"]
  <2>1. toFlush # Ports
    BY <1>2 DEF Takes, Pending, Ports
  <2>2. Hits(ev.cmd, EntriesOf("STOP_DONE")) > 0
    <3>1. ev.cmd \in Seq(CmdEntry) /\ Tail(ev.cmd) \in Seq(CmdEntry)
      BY <1>4, UnderFacts, HeadTailProperties
    <3>2. Head(ev.cmd) \in EntriesOf("STOP_DONE")
      BY <1>4 DEF EntriesOf
    <3>3. Hits(ev.cmd, EntriesOf("STOP_DONE"))
            = 1 + Hits(Tail(ev.cmd), EntriesOf("STOP_DONE"))
      BY <1>4, <3>1, <3>2, HitsTail
    <3>4. Hits(Tail(ev.cmd), EntriesOf("STOP_DONE")) \in Nat
      BY <3>1, HitsNat
    <3> QED BY <3>3, <3>4
  <2> QED BY <2>1, <2>2 DEF StopOK
<1>6. ~BecomesIdle(m_port_flushing)
  BY <1>5 DEF BecomesIdle, Ports
<1>7. PICK r : r = Returned(e.ftb)
  OBVIOUS
<1>8. PICK s : s = Returned(e.etb)
  OBVIOUS
<1>9. PICK f : f = Emptied(e, "out")
  OBVIOUS
<1>10. /\ ev' = Emptied(f, "in") /\ cb' = ((cb \o r) \o s) \o <<>>
       /\ UNCHANGED <<m_flags, m_state, portVars, headVars, m_cmd_lock, toFlush,
                      drvVars>>
  BY <1>3, <1>6, <1>7, <1>8, <1>9 DEF StopDone
<1>11. "in" \in Ports /\ "out" \in Ports
  BY DEF Ports
<1>12. Pops
  <2>1. f \in EvType /\ f.cmd = e.cmd
    BY <1>4, <1>9, <1>11, EmptiedFacts
  <2>2. ev'.cmd = f.cmd
    BY <1>10, <1>11, <2>1, EmptiedFacts
  <2> QED BY <1>4, <2>1, <2>2 DEF Pops
<1>13. e.etb \in Seq(BufEntry("in")) /\ e.ftb \in Seq(BufEntry("out"))
  BY <1>4, EvFacts
<1>14. /\ r \in Seq(KnownCallback) /\ s \in Seq(KnownCallback)
       /\ \A c, a : Occurs(r, CmdComplete(c, a)) = 0
       /\ \A c, a : Occurs(s, CmdComplete(c, a)) = 0
  BY <1>7, <1>8, <1>11, <1>13, OccursReturned
<1>15. cb \in Seq(KnownCallback)
  BY DEF KnownOK
<1>16. PICK t : t = cb \o r
  OBVIOUS
<1>17. PICK u : u = t \o s
  OBVIOUS
<1>18. /\ t \in Seq(KnownCallback)
       /\ \A x : /\ Occurs(cb, x) \in Nat
                 /\ Occurs(t, x) = Occurs(cb, x) + Occurs(r, x)
  BY <1>14, <1>15, <1>16, OccursConcat
<1>19. /\ u \in Seq(KnownCallback)
       /\ \A x : Occurs(u, x) = Occurs(t, x) + Occurs(s, x)
  BY <1>14, <1>17, <1>18, OccursConcat
<1>20. cb' = u
  BY <1>10, <1>16, <1>17, <1>19
<1>21. ASSUME NEW c, NEW a PROVE Told(c, a)' = Told(c, a)
  <2>1. Occurs(u, CmdComplete(c, a)) = Occurs(cb, CmdComplete(c, a))
    BY <1>14, <1>18, <1>19
  <2> QED BY <1>20, <2>1 DEF Told, CmdComplete
<1> QED BY <1>1, <1>10, <1>12, <1>19, <1>20, <1>21, PopQuiet
        DEF portVars, drvVars

(* A flush that ends is told to the client, and with the last one of a     *)
(* stop that the component is idle.                                        *)
LEMMA FlushDonePhase ==
    ASSUME CodecInv, PhaseInv, NEW p \in Ports, FlushDone(p),
           UNCHANGED codecVars
    PROVE  PhaseInv'
<1> USE DEF PhaseInv
<1>1. CodecInv'
  BY FlushDoneStep
<1>2. QueueOf(FlushId(p)) = "cmd" /\ Takes(FlushId(p))
  BY DEF QueueOf, FlushId, FlushDone
<1>3. PICK e : e = Popped(FlushId(p))
  OBVIOUS
<1>4. /\ ev.cmd # <<>> /\ e.cmd = Tail(ev.cmd) /\ e \in EvType
      /\ Head(ev.cmd).id = FlushId(p) /\ Head(ev.cmd) \in CmdEntry
  BY <1>2, <1>3, TakesPop, TakesFacts
<1>5. UNCHANGED <<m_port_enabled, m_port_reconfig, headVars, m_cmd_lock,
                  toFlush, drvVars>>
  BY DEF FlushDone
<1>6. CASE ~m_port_flushing[p]
  <2>1. ev' = e /\ UNCHANGED <<m_port_flushing, m_flags, m_state, cb>>
    BY <1>3, <1>6 DEF FlushDone
  <2>2. Pops
    BY <1>4, <2>1 DEF Pops
  <2>3. cb' \in Seq(KnownCallback) /\ \A c, a : Told(c, a)' = Told(c, a)
    BY <2>1 DEF KnownOK, Told
  <2> QED BY <1>1, <1>5, <2>1, <2>2, <2>3, PopQuiet DEF drvVars
<1>7. CASE m_port_flushing[p]
  <2>1. PICK idle : idle = BecomesIdle(FlushOver(p))
    OBVIOUS
  <2>2. PICK told : told = (<<"FLUSH", p>> \in m_flags)
    OBVIOUS
  <2>3. PICK r : r = Returned(e[QueueOf(This(p))])
    OBVIOUS
  <2>4. PICK t : t = IF told THEN <<CmdComplete("Flush", p)>> ELSE <<>>
    OBVIOUS
  <2>5. PICK i : i = IF idle THEN <<CmdComplete("StateSet", "Idle")>> ELSE <<>>
    OBVIOUS
  <2>6. /\ m_port_flushing' = FlushOver(p)
        /\ ev' = Emptied(e, p)
        /\ cb' = ((cb \o r) \o t) \o i
        /\ m_flags' = (m_flags \ {<<"FLUSH", p>>})
                         \ (IF idle THEN {<<"IDLE", "all">>} ELSE {})
        /\ m_state' = IF idle THEN "Idle" ELSE m_state
    BY <1>3, <1>7, <2>1, <2>2, <2>3, <2>4, <2>5 DEF FlushDone
  <2>7. ev'.cmd = Tail(ev.cmd) /\ Pops
    <3>1. ev'.cmd = e.cmd
      BY <1>4, <2>6, EmptiedFacts
    <3> QED BY <1>4, <3>1 DEF Pops
  <2>8. /\ r \in Seq(KnownCallback)
        /\ \A c, a : Occurs(r, CmdComplete(c, a)) = 0
    <3>1. e[QueueOf(This(p))] \in Seq(BufEntry(p))
      BY <1>4, EmptiedFacts
    <3> QED BY <2>3, <3>1, OccursReturned
  <2>9. /\ t \in Seq(KnownCallback)
        /\ \A c, a : Occurs(t, CmdComplete(c, a))
                       = IF told /\ c = "Flush" /\ a = p THEN 1 ELSE 0
    <3>1. <<"Flush", p>> \in AllAnswers
      BY DEF AllAnswers
    <3> QED BY <2>4, <3>1, OccursMaybe
  <2>10. /\ i \in Seq(KnownCallback)
         /\ \A c, a : Occurs(i, CmdComplete(c, a))
                        = IF idle /\ c = "StateSet" /\ a = "Idle" THEN 1 ELSE 0
    <3>1. <<"StateSet", "Idle">> \in AllAnswers
      BY DEF AllAnswers, DoneAnswers
    <3> QED BY <2>5, <3>1, OccursMaybe
  <2>11. PICK u : u = cb \o r
    OBVIOUS
  <2>12. PICK v : v = u \o t
    OBVIOUS
  <2>13. /\ u \in Seq(KnownCallback)
         /\ \A x : /\ Occurs(cb, x) \in Nat
                   /\ Occurs(u, x) = Occurs(cb, x) + Occurs(r, x)
    BY <2>8, <2>11, OccursConcat DEF KnownOK
  <2>14. /\ v \in Seq(KnownCallback)
         /\ \A x : Occurs(v, x) = Occurs(u, x) + Occurs(t, x)
    BY <2>9, <2>12, <2>13, OccursConcat
  <2>15. /\ cb' \in Seq(KnownCallback)
         /\ \A x : Occurs(cb', x) = Occurs(v, x) + Occurs(i, x)
    <3>1. cb' = v \o i
      BY <2>6, <2>11, <2>12
    <3>2. /\ v \o i \in Seq(KnownCallback)
          /\ \A x : Occurs(v \o i, x) = Occurs(v, x) + Occurs(i, x)
      BY <2>10, <2>14, OccursConcat
    <3> QED BY <3>1, <3>2
  <2>16. \A c, a : Told(c, a) \in Nat /\ Told(c, a)' = Occurs(cb', CmdComplete(c, a))
                     /\ Told(c, a) = Occurs(cb, CmdComplete(c, a))
    BY UnderFacts DEF Told, CmdComplete
  <2>17. \A c, a :
           Told(c, a)' = Told(c, a)
              + (IF told /\ c = "Flush" /\ a = p THEN 1 ELSE 0)
              + (IF idle /\ c = "StateSet" /\ a = "Idle" THEN 1 ELSE 0)
    <3> SUFFICES ASSUME NEW c, NEW a
                 PROVE Told(c, a)' = Told(c, a)
                          + (IF told /\ c = "Flush" /\ a = p THEN 1 ELSE 0)
                          + (IF idle /\ c = "StateSet" /\ a = "Idle" THEN 1 ELSE 0)
      OBVIOUS
    <3>1. PICK x : x = CmdComplete(c, a)
      OBVIOUS
    <3>2. /\ Occurs(r, x) = 0
          /\ Occurs(t, x) = IF told /\ c = "Flush" /\ a = p THEN 1 ELSE 0
          /\ Occurs(i, x) = IF idle /\ c = "StateSet" /\ a = "Idle" THEN 1 ELSE 0
          /\ Told(c, a)' = Occurs(cb', x) /\ Told(c, a) = Occurs(cb, x)
      BY <2>8, <2>9, <2>10, <2>16, <3>1
    <3>3. Occurs(cb', x) = ((Occurs(cb, x) + Occurs(r, x)) + Occurs(t, x))
                              + Occurs(i, x)
          /\ Occurs(cb, x) \in Nat
      BY <2>13, <2>14, <2>15
    <3> QED BY <3>2, <3>3
  <2>18. /\ idle => /\ <<"IDLE", "all">> \in m_flags
                    /\ \A q \in Ports : ~m_port_flushing'[q]
         /\ m_state = "Executing" /\ toFlush = {}
         /\ m_port_flushing' = [m_port_flushing EXCEPT ![p] = FALSE]
    <3>1. toFlush = {}
      BY <1>2 DEF Takes, Pending
    <3>2. m_state = "Executing"
      BY <1>7 DEF FlushOK, Ports
    <3> QED BY <2>1, <2>6, <3>1, <3>2 DEF BecomesIdle, FlushOver
  <2>19. idle => /\ Stopping /\ Told("StateSet", "Idle") = 0
                 /\ Carried("StateSet", "Idle") = 0
    <3> HAVE idle
    <3>1. AnsweredOnce("StateSet", "Idle", "IDLE", "all", ToIdle)
      BY DEF AnswerOK
    <3>2. <<"IDLE", "all">> \in m_flags
      BY <2>18
    <3>3. /\ ToIdle /\ Told("StateSet", "Idle") = 0
          /\ Carried("StateSet", "Idle") = 0
      BY <3>1, <3>2, OneAnswer
    <3>4. acodec # "LoadedToIdle"
      BY <2>18 DEF StateOK
    <3> QED BY <3>3, <3>4 DEF ToIdle
  <2>20. \A c, a : Carried(c, a)' <= Carried(c, a)
    BY <2>7, CarriedPop
  <2>21. /\ \A c, a : /\ Told(c, a) \in Nat /\ Carried(c, a) \in Nat
                      /\ Carried(c, a)' \in Nat
         /\ m_flags' \subseteq m_flags
    BY <1>1, <2>6, UnderFacts, UnderFactsNext
  <2>22. ASSUME NEW c, NEW a, ~(told /\ c = "Flush" /\ a = p),
                ~(idle /\ c = "StateSet" /\ a = "Idle")
         PROVE  Told(c, a)' = Told(c, a)
    <3>1. Told(c, a)' = Told(c, a) + 0 + 0
      BY <2>17, <2>22
    <3> QED BY <2>21, <3>1
  <2>23. AnswerOK'
    <3>1. ASSUME NEW c, NEW a, ~(told /\ c = "Flush" /\ a = p),
                 ~(idle /\ c = "StateSet" /\ a = "Idle")
          PROVE  \A f, q : Under(c, a, f, q)' <= Under(c, a, f, q)
      BY <1>1, <2>20, <2>21, <2>22, <3>1, UnderLess
    <3>2. Under("StateSet", "Idle", "IDLE", "all")'
            <= Under("StateSet", "Idle", "IDLE", "all")
      <4>1. CASE idle
        <5>1. Told("StateSet", "Idle")' = Told("StateSet", "Idle") + 0 + 1
          BY <2>17, <4>1
        <5>2. Bit("IDLE", "all") = 1 /\ Bit("IDLE", "all")' = 0
          BY <2>6, <2>18, <4>1 DEF Bit
        <5>3. Carried("StateSet", "Idle")' = 0
          BY <2>19, <2>20, <2>21, <4>1
        <5> QED BY <2>19, <4>1, <5>1, <5>2, <5>3 DEF Under
      <4> QED BY <3>1, <4>1
    <3>3. ASSUME NEW q \in Ports
          PROVE  Under("Flush", q, "FLUSH", q)' <= Under("Flush", q, "FLUSH", q)
      <4>1. CASE told /\ q = p
        <5>1. Told("Flush", p)' = Told("Flush", p) + 1 + 0
          BY <2>17, <4>1
        <5>2. Bit("FLUSH", p) = 1 /\ Bit("FLUSH", p)' = 0
          BY <2>2, <2>6, <4>1 DEF Bit
        <5>3. /\ Carried("Flush", p)' <= Carried("Flush", p)
              /\ Carried("Flush", p) \in Nat /\ Carried("Flush", p)' \in Nat
              /\ Told("Flush", p) \in Nat
          BY <2>20, <2>21
        <5> QED BY <4>1, <5>1, <5>2, <5>3 DEF Under
      <4> QED BY <3>1, <4>1
    <3>4. UNCHANGED <<acodec, calls, mComponentNowIdle, mFlushComplete,
                      m_port_enabled, m_cmd_lock>>
      BY <1>5 DEF codecVars, modeVars
    <3> QED BY <1>1, <3>1, <3>2, <3>3, <3>4, SamePhase, AnswerStep
  <2>24. KnownOK'
    <3>1. PICK k : k = Entry("STOP_DONE", NULL, "empty")
      OBVIOUS
    <3>2. k \in KnownEntry /\ k.id # "COMMAND"
      BY <3>1 DEF KnownEntry, CmdEntry, Entry, Ids, DriverIds, Names, Args
    <3> QED BY <1>5, <2>7, <2>15, <2>21, <3>2, SamePhase, KnownSame
            DEF Pops, codecVars, modeVars
  <2>25. StateOK'
    <3>1. CASE idle
      <4>1. Told("StateSet", "Idle")' = 0 + 0 + 1
        BY <2>17, <2>19, <3>1
      <4>2. Carried("StateSet", "Idle")' = 0
        BY <2>19, <2>20, <2>21, <3>1
      <4>3. /\ acodec' = "ExecutingToIdle" /\ m_port_enabled' = m_port_enabled
            /\ m_state' = "Idle"
        BY <1>5, <2>6, <2>19, <3>1 DEF Stopping, codecVars
      <4>4. m_port_enabled["in"] /\ m_port_enabled["out"]
        BY <2>19, <3>1 DEF StateOK, Reconfigures, Stopping
      <4> QED BY <4>1, <4>2, <4>3, <4>4 DEF StateOK, Reconfigures
    <3>2. CASE ~idle
      <4>1. \A a : Told("StateSet", a)' = Told("StateSet", a)
        BY <2>22, <3>2
      <4> QED BY <1>1, <1>5, <2>6, <2>20, <3>2, <4>1, StateSame
              DEF codecVars, modeVars
    <3> QED BY <3>1, <3>2
  <2>26. /\ \A T : /\ Hits(ev'.cmd, T) \in Nat /\ Hits(ev.cmd, T) \in Nat
                   /\ Hits(msgs, T) \in Nat
                   /\ Hits(ev'.cmd, T) <= Hits(ev.cmd, T)
         /\ p = "in" => Hits(ev.cmd, EntriesOf("FLUSH_INPUT_DONE"))
                          = 1 + Hits(ev'.cmd, EntriesOf("FLUSH_INPUT_DONE"))
         /\ ev.cmd \in Seq(CmdEntry)
    <3>1. p = "in" => Head(ev.cmd) \in EntriesOf("FLUSH_INPUT_DONE")
      BY <1>4 DEF EntriesOf, FlushId
    <3>2. ev.cmd \in Seq(CmdEntry)
      BY UnderFacts
    <3>3. p = "in" => Hits(ev.cmd, EntriesOf("FLUSH_INPUT_DONE"))
                        = 1 + Hits(Tail(ev.cmd), EntriesOf("FLUSH_INPUT_DONE"))
      BY <1>4, <3>1, <3>2, HitsTail
    <3> QED BY <1>1, <2>7, <3>2, <3>3, PopHits, UnderFacts, UnderFactsNext
  <2>27. FlushOK'
    <3>1. InputFlushes' <= IF m_port_flushing'["in"] THEN 1 ELSE 0
      <4>1. InputFlushes \in Nat /\ InputFlushes' \in Nat
        BY <1>1, InputFlushesNat, InputFlushesNatNext
      <4>2. CASE p = "in"
        <5>1. UNCHANGED <<flushReq, msgs>>
          BY <1>5 DEF drvVars
        <5>2. InputFlushes = InputFlushes' + 1
          <6>1. PICK T, M : /\ T = EntriesOf("FLUSH_INPUT_DONE")
                            /\ M = MsgsOf("FLUSH_INPUT_DONE")
            OBVIOUS
          <6>2. PICK f, k, m, n : /\ f = IF "in" \in flushReq THEN 1 ELSE 0
                                  /\ k = Hits(msgs, M)
                                  /\ m = Hits(ev.cmd, T) /\ n = Hits(ev'.cmd, T)
            OBVIOUS
          <6>3. InputFlushes = f + k + m
            BY <6>1, <6>2 DEF InputFlushes
          <6>4. InputFlushes' = f + k + n
            <7>1. /\ T = EntriesOf("FLUSH_INPUT_DONE")'
                  /\ M = MsgsOf("FLUSH_INPUT_DONE")'
              BY <6>1 DEF EntriesOf, MsgsOf
            <7> QED BY <5>1, <6>2, <7>1 DEF InputFlushes
          <6>5. f \in Nat /\ k \in Nat /\ m \in Nat /\ n \in Nat /\ m = 1 + n
            BY <2>26, <4>2, <6>1, <6>2
          <6> QED BY <6>3, <6>4, <6>5
        <5>3. InputFlushes <= 1
          BY <1>7, <4>2 DEF FlushOK
        <5>4. InputFlushes' = 0
          <6>1. \A m, n \in Nat : m = n + 1 /\ m <= 1 => n = 0
            OBVIOUS
          <6> QED BY <4>1, <5>2, <5>3, <6>1
        <5> QED BY <5>4
      <4>3. CASE p = "out"
        <5>1. InputFlushes' <= InputFlushes
          BY <1>1, <1>5, <2>7, InputFlushesPop DEF drvVars
        <5>2. m_port_flushing'["in"] = m_port_flushing["in"]
          BY <1>1, <2>18, <4>3
        <5> QED BY <4>1, <5>1, <5>2 DEF FlushOK
      <4> QED BY <4>2, <4>3 DEF Ports
    <3>2. ASSUME m_port_flushing'["in"]
          PROVE  \/ <<"FLUSH", "in">> \in m_flags'
                 \/ Stopping' /\ <<"IDLE", "all">> \in m_flags'
      <4>1. ~idle
        BY <2>18, <3>2 DEF Ports
      <4>2. p # "in"
        <5> SUFFICES ASSUME p = "in" PROVE FALSE
          OBVIOUS
        <5>1. m_port_flushing \in [Ports -> BOOLEAN]
          BY DEF CodecInv, TypeOK
        <5> QED BY <2>18, <3>2, <5>1
      <4>3. m_port_flushing["in"]
        BY <2>18, <3>2, <4>2
      <4>4. Stopping' <=> Stopping
        BY DEF Stopping, codecVars, modeVars
      <4> QED BY <2>6, <4>1, <4>2, <4>3, <4>4 DEF FlushOK
    <3>3. toFlush' = {} /\ {} # Ports /\ {} # {"out"}
      BY <1>5, <2>18 DEF Ports
    <3>4. m_port_flushing'["in"] \/ m_port_flushing'["out"] =>
            m_state' = "Executing"
      BY <2>6, <2>18 DEF Ports
    <3> QED BY <3>1, <3>2, <3>3, <3>4 DEF FlushOK
  <2>28. StopOK'
    <3>1. msgs' = msgs /\ toFlush' = {} /\ {} # Ports
      BY <1>5, <2>18 DEF drvVars, Ports
    <3>2. StopFirst(ev'.cmd, EntriesOf("STOP_DONE"),
                    EntriesOf("FLUSH_INPUT_DONE"))
      BY <1>4, <2>7, <2>26, StopFirstTail DEF StopOK
    <3>3. Hits(msgs, MsgsOf("STOP_DONE")) > 0
            \/ Hits(ev'.cmd, EntriesOf("STOP_DONE")) > 0
            => m_port_flushing'["in"]
      <4>1. CASE p = "in"
        <5>1. Hits(ev.cmd, EntriesOf("FLUSH_INPUT_DONE")) > 0
          BY <2>26, <4>1
        <5>2. Hits(msgs, MsgsOf("STOP_DONE")) = 0
          BY <5>1 DEF StopOK
        <5>3. Head(ev.cmd) \in EntriesOf("FLUSH_INPUT_DONE")
          BY <1>4, <4>1 DEF EntriesOf, FlushId
        <5>4. Hits(Tail(ev.cmd), EntriesOf("STOP_DONE")) = 0
          BY <1>4, <2>26, <5>3, StopFirstHead DEF StopOK
        <5> QED BY <2>7, <5>2, <5>4
      <4>2. CASE p = "out"
        <5>1. m_port_flushing'["in"] = m_port_flushing["in"]
          BY <2>18, <4>2
        <5>2. Hits(ev'.cmd, EntriesOf("STOP_DONE")) > 0 =>
                Hits(ev.cmd, EntriesOf("STOP_DONE")) > 0
          BY <2>26
        <5>3. toFlush # Ports
          BY <2>18, <3>1
        <5> QED BY <5>1, <5>2, <5>3 DEF StopOK
      <4> QED BY <4>1, <4>2 DEF Ports
    <3>4. Hits(ev'.cmd, EntriesOf("FLUSH_INPUT_DONE")) > 0 =>
            Hits(ev.cmd, EntriesOf("FLUSH_INPUT_DONE")) > 0
      BY <2>26
    <3> QED BY <3>1, <3>2, <3>3, <3>4 DEF StopOK, EntriesOf, MsgsOf
  <2>29. CallsOK'
    BY <1>5, CallsSame DEF codecVars, callVars, modeVars
  <2>30. BuffersOK'
    <3>1. idle => acodec # "LoadedToIdle"
      BY <2>19 DEF Stopping
    <3> QED BY <1>5, <2>6, <3>1, BuffersSame DEF codecVars, callVars, modeVars,
                                                 headVars
  <2> QED BY <2>23, <2>24, <2>25, <2>27, <2>28, <2>29, <2>30
<1> QED BY <1>6, <1>7

-------------------------------------------------------------------------------
(* A command that is taken was asked for, and nothing is under way for it. *)
LEMMA TakenFacts ==
    ASSUME CodecInv, PhaseInv, NEW c, NEW a, TakesCommand(c, a),
           UNCHANGED codecVars
    PROVE  /\ calls # <<>> /\ Head(calls).op = "sem_wait" /\ Asked /\ ~Asked'
           /\ m_cmd_lock = 0 /\ m_cmd_lock' = 1 /\ toFlush = {}
           /\ ev.cmd # <<>> /\ ev.cmd \in Seq(KnownEntry)
           /\ Popped("COMMAND").cmd = Tail(ev.cmd)
           /\ Tail(ev.cmd) \in Seq(KnownEntry) /\ Head(ev.cmd).id = "COMMAND"
           /\ \A i \in 1..Len(Tail(ev.cmd)) : Tail(ev.cmd)[i].id # "COMMAND"
           /\ c = "StateSet" /\ a = "Idle" => ToIdle
           /\ c = "StateSet" /\ a = "Executing" => acodec = "IdleToExecuting"
           /\ c = "StateSet" /\ a = "Loaded" => acodec = "IdleToLoaded"
           /\ c = "PortDisable" => Disabling
           /\ c = "PortEnable" => Enabling
           /\ c = "Flush" => \A p \in Ports : Flushes(p)
<1>1. QueueOf("COMMAND") = "cmd" /\ Takes("COMMAND") /\ toFlush = {}
  BY DEF QueueOf, TakesCommand, Takes, Pending
<1>2. /\ ev.cmd # <<>> /\ Popped("COMMAND").cmd = Tail(ev.cmd)
      /\ First("COMMAND") = Head(ev.cmd) /\ Head(ev.cmd).id = "COMMAND"
  BY <1>1, TakesPop
<1>3. /\ Commands(Tail(ev.cmd)) \in Nat
      /\ Commands(ev.cmd) = 1 + Commands(Tail(ev.cmd))
      /\ m_cmd_lock' = m_cmd_lock + 1 /\ m_cmd_lock \in Nat
  BY <1>2, TakesTheCommand, Typing
<1>4. Commands(ev.cmd) + m_cmd_lock <= IF Makes("sem_wait") THEN 1 ELSE 0
  BY DEF CodecInv, CommandOK
<1>5. Makes("sem_wait") /\ m_cmd_lock = 0 /\ Commands(Tail(ev.cmd)) = 0
  <2>1. Makes("sem_wait")
    BY <1>3, <1>4
  <2> QED BY <1>3, <1>4, <2>1
<1>6. ev.cmd \in Seq(KnownEntry) /\ Tail(ev.cmd) \in Seq(KnownEntry)
  BY <1>2, HeadTailProperties DEF PhaseInv, KnownOK
<1>7. \A i \in 1..Len(Tail(ev.cmd)) : Tail(ev.cmd)[i].id # "COMMAND"
  BY <1>5, <1>6, NoCommands
<1>8. <<c, a>> \in Sought
  <2>1. 1 \in 1..Len(ev.cmd) /\ Head(ev.cmd) = ev.cmd[1]
    BY <1>2, <1>6
  <2>2. Head(ev.cmd).p1 = c /\ Head(ev.cmd).p2 = a
    BY <1>2 DEF TakesCommand
  <2> QED BY <1>2, <2>1, <2>2 DEF PhaseInv, KnownOK
<1>9. Asked /\ ~Asked'
  BY <1>3, <1>5 DEF Asked, Makes, codecVars
<1>10. /\ c = "StateSet" /\ a = "Idle" => ToIdle
       /\ c = "StateSet" /\ a = "Executing" => acodec = "IdleToExecuting"
       /\ c = "StateSet" /\ a = "Loaded" => acodec = "IdleToLoaded"
       /\ c = "PortDisable" => Disabling
       /\ c = "PortEnable" => Enabling
       /\ c = "Flush" => \A p \in Ports : Flushes(p)
  BY <1>8 DEF Sought
<1>11. /\ calls # <<>> /\ Head(calls).op = "sem_wait"
       /\ m_cmd_lock = 0 /\ m_cmd_lock' = 1
  BY <1>3, <1>5 DEF Makes
<1> QED BY <1>1, <1>2, <1>6, <1>7, <1>9, <1>10, <1>11

(* A command is answered at once, or the bits are set that will answer it. *)
Answers(c, a, F, post) ==
    /\ cb' = cb /\ m_flags' = m_flags \cup F
    /\ post => <<c, a>> \in DoneAnswers /\ F = {}
    /\ ev'.cmd = IF post THEN Append(Tail(ev.cmd), DoneEntry(c, a))
                 ELSE Tail(ev.cmd)

LEMMA TakenUnder ==
    ASSUME CodecInv, CodecInv', Asked, ev.cmd # <<>>,
           Tail(ev.cmd) \in Seq(KnownEntry),
           NEW c, NEW a, NEW F, NEW post, Answers(c, a, F, post),
           NEW d, NEW b, NEW f, NEW q, NEW w, AnsweredOnce(d, b, f, q, w)
    PROVE  /\ Carried(d, b)' = IF post /\ c = d /\ a = b THEN 1 ELSE 0
           /\ Told(d, b)' = 0
           /\ Under(d, b, f, q)' = (IF post /\ c = d /\ a = b THEN 1 ELSE 0)
                                      + (IF <<f, q>> \in F THEN 1 ELSE 0)
<1> USE DEF Answers
<1>1. /\ Carried(d, b) = 0 /\ Told(d, b) = 0 /\ <<f, q>> \notin m_flags
      /\ ev.cmd \in Seq(CmdEntry)
  BY OneAnswer, UnderFacts
<1>2. PICK T : T = {DoneEntry(d, b)}
  OBVIOUS
<1>3. Hits(Tail(ev.cmd), T) = 0
  <2>1. Hits(ev.cmd, T) = 0
    BY <1>1, <1>2 DEF Carried, Occurs
  <2>2. Hits(ev.cmd, T) = (IF Head(ev.cmd) \in T THEN 1 ELSE 0)
                             + Hits(Tail(ev.cmd), T)
    BY <1>1, HitsTail
  <2>3. Hits(Tail(ev.cmd), T) \in Nat
    BY HitsNat
  <2> QED BY <2>1, <2>2, <2>3
<1>4. Hits(ev'.cmd, T) = IF post /\ c = d /\ a = b THEN 1 ELSE 0
  <2>1. CASE post
    <3>1. DoneEntry(c, a) \in KnownEntry
      BY <2>1 DEF DoneEntry, Entry, KnownEntry, CmdEntry, DoneAnswers,
                  PortAnswers, Ids, Names, Args, States, Ports
    <3>2. DoneEntry(c, a) \in T <=> c = d /\ a = b
      BY <1>2 DEF DoneEntry, Entry
    <3>3. Hits(Append(Tail(ev.cmd), DoneEntry(c, a)), T)
            = Hits(Tail(ev.cmd), T)
                + (IF DoneEntry(c, a) \in T THEN 1 ELSE 0)
      BY <3>1, HitsAppend
    <3> QED BY <1>3, <2>1, <3>2, <3>3
  <2>2. CASE ~post
    BY <1>3, <2>2
  <2> QED BY <2>1, <2>2
<1>5. Carried(d, b)' = Hits(ev'.cmd, T) /\ Told(d, b)' = 0
  BY <1>1, <1>2 DEF Carried, Told, Occurs, DoneEntry, Entry, CmdComplete
<1>6. Bit(f, q)' = IF <<f, q>> \in F THEN 1 ELSE 0
  BY <1>1 DEF Bit
<1>7. Under(d, b, f, q)' = Carried(d, b)' + Told(d, b)' + Bit(f, q)'
  BY DEF Under
<1> QED BY <1>4, <1>5, <1>6, <1>7

LEMMA TakenPhase ==
    ASSUME CodecInv, CodecInv', PhaseInv, NEW c, NEW a, TakesCommand(c, a),
           UNCHANGED <<codecVars, headVars, m_state>>,
           NEW F, NEW post, Answers(c, a, F, post),
           post /\ c = "StateSet" /\ a = "Idle" => acodec = "LoadedToIdle",
           \/ c = "StateSet" /\ a = "Idle" /\ F \subseteq {<<"IDLE", "all">>}
           \/ c = "StateSet" /\ a = "Executing"
                 /\ F \subseteq {<<"EXECUTE", "all">>}
           \/ c = "StateSet" /\ a = "Loaded" /\ F \subseteq {<<"LOADING", "all">>}
           \/ c = "PortDisable" /\ a = "out" /\ F \subseteq {<<"DISABLE", "out">>}
           \/ c = "PortEnable" /\ a = "out" /\ F \subseteq {<<"ENABLE", "out">>}
           \/ c = "Flush" /\ a = "all"
                 /\ F \subseteq {<<"FLUSH", p>> : p \in Ports},
           m_port_enabled'["in"] = m_port_enabled["in"],
           m_port_enabled'["out"] \in BOOLEAN, m_port_enabled["out"] \in BOOLEAN,
           m_port_enabled'["out"] = IF Reconfigures THEN ~m_port_enabled["out"]
                                    ELSE m_port_enabled["out"],
           acodec = "LoadedToIdle" /\ <<"IDLE", "all">> \notin m_flags' => Full,
           acodec = "IdleToLoaded" /\ <<"LOADING", "all">> \notin m_flags' =>
              \A p \in Ports : m_cur_buf_num[p] = 0,
           Disabling /\ <<"DISABLE", "out">> \notin m_flags' =>
              m_cur_buf_num["out"] = 0,
           FlushOK', StopOK'
    PROVE  PhaseInv'
<1> USE DEF PhaseInv
<1>1. /\ calls # <<>> /\ Head(calls).op = "sem_wait" /\ Asked /\ ~Asked'
      /\ ev.cmd # <<>> /\ Tail(ev.cmd) \in Seq(KnownEntry)
      /\ \A i \in 1..Len(Tail(ev.cmd)) : Tail(ev.cmd)[i].id # "COMMAND"
  BY TakenFacts
<1>2. /\ c = "StateSet" /\ a = "Idle" => ToIdle
      /\ c = "StateSet" /\ a = "Executing" => acodec = "IdleToExecuting"
      /\ c = "StateSet" /\ a = "Loaded" => acodec = "IdleToLoaded"
      /\ c = "PortDisable" => Disabling
      /\ c = "PortEnable" => Enabling
      /\ c = "Flush" => \A p \in Ports : Flushes(p)
  BY TakenFacts
<1>3. /\ Disabling' <=> Disabling
      /\ Enabling' <=> Enabling
      /\ Reconfigures' <=> Reconfigures
      /\ Stopping' <=> Stopping
      /\ ToIdle' <=> ToIdle
      /\ \A p \in Ports : Flushes(p)' <=> Flushes(p)
  BY <1>1 DEF Disabling, Enabling, Reconfigures, Stopping, ToIdle, Flushes,
              codecVars, modeVars
<1>4. ASSUME NEW d, NEW b, NEW f, NEW q, NEW w, AnsweredOnce(d, b, f, q, w)
      PROVE  /\ Carried(d, b)' = IF post /\ c = d /\ a = b THEN 1 ELSE 0
             /\ Told(d, b)' = 0
             /\ Under(d, b, f, q)' = (IF post /\ c = d /\ a = b THEN 1 ELSE 0)
                                        + (IF <<f, q>> \in F THEN 1 ELSE 0)
  BY <1>1, <1>4, TakenUnder
<1>5. ASSUME NEW d, NEW b, NEW f, NEW q, NEW w, AnsweredOnce(d, b, f, q, w),
             NEW wn, (post /\ c = d /\ a = b) \/ <<f, q>> \in F => wn
      PROVE  Under(d, b, f, q)' <= IF wn /\ ~Asked' THEN 1 ELSE 0
  <2>1. post => F = {}
    BY DEF Answers
  <2>2. Under(d, b, f, q)' = (IF post /\ c = d /\ a = b THEN 1 ELSE 0)
                                + (IF <<f, q>> \in F THEN 1 ELSE 0)
    BY <1>4, <1>5
  <2>3. CASE wn
    <3>1. Under(d, b, f, q)' <= 1
      BY <2>1, <2>2
    <3> QED BY <1>1, <2>3, <3>1
  <2>4. CASE ~wn
    BY <1>5, <2>2, <2>4
  <2> QED BY <2>3, <2>4
<1>6. AnswerOK'
  <2>1. Under("StateSet", "Idle", "IDLE", "all")'
          <= IF ToIdle' /\ ~Asked' THEN 1 ELSE 0
    <3>1. AnsweredOnce("StateSet", "Idle", "IDLE", "all", ToIdle)
      BY DEF AnswerOK
    <3>2. (post /\ c = "StateSet" /\ a = "Idle") \/ <<"IDLE", "all">> \in F =>
             ToIdle'
      BY <1>2, <1>3
    <3> QED BY <1>5, <3>1, <3>2
  <2>2. Under("StateSet", "Executing", "EXECUTE", "all")'
          <= IF acodec' = "IdleToExecuting" /\ ~Asked' THEN 1 ELSE 0
    <3>1. AnsweredOnce("StateSet", "Executing", "EXECUTE", "all",
                       acodec = "IdleToExecuting")
      BY DEF AnswerOK
    <3>2. (post /\ c = "StateSet" /\ a = "Executing")
             \/ <<"EXECUTE", "all">> \in F => acodec' = "IdleToExecuting"
      BY <1>2 DEF codecVars
    <3> QED BY <1>5, <3>1, <3>2
  <2>3. Under("StateSet", "Loaded", "LOADING", "all")'
          <= IF acodec' = "IdleToLoaded" /\ ~Asked' THEN 1 ELSE 0
    <3>1. AnsweredOnce("StateSet", "Loaded", "LOADING", "all",
                       acodec = "IdleToLoaded")
      BY DEF AnswerOK
    <3>2. (post /\ c = "StateSet" /\ a = "Loaded")
             \/ <<"LOADING", "all">> \in F => acodec' = "IdleToLoaded"
      BY <1>2 DEF codecVars
    <3> QED BY <1>5, <3>1, <3>2
  <2>4. Under("PortDisable", "out", "DISABLE", "out")'
          <= IF Disabling' /\ ~Asked' THEN 1 ELSE 0
    <3>1. AnsweredOnce("PortDisable", "out", "DISABLE", "out", Disabling)
      BY DEF AnswerOK
    <3>2. (post /\ c = "PortDisable" /\ a = "out")
             \/ <<"DISABLE", "out">> \in F => Disabling'
      BY <1>2, <1>3
    <3> QED BY <1>5, <3>1, <3>2
  <2>5. Under("PortEnable", "out", "ENABLE", "out")'
          <= IF Enabling' /\ ~Asked' THEN 1 ELSE 0
    <3>1. AnsweredOnce("PortEnable", "out", "ENABLE", "out", Enabling)
      BY DEF AnswerOK
    <3>2. (post /\ c = "PortEnable" /\ a = "out")
             \/ <<"ENABLE", "out">> \in F => Enabling'
      BY <1>2, <1>3
    <3> QED BY <1>5, <3>1, <3>2
  <2>6. ASSUME NEW p \in Ports
        PROVE  Under("Flush", p, "FLUSH", p)'
                 <= IF Flushes(p)' /\ ~Asked' THEN 1 ELSE 0
    <3>1. AnsweredOnce("Flush", p, "FLUSH", p, Flushes(p))
      BY DEF AnswerOK
    <3>2. (post /\ c = "Flush" /\ a = p) \/ <<"FLUSH", p>> \in F => Flushes(p)'
      BY <1>2, <1>3
    <3> QED BY <1>5, <3>1, <3>2
  <2> QED BY <2>1, <2>2, <2>3, <2>4, <2>5, <2>6 DEF AnswerOK, AnsweredOnce
<1>7. KnownOK'
  <2>1. PICK z : z = ev'.cmd
    OBVIOUS
  <2>2. PICK q : q = Tail(ev.cmd)
    OBVIOUS
  <2>3. PICK k : k = DoneEntry(c, a)
    OBVIOUS
  <2>4. z \in Seq(KnownEntry) /\ \A i \in 1..Len(z) : z[i].id # "COMMAND"
    <3>1. CASE post
      <4>1. k \in KnownEntry /\ k.id # "COMMAND"
        BY <2>3, <3>1 DEF Answers, DoneEntry, Entry, KnownEntry, CmdEntry,
                    DoneAnswers, PortAnswers, Ids, Names, Args, States, Ports
      <4>2. /\ z = Append(q, k) /\ q \in Seq(KnownEntry)
            /\ \A i \in 1..Len(q) : q[i].id # "COMMAND"
        BY <1>1, <2>1, <2>2, <2>3, <3>1 DEF Answers
      <4> QED BY <4>1, <4>2
    <3>2. CASE ~post
      BY <1>1, <2>1, <2>2, <3>2 DEF Answers
    <3> QED BY <3>1, <3>2
  <2>5. m_flags' \cap ({"ENABLE", "DISABLE"} \X {"in"}) = {}
    BY DEF KnownOK, Answers
  <2>6. cb' \in Seq(KnownCallback)
    BY DEF KnownOK, Answers
  <2> QED BY <2>1, <2>4, <2>5, <2>6 DEF KnownOK
<1>8. StateOK'
  <2>1. \A x, y : Told(x, y)' = Told(x, y)
    BY DEF Told, Answers
  <2>2. Carried("StateSet", "Idle")' > 0 => acodec = "LoadedToIdle"
    <3>1. AnsweredOnce("StateSet", "Idle", "IDLE", "all", ToIdle)
      BY DEF AnswerOK
    <3>2. Carried("StateSet", "Idle")'
            = IF post /\ c = "StateSet" /\ a = "Idle" THEN 1 ELSE 0
      BY <1>4, <3>1
    <3> QED BY <3>2
  <2>3. UNCHANGED <<acodec, m_state, mComponentNowIdle>>
    BY DEF codecVars, modeVars
  <2> QED BY <2>1, <2>2, <2>3, <1>3 DEF StateOK
<1>9. CallsOK'
  <2> SUFFICES ASSUME NEW i \in 1..Len(calls) PROVE CallsOf(i)'
    BY DEF CallsOK, codecVars
  <2>1. CallsOf(i) /\ calls[i].op # "send"
    <3>1. calls[1] = Head(calls)
      OBVIOUS
    <3> QED BY <1>1, <3>1 DEF CallsOK, CallsOf
  <2>2. UNCHANGED <<acodec, calls, mActive, mStatus, mBuffers>>
    BY DEF codecVars, callVars, modeVars
  <2> QED BY <1>3, <2>1, <2>2 DEF CallsOf, Fits, Owned
<1>10. BuffersOK'
  <2>1. UNCHANGED <<acodec, mActive, mStatus, mBuffers, m_cur_buf_num>>
    BY DEF codecVars, callVars, modeVars, headVars
  <2>2. Inactive' <=> Inactive
    BY <1>3, <2>1 DEF Inactive
  <2>3. /\ allYourBuffersAreBelongToUs' <=> allYourBuffersAreBelongToUs
        /\ \A p : Owned(p)' = Owned(p)
    BY <2>1 DEF allYourBuffersAreBelongToUs, Owned
  <2> QED BY <1>3, <2>1, <2>2, <2>3 DEF BuffersOK, Full
<1> QED BY <1>6, <1>7, <1>8, <1>9, <1>10

LEMMA TakenHits ==
    ASSUME CodecInv, PhaseInv, NEW c, NEW a, TakesCommand(c, a),
           UNCHANGED codecVars, NEW F, NEW post, Answers(c, a, F, post)
    PROVE  /\ \A id \in {"STOP_DONE", "FLUSH_INPUT_DONE"} :
                Hits(ev'.cmd, EntriesOf(id)) = Hits(ev.cmd, EntriesOf(id))
           /\ StopFirst(ev'.cmd, EntriesOf("STOP_DONE"),
                        EntriesOf("FLUSH_INPUT_DONE"))
<1>1. /\ ev.cmd # <<>> /\ ev.cmd \in Seq(KnownEntry)
      /\ Tail(ev.cmd) \in Seq(KnownEntry) /\ Head(ev.cmd).id = "COMMAND"
  BY TakenFacts
<1>2. PICK q : q = Tail(ev.cmd)
  OBVIOUS
<1>3. PICK k : k = DoneEntry(c, a)
  OBVIOUS
<1>4. ASSUME NEW id \in {"STOP_DONE", "FLUSH_INPUT_DONE"}
      PROVE  Hits(q, EntriesOf(id)) = Hits(ev.cmd, EntriesOf(id))
  <2>1. Head(ev.cmd) \notin EntriesOf(id)
    BY <1>1 DEF EntriesOf
  <2>2. Hits(ev.cmd, EntriesOf(id)) = 0 + Hits(q, EntriesOf(id))
    BY <1>1, <1>2, <2>1, HitsTail
  <2>3. Hits(q, EntriesOf(id)) \in Nat
    BY <1>1, <1>2, HitsNat
  <2> QED BY <2>2, <2>3
<1>5. StopFirst(q, EntriesOf("STOP_DONE"), EntriesOf("FLUSH_INPUT_DONE"))
  BY <1>1, <1>2, StopFirstTail DEF PhaseInv, StopOK
<1>6. CASE ~post
  BY <1>2, <1>4, <1>5, <1>6 DEF Answers
<1>7. CASE post
  <2>1. k \in KnownEntry /\ k.id = "COMMAND_DONE"
    BY <1>3, <1>7 DEF Answers, DoneEntry, Entry, KnownEntry, CmdEntry,
                DoneAnswers, PortAnswers, Ids, Names, Args, States, Ports
  <2>2. \A id \in {"STOP_DONE", "FLUSH_INPUT_DONE"} : k \notin EntriesOf(id)
    BY <2>1 DEF EntriesOf
  <2>3. ev'.cmd = Append(q, k) /\ q \in Seq(KnownEntry)
    BY <1>1, <1>2, <1>3, <1>7 DEF Answers
  <2>4. ASSUME NEW id \in {"STOP_DONE", "FLUSH_INPUT_DONE"}
        PROVE  Hits(ev'.cmd, EntriesOf(id)) = Hits(ev.cmd, EntriesOf(id))
    <3>1. Hits(Append(q, k), EntriesOf(id)) = Hits(q, EntriesOf(id)) + 0
      BY <2>1, <2>2, <2>3, HitsAppend
    <3>2. Hits(q, EntriesOf(id)) \in Nat
      BY <2>3, HitsNat
    <3> QED BY <1>4, <2>3, <3>1, <3>2
  <2>5. StopFirst(Append(q, k), EntriesOf("STOP_DONE"),
                  EntriesOf("FLUSH_INPUT_DONE"))
    BY <1>5, <2>1, <2>2, <2>3, StopFirstAppend
  <2> QED BY <2>3, <2>4, <2>5
<1> QED BY <1>6, <1>7

LEMMA TakenQuiet ==
    ASSUME CodecInv, CodecInv', PhaseInv, NEW c, NEW a, TakesCommand(c, a),
           UNCHANGED codecVars, NEW F, NEW post, Answers(c, a, F, post),
           UNCHANGED <<m_state, m_port_flushing, flushReq>>,
           \/ toFlush' = {}
           \/ toFlush' = {"out"} /\ Disabling',
           \A code \in {"STOP_DONE", "FLUSH_INPUT_DONE"} :
              Hits(msgs', MsgsOf(code)) = Hits(msgs, MsgsOf(code)),
           StopFirst(msgs', MsgsOf("STOP_DONE"), MsgsOf("FLUSH_INPUT_DONE"))
    PROVE  FlushOK' /\ StopOK'
<1> USE DEF PhaseInv
<1>1. /\ \A id \in {"STOP_DONE", "FLUSH_INPUT_DONE"} :
           Hits(ev'.cmd, EntriesOf(id)) = Hits(ev.cmd, EntriesOf(id))
      /\ StopFirst(ev'.cmd, EntriesOf("STOP_DONE"),
                   EntriesOf("FLUSH_INPUT_DONE"))
  BY TakenHits
<1>2. toFlush = {} /\ {} # Ports /\ {"out"} # Ports
  <2>1. toFlush = {}
    BY TakenFacts
  <2> QED BY <2>1 DEF Ports
<1>3. \A id : EntriesOf(id)' = EntriesOf(id) /\ MsgsOf(id)' = MsgsOf(id)
  BY DEF EntriesOf, MsgsOf
<1>4. InputFlushes' = InputFlushes
  BY <1>1, <1>3 DEF InputFlushes
<1>5. Stopping' <=> Stopping
  BY DEF Stopping, codecVars, modeVars
<1>6. Reconfigures' <=> Reconfigures
  BY DEF Reconfigures, codecVars
<1>7. m_flags \subseteq m_flags'
  BY DEF Answers
<1>8. FlushOK'
  <2>1. Reconfigures => m_state = "Executing"
    BY DEF StateOK, Reconfigures
  <2>2. Told("PortDisable", "out")' = 0
    <3>1. AnsweredOnce("PortDisable", "out", "DISABLE", "out", Disabling)
      BY DEF AnswerOK
    <3>2. Told("PortDisable", "out") = 0
      BY <3>1, TakenFacts, OneAnswer
    <3> QED BY <3>2 DEF Answers, Told
  <2>3. Disabling' => Reconfigures
    BY <1>6 DEF Disabling
  <2> QED BY <1>2, <1>4, <1>5, <1>7, <2>1, <2>2, <2>3 DEF FlushOK
<1>9. StopOK'
  <2>1. Hits(msgs, MsgsOf("STOP_DONE")) > 0
           \/ Hits(ev.cmd, EntriesOf("STOP_DONE")) > 0 =>
              m_port_flushing["in"]
    BY <1>2 DEF StopOK
  <2> QED BY <1>1, <1>3, <2>1 DEF StopOK
<1> QED BY <1>8, <1>9

(* Nothing is flushed as a stop or a flush is taken.                       *)
LEMMA TakenNoFlush ==
    ASSUME CodecInv, PhaseInv, NEW c, NEW a, TakesCommand(c, a),
           UNCHANGED codecVars
    PROVE  /\ ~m_port_flushing["in"] /\ InputFlushes = 0
           /\ "in" \notin flushReq
           /\ Hits(msgs, MsgsOf("FLUSH_INPUT_DONE")) = 0
           /\ Hits(ev.cmd, EntriesOf("FLUSH_INPUT_DONE")) = 0
           /\ Hits(msgs, MsgsOf("STOP_DONE")) = 0
           /\ Hits(ev.cmd, EntriesOf("STOP_DONE")) = 0
<1> USE DEF PhaseInv
<1>1. Asked /\ toFlush = {}
  BY TakenFacts
<1>2. <<"FLUSH", "in">> \notin m_flags
  <2>1. AnsweredOnce("Flush", "in", "FLUSH", "in", Flushes("in"))
    BY DEF AnswerOK, Ports
  <2> QED BY <1>1, <2>1, OneAnswer
<1>3. <<"IDLE", "all">> \notin m_flags
  <2>1. AnsweredOnce("StateSet", "Idle", "IDLE", "all", ToIdle)
    BY DEF AnswerOK
  <2> QED BY <1>1, <2>1, OneAnswer
<1>4. ~m_port_flushing["in"]
  BY <1>2, <1>3 DEF FlushOK
<1>5. InputFlushes <= 0
  BY <1>4 DEF FlushOK
<1>6. \A T : Hits(ev.cmd, T) \in Nat /\ Hits(msgs, T) \in Nat
  BY UnderFacts
<1>7. /\ InputFlushes = 0 /\ "in" \notin flushReq
      /\ Hits(msgs, MsgsOf("FLUSH_INPUT_DONE")) = 0
      /\ Hits(ev.cmd, EntriesOf("FLUSH_INPUT_DONE")) = 0
  BY <1>5, <1>6 DEF InputFlushes
<1>8. toFlush # Ports
  BY <1>1 DEF Ports
<1>9. /\ ~(Hits(msgs, MsgsOf("STOP_DONE")) > 0)
      /\ ~(Hits(ev.cmd, EntriesOf("STOP_DONE")) > 0)
  BY <1>4, <1>8 DEF StopOK
<1>10. \A n \in Nat : ~(n > 0) => n = 0
  OBVIOUS
<1> QED BY <1>4, <1>6, <1>7, <1>9, <1>10

(* The commands of the component.                                          *)
LEMMA PostedDone ==
    ASSUME CodecInv, NEW c \in Names, NEW a \in Args, Takes("COMMAND"), NEW d,
           NEW b, TakesCommand(d, b)
    PROVE  /\ Popped("COMMAND").cmd = Tail(ev.cmd)
           /\ post_event(Popped("COMMAND"), "COMMAND_DONE", c, a).cmd
                = Append(Tail(ev.cmd), DoneEntry(c, a))
<1>1. Popped("COMMAND") \in EvType
  BY TakesTheCommand
<1>2. Popped("COMMAND").cmd = Tail(ev.cmd)
  BY TakesPop DEF QueueOf
<1>3. PICK e : e = Popped("COMMAND")
  OBVIOUS
<1>4. post_event(e, "COMMAND_DONE", c, a).cmd
        = Append(e.cmd, DoneEntry(c, a))
  BY <1>1, <1>3 DEF post_event, QueueOf, EvType, DoneEntry
<1> QED BY <1>2, <1>3, <1>4

LEMMA StateSetMemoryPhase ==
    ASSUME CodecInv, PhaseInv, UNCHANGED codecVars,
           NEW from, NEW to, NEW ready, NEW flag,
           StateSetMemory(from, to, ready, flag),
           \/ /\ from = "Loaded" /\ to = "Idle" /\ flag = "IDLE"
              /\ ready <=> Full
           \/ /\ from = "Idle" /\ to = "Loaded" /\ flag = "LOADING"
              /\ ready <=> Empty
    PROVE  PhaseInv'
<1> USE DEF PhaseInv
<1>1. CodecInv'
  BY StateSetMemoryStep DEF States
<1>2. /\ TakesCommand("StateSet", to) /\ Takes("COMMAND") /\ m_state = from
      /\ UNCHANGED <<m_state, portVars, headVars, toFlush, drvVars, cb>>
  BY DEF StateSetMemory, TakesCommand
<1>3. to \in Args /\ "StateSet" \in Names
  BY DEF Args, States, Names
<1>4. PICK F : F = IF ready THEN {} ELSE {<<flag, "all">>}
  OBVIOUS
<1>5. Answers("StateSet", to, F, ready)
  <2>1. /\ ev'.cmd = IF ready THEN Append(Tail(ev.cmd), DoneEntry("StateSet", to))
                     ELSE Tail(ev.cmd)
        /\ m_flags' = m_flags \cup F
    <3>1. CASE ready
      BY <1>2, <1>3, <1>4, <3>1, PostedDone DEF StateSetMemory
    <3>2. CASE ~ready
      BY <1>2, <1>3, <1>4, <3>2, PostedDone DEF StateSetMemory
    <3> QED BY <3>1, <3>2
  <2>2. ready => <<"StateSet", to>> \in DoneAnswers /\ F = {}
    BY <1>4 DEF DoneAnswers
  <2> QED BY <1>2, <2>1, <2>2 DEF Answers
<1>6. toFlush = {}
  BY <1>2, TakenFacts
<1>7. /\ to = "Idle" => acodec = "LoadedToIdle"
      /\ to = "Loaded" => acodec = "IdleToLoaded"
  <2>1. to = "Idle" => ToIdle
    BY <1>2, TakenFacts
  <2>2. to = "Loaded" => acodec = "IdleToLoaded"
    BY <1>2, TakenFacts
  <2>3. to = "Idle" => m_state = "Loaded"
    BY <1>2
  <2> QED BY <2>1, <2>2, <2>3 DEF ToIdle, Stopping, StateOK
<1>8. FlushOK' /\ StopOK'
  <2>1. UNCHANGED <<m_state, m_port_flushing, flushReq, msgs>> /\ toFlush' = {}
    BY <1>2, <1>6 DEF portVars, drvVars
  <2>2. StopFirst(msgs', MsgsOf("STOP_DONE"), MsgsOf("FLUSH_INPUT_DONE"))
    BY <2>1 DEF StopOK
  <2> QED BY <1>1, <1>2, <1>5, <2>1, <2>2, TakenQuiet
<1>9. ~Reconfigures /\ ~Disabling
  BY <1>7 DEF Reconfigures, Disabling
<1>10. m_port_enabled["out"] \in BOOLEAN /\ m_port_enabled' = m_port_enabled
  BY <1>2 DEF CodecInv, TypeOK, Ports, portVars
<1>11. acodec = "LoadedToIdle" /\ <<"IDLE", "all">> \notin m_flags' => Full
  BY <1>4, <1>5, <1>7 DEF Answers
<1>12. acodec = "IdleToLoaded" /\ <<"LOADING", "all">> \notin m_flags' =>
          \A p \in Ports : m_cur_buf_num[p] = 0
  BY <1>4, <1>5, <1>7 DEF Answers, Empty, Both
<1>13. UNCHANGED <<codecVars, headVars, m_state>>
  BY <1>2
<1>14. \/ "StateSet" = "StateSet" /\ to = "Idle" /\ F \subseteq {<<"IDLE", "all">>}
       \/ "StateSet" = "StateSet" /\ to = "Loaded"
             /\ F \subseteq {<<"LOADING", "all">>}
  BY <1>4
<1> QED BY <1>1, <1>2, <1>5, <1>7, <1>8, <1>9, <1>10, <1>11, <1>12, <1>13,
           <1>14, TakenPhase

LEMMA StateSetExecutingPhase ==
    ASSUME CodecInv, PhaseInv, UNCHANGED codecVars, StateSetExecuting
    PROVE  PhaseInv'
<1> USE DEF PhaseInv
<1>1. CodecInv'
  BY StateSetMessageStep
<1>2. PICK m : m = [code |-> "START_DONE", buf |-> NULL, len |-> "empty"]
  OBVIOUS
<1>3. /\ TakesCommand("StateSet", "Executing") /\ ev' = Popped("COMMAND")
      /\ msgs' = Append(msgs, m)
      /\ m_flags' = m_flags \cup {<<"EXECUTE", "all">>}
      /\ UNCHANGED <<m_state, portVars, headVars, toFlush, drv, flushReq,
                     resizes, cb>>
  BY <1>2 DEF StateSetExecuting
<1>4. PICK F : F = {<<"EXECUTE", "all">>}
  OBVIOUS
<1>5. /\ acodec = "IdleToExecuting" /\ toFlush = {}
      /\ Popped("COMMAND").cmd = Tail(ev.cmd)
  BY <1>3, TakenFacts
<1>6. Answers("StateSet", "Executing", F, FALSE)
  BY <1>3, <1>4, <1>5 DEF Answers
<1>7. FlushOK' /\ StopOK'
  <2>1. m \in Msg /\ m.code = "START_DONE" /\ msgs \in Seq(Msg)
    BY <1>2, UnderFacts DEF Msg, DriverIds
  <2>2. \A code \in {"STOP_DONE", "FLUSH_INPUT_DONE"} : m \notin MsgsOf(code)
    BY <2>1 DEF MsgsOf
  <2>3. ASSUME NEW code \in {"STOP_DONE", "FLUSH_INPUT_DONE"}
        PROVE  Hits(msgs', MsgsOf(code)) = Hits(msgs, MsgsOf(code))
    <3>1. Hits(msgs', MsgsOf(code)) = Hits(msgs, MsgsOf(code)) + 0
      BY <1>3, <2>1, <2>2, HitsAppend
    <3> QED BY <3>1, UnderFacts
  <2>4. StopFirst(msgs', MsgsOf("STOP_DONE"), MsgsOf("FLUSH_INPUT_DONE"))
    BY <1>3, <2>1, <2>2, StopFirstAppend DEF StopOK
  <2>5. UNCHANGED <<m_state, m_port_flushing, flushReq>> /\ toFlush' = {}
    BY <1>3, <1>5 DEF portVars
  <2> QED BY <1>1, <1>3, <1>6, <2>3, <2>4, <2>5, TakenQuiet
<1>8. m_port_enabled["out"] \in BOOLEAN /\ m_port_enabled' = m_port_enabled
  BY <1>3 DEF CodecInv, TypeOK, Ports, portVars
<1>9. /\ ~Reconfigures /\ ~Disabling
  BY <1>5 DEF Reconfigures, Disabling
<1>10. UNCHANGED <<codecVars, headVars, m_state>>
  BY <1>3
<1> QED BY <1>1, <1>3, <1>4, <1>5, <1>6, <1>7, <1>8, <1>9, <1>10, TakenPhase

LEMMA StateSetIdlePhase ==
    ASSUME CodecInv, PhaseInv, UNCHANGED codecVars, StateSetIdle
    PROVE  PhaseInv'
<1> USE DEF PhaseInv
<1>1. CodecInv'
  BY StateSetMessageStep
<1>2. PICK m : m = [code |-> "STOP_DONE", buf |-> NULL, len |-> "empty"]
  OBVIOUS
<1>3. /\ TakesCommand("StateSet", "Idle") /\ ev' = Popped("COMMAND")
      /\ msgs' = Append(msgs, m) /\ m_state = "Executing" /\ toFlush' = Ports
      /\ m_flags' = m_flags \cup {<<"IDLE", "all">>}
      /\ UNCHANGED <<m_state, portVars, headVars, drv, flushReq, resizes, cb>>
  BY <1>2 DEF StateSetIdle
<1>4. PICK F : F = {<<"IDLE", "all">>}
  OBVIOUS
<1>5. /\ ToIdle /\ Popped("COMMAND").cmd = Tail(ev.cmd)
  BY <1>3, TakenFacts
<1>6. Answers("StateSet", "Idle", F, FALSE)
  BY <1>3, <1>4, <1>5 DEF Answers
<1>7. Stopping
  BY <1>3, <1>5 DEF ToIdle, StateOK
<1>8. /\ ~m_port_flushing["in"] /\ "in" \notin flushReq
      /\ Hits(msgs, MsgsOf("FLUSH_INPUT_DONE")) = 0
      /\ Hits(ev.cmd, EntriesOf("FLUSH_INPUT_DONE")) = 0
  BY <1>3, TakenNoFlush
<1>9. /\ m \in Msg /\ msgs \in Seq(Msg)
      /\ m \notin MsgsOf("FLUSH_INPUT_DONE")
    BY <1>2, UnderFacts DEF Msg, DriverIds, MsgsOf
<1>10. Hits(msgs', MsgsOf("FLUSH_INPUT_DONE")) = 0
  <2>1. Hits(msgs', MsgsOf("FLUSH_INPUT_DONE")) = 0 + 0
    BY <1>3, <1>8, <1>9, HitsAppend
  <2> QED BY <2>1
<1>11. /\ Hits(ev'.cmd, EntriesOf("FLUSH_INPUT_DONE")) = 0
       /\ StopFirst(ev'.cmd, EntriesOf("STOP_DONE"),
                    EntriesOf("FLUSH_INPUT_DONE"))
  BY <1>3, <1>6, <1>8, TakenHits
<1>12. \A id : EntriesOf(id)' = EntriesOf(id) /\ MsgsOf(id)' = MsgsOf(id)
  BY DEF EntriesOf, MsgsOf
<1>13. Stopping'
  BY <1>7 DEF Stopping, codecVars, modeVars
<1>14. FlushOK'
  <2>1. InputFlushes' = 0
    BY <1>3, <1>8, <1>10, <1>11, <1>12 DEF InputFlushes
  <2>2. /\ toFlush' = Ports /\ Ports # {"out"} /\ m_state' = "Executing"
        /\ m_port_flushing' = m_port_flushing
        /\ <<"IDLE", "all">> \in m_flags'
    BY <1>3 DEF Ports, portVars
  <2> QED BY <1>8, <1>13, <2>1, <2>2 DEF FlushOK
<1>15. StopOK'
  <2>1. StopFirst(msgs', MsgsOf("STOP_DONE"), MsgsOf("FLUSH_INPUT_DONE"))
    BY <1>3, <1>8, <1>9, StopFirstAppend DEF StopOK
  <2> QED BY <1>3, <1>11, <1>12, <2>1 DEF StopOK
<1>16. m_port_enabled["out"] \in BOOLEAN /\ m_port_enabled' = m_port_enabled
  BY <1>3 DEF CodecInv, TypeOK, Ports, portVars
<1>17. /\ ~Reconfigures /\ ~Disabling /\ acodec = "ExecutingToIdle"
  BY <1>7 DEF Reconfigures, Disabling, Stopping
<1>18. UNCHANGED <<codecVars, headVars, m_state>>
  BY <1>3
<1> QED BY <1>1, <1>3, <1>4, <1>6, <1>14, <1>15, <1>16, <1>17, <1>18, TakenPhase

LEMMA FlushCommandPhase ==
    ASSUME CodecInv, PhaseInv, UNCHANGED codecVars, handle_command_flush
    PROVE  PhaseInv'
<1> USE DEF PhaseInv
<1>1. CodecInv'
  BY FlushCommandStep
<1>2. PICK F : F = {<<"FLUSH", p>> : p \in Ports}
  OBVIOUS
<1>3. /\ TakesCommand("Flush", "all") /\ ev' = Popped("COMMAND")
      /\ m_flags' = m_flags \cup F /\ m_port_flushing' = Both(TRUE)
      /\ flushReq' = Ports
      /\ UNCHANGED <<m_state, m_port_enabled, m_port_reconfig, headVars, toFlush,
                     drv, msgs, resizes, cb>>
  BY <1>2 DEF handle_command_flush
<1>4. /\ \A p \in Ports : Flushes(p)
      /\ toFlush = {} /\ Popped("COMMAND").cmd = Tail(ev.cmd)
  BY <1>3, TakenFacts
<1>5. acodec = "Flushing" /\ m_state = "Executing"
  BY <1>4 DEF Flushes, Ports, StateOK
<1>6. Answers("Flush", "all", F, FALSE)
  BY <1>3, <1>4 DEF Answers
<1>7. /\ Hits(msgs, MsgsOf("FLUSH_INPUT_DONE")) = 0
      /\ Hits(ev.cmd, EntriesOf("FLUSH_INPUT_DONE")) = 0
  BY <1>3, TakenNoFlush
<1>8. /\ Hits(ev'.cmd, EntriesOf("FLUSH_INPUT_DONE")) = 0
      /\ StopFirst(ev'.cmd, EntriesOf("STOP_DONE"),
                   EntriesOf("FLUSH_INPUT_DONE"))
  BY <1>3, <1>6, <1>7, TakenHits
<1>9. \A id : EntriesOf(id)' = EntriesOf(id) /\ MsgsOf(id)' = MsgsOf(id)
  BY DEF EntriesOf, MsgsOf
<1>10. FlushOK'
  <2>1. InputFlushes' = 1
    BY <1>3, <1>7, <1>8, <1>9 DEF InputFlushes, Ports
  <2>2. /\ toFlush' = {} /\ Ports # {} /\ m_state' = "Executing"
        /\ m_port_flushing'["in"] /\ <<"FLUSH", "in">> \in m_flags'
    BY <1>2, <1>3, <1>4, <1>5 DEF Ports, Both
  <2> QED BY <2>1, <2>2 DEF FlushOK
<1>11. StopOK'
  <2>1. m_port_flushing'["in"] /\ msgs' = msgs
    BY <1>3 DEF Both, Ports
  <2> QED BY <1>8, <1>9, <2>1 DEF StopOK
<1>12. m_port_enabled["out"] \in BOOLEAN /\ m_port_enabled' = m_port_enabled
  BY <1>3 DEF CodecInv, TypeOK, Ports
<1>13. ~Reconfigures /\ ~Disabling
  BY <1>5 DEF Reconfigures, Disabling
<1>14. UNCHANGED <<codecVars, headVars, m_state>>
  BY <1>3
<1> QED BY <1>1, <1>2, <1>3, <1>5, <1>6, <1>10, <1>11, <1>12, <1>13, <1>14,
           TakenPhase

LEMMA PortCommandPhase ==
    ASSUME CodecInv, PhaseInv, UNCHANGED codecVars,
           \/ handle_command_port_disable("out")
           \/ handle_command_port_enable("out")
    PROVE  PhaseInv'
<1> USE DEF PhaseInv
<1>1. CodecInv'
  BY PortCommandStep
<1>2. m_port_enabled \in [Ports -> BOOLEAN]
  BY DEF CodecInv, TypeOK
<1>3. \A c \in {"PortDisable", "PortEnable"} :
         c \in Names /\ "out" \in Args /\ <<c, "out">> \in DoneAnswers
  BY DEF Names, Args, Ports, DoneAnswers, PortAnswers
<1>4. ASSUME NEW c \in {"PortDisable", "PortEnable"}, NEW F, NEW post,
             TakesCommand(c, "out"), Reconfigures,
             ev' = IF post
                   THEN post_event(Popped("COMMAND"), "COMMAND_DONE", c, "out")
                   ELSE Popped("COMMAND"),
             post => F = {},
             UNCHANGED <<m_state, m_port_flushing, headVars, drvVars, cb>>,
             m_flags' = m_flags \cup F,
             c = "PortDisable" => F \subseteq {<<"DISABLE", "out">>},
             c = "PortEnable" => F \subseteq {<<"ENABLE", "out">>},
             toFlush' = {} \/ (toFlush' = {"out"} /\ Disabling),
             m_port_enabled' = [m_port_enabled EXCEPT
                                  !["out"] = ~m_port_enabled["out"]],
             Disabling /\ <<"DISABLE", "out">> \notin m_flags' =>
                m_cur_buf_num["out"] = 0
      PROVE  PhaseInv'
  <2>1. Takes("COMMAND")
    BY <1>4 DEF TakesCommand
  <2>2. ev'.cmd = IF post THEN Append(Tail(ev.cmd), DoneEntry(c, "out"))
                  ELSE Tail(ev.cmd)
    <3>1. CASE post
      BY <1>3, <1>4, <2>1, <3>1, PostedDone
    <3>2. CASE ~post
      BY <1>3, <1>4, <2>1, <3>2, PostedDone
    <3> QED BY <3>1, <3>2
  <2>3. Answers(c, "out", F, post)
    BY <1>3, <1>4, <2>2 DEF Answers
  <2>4. FlushOK' /\ StopOK'
    <3>1. /\ UNCHANGED <<m_state, m_port_flushing, flushReq, msgs>>
          /\ toFlush' = {} \/ (toFlush' = {"out"} /\ Disabling')
      <4>1. Asked /\ ~Asked' /\ (Reconfigures' <=> Reconfigures)
        BY <1>4, TakenFacts DEF Reconfigures, codecVars
      <4>2. /\ m_port_enabled["out"] \in BOOLEAN
            /\ m_port_enabled'["out"] = ~m_port_enabled["out"]
        BY <1>2, <1>4 DEF Ports
      <4>3. Disabling => Disabling'
        BY <4>1, <4>2 DEF Disabling
      <4> QED BY <1>4, <4>3 DEF drvVars
    <3>2. StopFirst(msgs', MsgsOf("STOP_DONE"), MsgsOf("FLUSH_INPUT_DONE"))
      BY <3>1 DEF StopOK
    <3> QED BY <1>1, <1>4, <2>3, <3>1, <3>2, TakenQuiet
  <2>5. /\ m_port_enabled["out"] \in BOOLEAN /\ m_port_enabled'["out"] \in BOOLEAN
        /\ m_port_enabled'["in"] = m_port_enabled["in"]
        /\ m_port_enabled'["out"] = ~m_port_enabled["out"]
    BY <1>2, <1>4 DEF Ports
  <2>6. acodec = "OutputPortSettingsChanged"
    BY <1>4 DEF Reconfigures
  <2>7. UNCHANGED <<codecVars, headVars, m_state>>
    BY <1>4
  <2>8. \/ c = "PortDisable" /\ "out" = "out" /\ F \subseteq {<<"DISABLE", "out">>}
        \/ c = "PortEnable" /\ "out" = "out" /\ F \subseteq {<<"ENABLE", "out">>}
    BY <1>4
  <2> QED BY <1>1, <1>4, <2>3, <2>4, <2>5, <2>6, <2>7, <2>8, TakenPhase
<1>5. CASE handle_command_port_disable("out")
  <2>1. /\ TakesCommand("PortDisable", "out")
        /\ UNCHANGED <<m_state, m_port_flushing, headVars, drvVars, cb>>
        /\ m_port_enabled' = [m_port_enabled EXCEPT !["out"] = FALSE]
    BY <1>5 DEF handle_command_port_disable
  <2>2. Disabling /\ Asked /\ toFlush = {}
    BY <2>1, TakenFacts
  <2>3. m_port_enabled["out"] /\ Reconfigures
    BY <2>2 DEF Disabling
  <2>4. m_port_enabled' = [m_port_enabled EXCEPT !["out"] = ~m_port_enabled["out"]]
    BY <2>1, <2>3
  <2>5. PICK post : post = (m_cur_buf_num["out"] = 0)
    OBVIOUS
  <2>6. PICK F : F = IF post THEN {} ELSE {<<"DISABLE", "out">>}
    OBVIOUS
  <2>7. /\ ev' = IF post THEN post_event(Popped("COMMAND"), "COMMAND_DONE",
                                         "PortDisable", "out")
                 ELSE Popped("COMMAND")
        /\ m_flags' = m_flags \cup F /\ (toFlush' = {} \/ toFlush' = {"out"})
    <3>1. CASE post
      BY <1>5, <2>2, <2>3, <2>5, <2>6, <3>1 DEF handle_command_port_disable
    <3>2. CASE ~post
      BY <1>5, <2>3, <2>5, <2>6, <3>2
         DEF handle_command_port_disable, DisableFlags
    <3> QED BY <3>1, <3>2
  <2>8. Disabling /\ <<"DISABLE", "out">> \notin m_flags' =>
           m_cur_buf_num["out"] = 0
    BY <2>5, <2>6, <2>7
  <2>9. (post => F = {}) /\ F \subseteq {<<"DISABLE", "out">>}
    BY <2>6
  <2> QED BY <1>4, <2>1, <2>2, <2>3, <2>4, <2>7, <2>8, <2>9
<1>6. CASE handle_command_port_enable("out")
  <2>1. /\ TakesCommand("PortEnable", "out")
        /\ UNCHANGED <<m_state, m_port_flushing, headVars, drvVars, cb, toFlush>>
        /\ m_port_enabled' = [m_port_enabled EXCEPT !["out"] = TRUE]
    BY <1>6 DEF handle_command_port_enable
  <2>2. Enabling /\ Asked /\ toFlush = {}
    BY <2>1, TakenFacts
  <2>3. ~m_port_enabled["out"] /\ Reconfigures /\ ~Disabling
    BY <2>2 DEF Enabling, Disabling
  <2>4. m_port_enabled' = [m_port_enabled EXCEPT !["out"] = ~m_port_enabled["out"]]
    BY <2>1, <2>3
  <2>5. PICK post : post = (m_cur_buf_num["out"] = max_count("out"))
    OBVIOUS
  <2>6. PICK F : F = IF post THEN {} ELSE {<<"ENABLE", "out">>}
    OBVIOUS
  <2>7. /\ ev' = IF post THEN post_event(Popped("COMMAND"), "COMMAND_DONE",
                                         "PortEnable", "out")
                 ELSE Popped("COMMAND")
        /\ m_flags' = m_flags \cup F
    <3>1. CASE post
      BY <1>6, <2>3, <2>5, <2>6, <3>1 DEF handle_command_port_enable
    <3>2. CASE ~post
      BY <1>6, <2>3, <2>5, <2>6, <3>2 DEF handle_command_port_enable
    <3> QED BY <3>1, <3>2
  <2>8. (post => F = {}) /\ F \subseteq {<<"ENABLE", "out">>}
    BY <2>6
  <2>9. toFlush' = {}
    BY <2>1, <2>2
  <2> QED BY <1>4, <2>1, <2>3, <2>4, <2>7, <2>8, <2>9
<1> QED BY <1>5, <1>6

(* Every step of the component.                                            *)
LEMMA ComponentPhase ==
    ASSUME CodecInv, PhaseInv, Component
    PROVE  PhaseInv'
<1>1. UNCHANGED codecVars
  BY DEF Component
<1>2. CASE handle_command_state_set
  <2>1. CASE StateSetMemory("Loaded", "Idle", Full, "IDLE")
    BY <1>1, <2>1, StateSetMemoryPhase
  <2>2. CASE StateSetMemory("Idle", "Loaded", Empty, "LOADING")
    BY <1>1, <2>2, StateSetMemoryPhase
  <2> QED BY <1>1, <1>2, <2>1, <2>2, StateSetExecutingPhase, StateSetIdlePhase
          DEF handle_command_state_set
<1>3. CASE event_thread
  <2>1. CASE \E p \in Ports : SubmitProxy(p) \/ GenerateDone(p) \/ FlushDone(p)
    BY <1>1, <2>1, SubmitProxyPhase, GenerateDonePhase, FlushDonePhase
  <2> QED BY <1>1, <1>2, <1>3, <2>1, EventIgnoredPhase, StartDonePhase,
             StopDonePhase, CommandDonePhase, ImageSizeChangePhase,
             FlushCommandPhase, PortCommandPhase, FlushPortPhase
          DEF event_thread
<1>4. CASE message_process
  BY <1>1, <1>4, MessagePhase
<1>5. CASE \E p \in Ports : DriverReturns(p) \/ DriverFlushed(p)
  BY <1>1, <1>5, DriverReturnsPhase, DriverFlushedPhase
<1>6. CASE DriverResizes
  BY <1>1, <1>6, DriverResizesPhase
<1> QED BY <1>3, <1>4, <1>5, <1>6 DEF Component
===============================================================================
