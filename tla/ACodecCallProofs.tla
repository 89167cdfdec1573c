-------------------------- MODULE ACodecCallProofs ---------------------------
(***************************************************************************)
(* ACodec keeps to the phases of its commands: its handlers, which take a  *)
(* request, a message of MediaCodec or a callback and make a list of       *)
(* calls, and the calls, which the component carries out one at a time.    *)
(*                                                                         *)
(* With both sides PhaseInv is an invariant. It follows that the component *)
(* accepts every call of ACodec, that only one thread at a time writes     *)
(* m_flags, and that no CHECK of the callback handlers fails.              *)
(***************************************************************************)
EXTENDS ACodecPhaseProofs

-------------------------------------------------------------------------------
(* The handlers of ACodec: no call and no command is under way.            *)
LEMMA HandlerFacts ==
    ASSUME CodecInv, calls = <<>>
    PROVE  /\ ~Asked /\ m_cmd_lock = 0
           /\ \A i \in 1..Len(ev.cmd) : ev.cmd[i].id # "COMMAND"
<1>1. Commands(ev.cmd) \in Nat /\ m_cmd_lock \in Nat
  BY Typing
<1>2. Commands(ev.cmd) + m_cmd_lock <= 0
  BY DEF CodecInv, CommandOK, Makes
<1>3. Commands(ev.cmd) = 0 /\ m_cmd_lock = 0
  BY <1>1, <1>2
<1>4. \A i \in 1..Len(ev.cmd) : ev.cmd[i].id # "COMMAND"
  BY <1>3, UnderFacts, NoCommands
<1> QED BY <1>3, <1>4 DEF Asked

(* Nothing is under way.                                                   *)
NoneUnder ==
    /\ Under("StateSet", "Idle", "IDLE", "all") = 0
    /\ Under("StateSet", "Executing", "EXECUTE", "all") = 0
    /\ Under("StateSet", "Loaded", "LOADING", "all") = 0
    /\ Under("PortDisable", "out", "DISABLE", "out") = 0
    /\ Under("PortEnable", "out", "ENABLE", "out") = 0
    /\ \A p \in Ports : Under("Flush", p, "FLUSH", p) = 0

LEMMA NoneAnswered ==
    ASSUME NoneUnder'
    PROVE  AnswerOK'
<1>1. \A w : 0 <= IF w THEN 1 ELSE 0
  OBVIOUS
<1> QED BY <1>1 DEF NoneUnder, AnswerOK, AnsweredOnce

LEMMA ZeroUnder ==
    ASSUME CodecInv', NEW c, NEW a, NEW f, NEW q, Under(c, a, f, q)' = 0
    PROVE  Carried(c, a)' = 0 /\ Told(c, a)' = 0 /\ <<f, q>> \notin m_flags'
<1>1. Carried(c, a)' \in Nat /\ Told(c, a)' \in Nat /\ Bit(f, q)' \in {0, 1}
  BY UnderFactsNext
<1>2. Carried(c, a)' + Told(c, a)' + Bit(f, q)' = 0
  BY DEF Under
<1>3. Carried(c, a)' = 0 /\ Told(c, a)' = 0 /\ Bit(f, q)' = 0
  BY <1>1, <1>2
<1>4. Bit(f, q)' = 0 => <<f, q>> \notin m_flags'
  BY DEF Bit
<1> QED BY <1>3, <1>4

LEMMA NoneFacts ==
    ASSUME CodecInv', NoneUnder'
    PROVE  /\ Carried("StateSet", "Idle")' = 0
           /\ \A a \in States : Told("StateSet", a)' = 0
           /\ Told("PortDisable", "out")' = 0
           /\ <<"IDLE", "all">> \notin m_flags'
           /\ <<"FLUSH", "in">> \notin m_flags'
<1>1. /\ Carried("StateSet", "Idle")' = 0 /\ Told("StateSet", "Idle")' = 0
      /\ <<"IDLE", "all">> \notin m_flags'
  BY ZeroUnder DEF NoneUnder
<1>2. Told("StateSet", "Executing")' = 0 /\ Told("StateSet", "Loaded")' = 0
  BY ZeroUnder DEF NoneUnder
<1>3. Told("PortDisable", "out")' = 0
  BY ZeroUnder DEF NoneUnder
<1>4. <<"FLUSH", "in">> \notin m_flags'
  BY ZeroUnder DEF NoneUnder, Ports
<1> QED BY <1>1, <1>2, <1>3, <1>4 DEF States

(* What a handler leaves alone.                                            *)
Handles ==
    /\ calls = <<>>
    /\ UNCHANGED <<m_state, m_flags, portVars, headVars, ev, m_cmd_lock,
                   toFlush, drvVars, mBuffers>>
    /\ cb' \in Seq(KnownCallback)

LEMMA HandlerKnown ==
    ASSUME CodecInv, KnownOK, Handles
    PROVE  KnownOK'
<1>1. \A i \in 1..Len(ev.cmd) : ev.cmd[i].id # "COMMAND"
  BY HandlerFacts DEF Handles
<1> QED BY <1>1 DEF Handles, KnownOK

LEMMA HandlerStop ==
    ASSUME CodecInv, StopOK, Handles
    PROVE  StopOK'
<1>1. UNCHANGED <<ev, msgs, toFlush, m_port_flushing>>
  BY DEF Handles, portVars, drvVars
<1> QED BY <1>1 DEF StopOK

(* The state ACodec takes the component to be in, when nothing is under    *)
(* way.                                                                    *)
StateFor(state, idle) ==
    CASE state \in {"Loaded", "LoadedToIdle"} -> "Loaded"
      [] state \in {"IdleToExecuting", "IdleToLoaded"} -> "Idle"
      [] state = "ExecutingToIdle" /\ idle -> "Idle"
      [] OTHER -> "Executing"

(* A handler that ends with nothing under way.                             *)
LEMMA NonePhase ==
    ASSUME CodecInv, CodecInv', PhaseInv, Handles, NoneUnder',
           toFlush # {"out"}, m_state = StateFor(acodec', mComponentNowIdle'),
           ~Reconfigures' => m_port_enabled["out"], CallsOK', BuffersOK'
    PROVE  PhaseInv'
<1> USE DEF PhaseInv
<1>1. AnswerOK'
  BY NoneAnswered
<1>2. KnownOK' /\ StopOK'
  BY HandlerKnown, HandlerStop
<1>3. /\ Carried("StateSet", "Idle")' = 0
      /\ \A a \in States : Told("StateSet", a)' = 0
      /\ <<"IDLE", "all">> \notin m_flags'
      /\ <<"FLUSH", "in">> \notin m_flags'
  BY NoneFacts
<1>4. /\ m_state' = m_state /\ m_flags' = m_flags /\ toFlush' = toFlush
      /\ m_port_enabled' = m_port_enabled /\ m_port_flushing' = m_port_flushing
      /\ ev' = ev /\ msgs' = msgs /\ flushReq' = flushReq
  BY DEF Handles, portVars, drvVars
<1>5. StateOK'
  <2>1. /\ Told("StateSet", "Idle")' = 0 /\ Told("StateSet", "Loaded")' = 0
        /\ Told("StateSet", "Executing")' = 0
    BY <1>3 DEF States
  <2>2. m_port_enabled["in"]
    BY DEF StateOK
  <2>3. acodec' \in {"Loaded", "LoadedToIdle", "IdleToExecuting", "Executing",
                     "OutputPortSettingsChanged", "Flushing",
                     "ExecutingToIdle", "IdleToLoaded"}
    BY DEF CodecInv, TypeOK
  <2> QED BY <1>3, <1>4, <2>1, <2>2, <2>3 DEF StateOK, StateFor
<1>6. FlushOK'
  <2>1. ~m_port_flushing["in"] /\ toFlush # Ports
    BY <1>3, <1>4 DEF FlushOK
  <2>2. InputFlushes' = InputFlushes
    BY <1>4 DEF InputFlushes
  <2>3. toFlush = {} /\ {} # Ports /\ {} # {"out"}
    BY <2>1 DEF FlushOK, Ports
  <2> QED BY <1>4, <2>1, <2>2, <2>3 DEF FlushOK
<1> QED BY <1>1, <1>2, <1>5, <1>6

(* A handler that leaves ACodec in its state and sends no command.         *)
LEMMA KeptPhase ==
    ASSUME CodecInv, CodecInv', PhaseInv, Handles, ~Asked',
           UNCHANGED <<acodec, mComponentNowIdle, mFlushComplete>>,
           \A c, a : Told(c, a)' = Told(c, a), CallsOK', BuffersOK'
    PROVE  PhaseInv'
<1> USE DEF PhaseInv
<1>1. KnownOK' /\ StopOK'
  BY HandlerKnown, HandlerStop
<1>2. /\ m_state' = m_state /\ m_flags' = m_flags /\ toFlush' = toFlush
      /\ m_port_enabled' = m_port_enabled /\ m_port_flushing' = m_port_flushing
      /\ ev' = ev /\ msgs' = msgs /\ flushReq' = flushReq /\ calls = <<>>
  BY DEF Handles, portVars, drvVars
<1>3. Asked' <=> Asked
  BY <1>2, HandlerFacts
<1>4. \A c, a : /\ Carried(c, a)' = Carried(c, a)
                /\ Carried(c, a)' <= Carried(c, a)
  <2>1. \A c, a : Carried(c, a) \in Nat
    BY UnderFacts
  <2> QED BY <1>2, <2>1 DEF Carried
<1>5. AnswerOK'
  <2>1. \A c, a, f, q : Under(c, a, f, q)' <= Under(c, a, f, q)
    BY <1>2, <1>4, UnderLess
  <2> QED BY <1>2, <1>3, <2>1, AnswerStep
<1>6. StateOK'
  BY <1>2, <1>4, StateSame
<1>7. FlushOK'
  <2>1. InputFlushes' = InputFlushes
    BY <1>2 DEF InputFlushes
  <2>2. InputFlushes' <= InputFlushes
    BY <2>1, InputFlushesNat
  <2> QED BY <1>2, <1>3, <2>2, FlushSame
<1> QED BY <1>1, <1>5, <1>6, <1>7

(* A state of ACodec that waits for nothing has nothing under way.         *)
LEMMA NotAwaited ==
    ASSUME CodecInv, AnswerOK, ~ToIdle, ~Reconfigures,
           acodec \notin {"IdleToExecuting", "IdleToLoaded"},
           \A p \in Ports : ~Flushes(p)
    PROVE  NoneUnder
<1>1. ASSUME NEW c, NEW a, NEW f, NEW q, NEW w, AnsweredOnce(c, a, f, q, w), ~w
      PROVE  Under(c, a, f, q) = 0
  <2>1. Carried(c, a) \in Nat /\ Told(c, a) \in Nat /\ Bit(f, q) \in {0, 1}
    BY UnderFacts
  <2>2. Carried(c, a) + Told(c, a) + Bit(f, q) <= 0
    BY <1>1 DEF AnsweredOnce, Under
  <2> HIDE DEF Carried, Told, Bit
  <2> QED BY <2>1, <2>2 DEF Under
<1>2. ~Disabling /\ ~Enabling
  BY DEF Disabling, Enabling
<1> USE <1>1, <1>2 DEF AnswerOK
<1>3. Under("StateSet", "Idle", "IDLE", "all") = 0
  OBVIOUS
<1>4. Under("StateSet", "Executing", "EXECUTE", "all") = 0
  <2>1. ~(acodec = "IdleToExecuting")
    OBVIOUS
  <2> QED BY <2>1
<1>5. Under("StateSet", "Loaded", "LOADING", "all") = 0
  <2>1. ~(acodec = "IdleToLoaded")
    OBVIOUS
  <2> QED BY <2>1
<1>6. Under("PortDisable", "out", "DISABLE", "out") = 0
  OBVIOUS
<1>7. Under("PortEnable", "out", "ENABLE", "out") = 0
  OBVIOUS
<1>8. \A p \in Ports : Under("Flush", p, "FLUSH", p) = 0
  OBVIOUS
<1> QED BY <1>3, <1>4, <1>5, <1>6, <1>7, <1>8 DEF NoneUnder

(* It stays so while the callbacks, the events and the bits do.            *)
LEMMA NoneStays ==
    ASSUME NoneUnder, UNCHANGED <<ev, m_flags>>,
           \A c, a : Told(c, a)' = Told(c, a)
    PROVE  NoneUnder'
<1>1. \A c, a, f, q : Under(c, a, f, q)' = Under(c, a, f, q)
  <2>1. \A c, a : Carried(c, a)' = Carried(c, a)
    BY DEF Carried
  <2>2. \A f, q : Bit(f, q)' = Bit(f, q)
    BY DEF Bit
  <2> QED BY <2>1, <2>2 DEF Under
<1> QED BY <1>1 DEF NoneUnder

(* A callback is taken.                                                    *)
LEMMA CallbackTaken ==
    ASSUME CodecInv, KnownOK, NEW what, OnCallback(what)
    PROVE  /\ Handles /\ Head(cb) \in KnownCallback /\ Head(cb).what = what
           /\ \A c, a : /\ Told(c, a)' \in Nat
                        /\ Told(c, a) = (IF Head(cb) = CmdComplete(c, a)
                                         THEN 1 ELSE 0) + Told(c, a)'
           /\ what # "CMD_COMPLETE" => \A c, a : Told(c, a)' = Told(c, a)
<1>1. /\ cb # <<>> /\ cb' = Tail(cb) /\ cb \in Seq(KnownCallback)
      /\ Head(cb).what = what
  BY DEF OnCallback, KnownOK
<1>2. Head(cb) \in KnownCallback /\ cb' \in Seq(KnownCallback)
  BY <1>1, HeadTailProperties
<1>3. Handles
  BY <1>2, CallbackFacts DEF Handles
<1>4. PICK x : x = Head(cb)
  OBVIOUS
<1>5. ASSUME NEW c, NEW a
      PROVE  /\ Told(c, a)' \in Nat
             /\ Told(c, a) = (IF x = CmdComplete(c, a) THEN 1 ELSE 0)
                                + Told(c, a)'
             /\ what # "CMD_COMPLETE" => Told(c, a)' = Told(c, a)
  <2>1. PICK T : T = {CmdComplete(c, a)}
    OBVIOUS
  <2>2. Hits(cb, T) = (IF x \in T THEN 1 ELSE 0) + Hits(cb', T)
    BY <1>1, <1>4, HitsTail
  <2>3. Hits(cb', T) \in Nat
    BY <1>2, HitsNat
  <2>4. x \in T <=> x = CmdComplete(c, a)
    BY <2>1
  <2>5. Told(c, a) = Hits(cb, T) /\ Told(c, a)' = Hits(cb', T)
    BY <2>1 DEF Told, Occurs
  <2>6. what # "CMD_COMPLETE" => x # CmdComplete(c, a)
    BY <1>1, <1>4 DEF CmdComplete
  <2> QED BY <2>2, <2>3, <2>4, <2>5, <2>6
<1> QED BY <1>1, <1>2, <1>3, <1>4, <1>5

(* Taking the answer leaves nothing under way for the command.             *)
LEMMA AnswerTaken ==
    ASSUME CodecInv, KnownOK, OnCallback("CMD_COMPLETE"),
           NEW c, NEW a, NEW f, NEW q, NEW w, AnsweredOnce(c, a, f, q, w)
    PROVE  /\ ~w => Under(c, a, f, q)' = 0
           /\ Head(cb) = CmdComplete(c, a) =>
                /\ w /\ ~Asked /\ Under(c, a, f, q)' = 0
                /\ Told(c, a) > 0 /\ <<f, q>> \notin m_flags
           /\ Under(c, a, f, q)' <= Under(c, a, f, q)
<1>1. /\ Carried(c, a) \in Nat /\ Told(c, a) \in Nat /\ Bit(f, q) \in {0, 1}
  BY UnderFacts
<1>2. /\ Told(c, a)' \in Nat
      /\ Told(c, a) = (IF Head(cb) = CmdComplete(c, a) THEN 1 ELSE 0)
                         + Told(c, a)'
      /\ Handles
  BY CallbackTaken
<1>3. Carried(c, a)' = Carried(c, a) /\ Bit(f, q)' = Bit(f, q)
  BY <1>2 DEF Carried, Bit, Handles
<1>4. /\ Under(c, a, f, q) = Carried(c, a) + Told(c, a) + Bit(f, q)
      /\ Under(c, a, f, q)' = Carried(c, a) + Told(c, a)' + Bit(f, q)
  BY <1>3 DEF Under
<1>5. Bit(f, q) = 0 => <<f, q>> \notin m_flags
  BY DEF Bit
<1>6. /\ ~w \/ Asked => Under(c, a, f, q) <= 0
      /\ Under(c, a, f, q) <= 1
  BY <1>1, <1>4 DEF AnsweredOnce
<1>7. CASE Head(cb) = CmdComplete(c, a)
  <2>1. Told(c, a) = 1 + Told(c, a)'
    BY <1>2, <1>7
  <2> HIDE DEF Carried, Told, Bit, Under, Asked
  <2> QED BY <1>1, <1>2, <1>4, <1>5, <1>6, <2>1
<1>8. CASE Head(cb) # CmdComplete(c, a)
  <2>1. Told(c, a) = Told(c, a)'
    BY <1>2, <1>8
  <2> HIDE DEF Carried, Told, Bit, Under, Asked
  <2> QED BY <1>1, <1>2, <1>4, <1>6, <1>8, <2>1
<1> QED BY <1>7, <1>8

(* The answer that is taken is the one awaited; it was the last.           *)
LEMMA DoneTaken ==
    ASSUME CodecInv, AnswerOK, KnownOK, OnCallback("CMD_COMPLETE"),
           NEW c, NEW a, Completed(c, a),
           <<c, a>> \in DoneAnswers \cup {<<"StateSet", "Executing">>}
    PROVE  /\ NoneUnder' /\ ~Asked /\ Told(c, a) > 0
           /\ <<c, a>> = <<"StateSet", "Idle">> =>
                ToIdle /\ <<"IDLE", "all">> \notin m_flags
           /\ <<c, a>> = <<"PortDisable", "out">> =>
                Disabling /\ <<"DISABLE", "out">> \notin m_flags
           /\ <<c, a>> = <<"PortEnable", "out">> => Enabling
           /\ <<c, a>> = <<"StateSet", "Loaded">> =>
                acodec = "IdleToLoaded" /\ <<"LOADING", "all">> \notin m_flags
           /\ <<c, a>> = <<"StateSet", "Executing">> =>
                acodec = "IdleToExecuting"
<1>1. Head(cb) = CmdComplete(c, a)
  <2>1. Head(cb) \in Callback /\ Head(cb).what = "CMD_COMPLETE"
    BY CallbackTaken DEF KnownCallback
  <2> QED BY <2>1 DEF Completed, CmdComplete, Callback
<1>2. \/ c = "StateSet" /\ a = "Idle"
      \/ c = "StateSet" /\ a = "Executing"
      \/ c = "StateSet" /\ a = "Loaded"
      \/ c = "PortDisable" /\ a = "out"
      \/ c = "PortEnable" /\ a = "out"
  BY DEF DoneAnswers, PortAnswers
<1>3. ASSUME NEW d, NEW b, NEW f, NEW q, NEW w, AnsweredOnce(d, b, f, q, w)
      PROVE  /\ ~w => Under(d, b, f, q)' = 0
             /\ c = d /\ a = b => /\ w /\ ~Asked /\ Under(d, b, f, q)' = 0
                                  /\ Told(c, a) > 0 /\ <<f, q>> \notin m_flags
  BY <1>1, <1>3, AnswerTaken
<1>4. PICK exe : exe = (acodec = "IdleToExecuting")
  OBVIOUS
<1>5. PICK ldd : ldd = (acodec = "IdleToLoaded")
  OBVIOUS
<1>a. AnsweredOnce("StateSet", "Idle", "IDLE", "all", ToIdle)
  BY DEF AnswerOK
<1>b. AnsweredOnce("StateSet", "Executing", "EXECUTE", "all", exe)
  BY <1>4 DEF AnswerOK
<1>c. AnsweredOnce("StateSet", "Loaded", "LOADING", "all", ldd)
  BY <1>5 DEF AnswerOK
<1>d. AnsweredOnce("PortDisable", "out", "DISABLE", "out", Disabling)
  BY DEF AnswerOK
<1>e. AnsweredOnce("PortEnable", "out", "ENABLE", "out", Enabling)
  BY DEF AnswerOK
<1>6. /\ ~ToIdle => Under("StateSet", "Idle", "IDLE", "all")' = 0
      /\ c = "StateSet" /\ a = "Idle" =>
           /\ ToIdle /\ ~Asked /\ Under("StateSet", "Idle", "IDLE", "all")' = 0
           /\ Told(c, a) > 0 /\ <<"IDLE", "all">> \notin m_flags
  BY <1>3, <1>a
<1>7. /\ ~exe => Under("StateSet", "Executing", "EXECUTE", "all")' = 0
      /\ c = "StateSet" /\ a = "Executing" =>
           /\ exe /\ ~Asked /\ Told(c, a) > 0
           /\ <<"EXECUTE", "all">> \notin m_flags
           /\ Under("StateSet", "Executing", "EXECUTE", "all")' = 0
  BY <1>3, <1>b
<1>8. /\ ~ldd => Under("StateSet", "Loaded", "LOADING", "all")' = 0
      /\ c = "StateSet" /\ a = "Loaded" =>
           /\ ldd /\ ~Asked /\ Told(c, a) > 0
           /\ <<"LOADING", "all">> \notin m_flags
           /\ Under("StateSet", "Loaded", "LOADING", "all")' = 0
  BY <1>3, <1>c
<1>9. /\ ~Disabling => Under("PortDisable", "out", "DISABLE", "out")' = 0
      /\ c = "PortDisable" /\ a = "out" =>
           /\ Disabling /\ ~Asked /\ <<"DISABLE", "out">> \notin m_flags
           /\ Under("PortDisable", "out", "DISABLE", "out")' = 0
           /\ Told(c, a) > 0
  BY <1>3, <1>d
<1>10. /\ ~Enabling => Under("PortEnable", "out", "ENABLE", "out")' = 0
       /\ c = "PortEnable" /\ a = "out" =>
            /\ Enabling /\ ~Asked /\ Told(c, a) > 0
            /\ <<"ENABLE", "out">> \notin m_flags
            /\ Under("PortEnable", "out", "ENABLE", "out")' = 0
  BY <1>3, <1>e
<1>11. ASSUME NEW p \in Ports, ~Flushes(p)
       PROVE  Under("Flush", p, "FLUSH", p)' = 0
  <2>1. AnsweredOnce("Flush", p, "FLUSH", p, Flushes(p))
    BY DEF AnswerOK
  <2>2. /\ ~Flushes(p) => Under("Flush", p, "FLUSH", p)' = 0
        /\ c = "Flush" /\ a = p => /\ Flushes(p) /\ ~Asked
                                   /\ Under("Flush", p, "FLUSH", p)' = 0
                                   /\ Told(c, a) > 0
                                   /\ <<"FLUSH", p>> \notin m_flags
    BY <1>3, <2>1
  <2> QED BY <1>11, <2>2
<1>12. /\ ToIdle => acodec \in {"LoadedToIdle", "ExecutingToIdle"}
       /\ Disabling => acodec = "OutputPortSettingsChanged" /\ ~Enabling
       /\ Enabling => acodec = "OutputPortSettingsChanged"
       /\ \A p \in Ports : Flushes(p) => acodec = "Flushing"
       /\ exe => acodec = "IdleToExecuting"
       /\ ldd => acodec = "IdleToLoaded"
  BY <1>4, <1>5
     DEF ToIdle, Stopping, Disabling, Enabling, Reconfigures, Flushes
<1>13. NoneUnder'
  BY <1>2, <1>6, <1>7, <1>8, <1>9, <1>10, <1>11, <1>12 DEF NoneUnder
<1> QED BY <1>2, <1>6, <1>7, <1>8, <1>9, <1>10, <1>12, <1>13

-------------------------------------------------------------------------------
(* The lists of calls: one call for each of some buffers.                  *)
Lists(q, op, B) ==
    /\ q \in Seq(CallType)
    /\ \A i \in 1..Len(q) : q[i].op = op /\ q[i].x \in B
    /\ \A i, j \in 1..Len(q) : q[i].x = q[j].x => i = j

LEMMA ListsForAll ==
    ASSUME NEW op \in BufOps, NEW B \in SUBSET Bufs, NEW bs \in Seq(B),
           LinkedOnce(bs),
           op = "fill" => B \subseteq OutBufs, op = "empty" => B \subseteq InBufs
    PROVE  Lists(ForAll(op, bs), op, B)
<1>1. PICK q : q = ForAll(op, bs)
  OBVIOUS
<1>2. /\ q \in Seq(CallType) /\ Len(q) = Len(bs)
      /\ \A i \in 1..Len(bs) : q[i].op = op /\ q[i].x = bs[i]
  BY <1>1, ForAllFacts
<1>3. \A i \in 1..Len(bs) : bs[i] \in B
  OBVIOUS
<1> QED BY <1>1, <1>2, <1>3 DEF Lists, LinkedOnce

LEMMA ReverseOnce ==
    ASSUME NEW B, NEW bs \in Seq(B), LinkedOnce(bs)
    PROVE  LinkedOnce(Reverse(bs))
<1> DEFINE r == [i \in 1..Len(bs) |-> bs[(Len(bs) - i) + 1]]
<1>1. Len(bs) \in Nat
  OBVIOUS
<1>2. Reverse(bs) = r /\ Len(Reverse(bs)) = Len(bs)
  BY ReverseFacts DEF Reverse
<1>3. ASSUME NEW i \in 1..Len(bs), NEW j \in 1..Len(bs), r[i] = r[j]
      PROVE  i = j
  <2>1. /\ (Len(bs) - i) + 1 \in 1..Len(bs) /\ (Len(bs) - j) + 1 \in 1..Len(bs)
        /\ bs[(Len(bs) - i) + 1] = bs[(Len(bs) - j) + 1]
    BY <1>1, <1>3
  <2>2. (Len(bs) - i) + 1 = (Len(bs) - j) + 1
    BY <2>1 DEF LinkedOnce
  <2> QED BY <1>1, <2>2
<1> HIDE DEF r
<1> QED BY <1>2, <1>3 DEF LinkedOnce

LEMMA ListsConcat ==
    ASSUME NEW op, NEW A, NEW B, NEW q, NEW r, Lists(q, op, A), Lists(r, op, B),
           A \cap B = {}
    PROVE  Lists(q \o r, op, A \cup B)
<1>1. /\ q \in Seq(CallType) /\ r \in Seq(CallType)
      /\ Len(q) \in Nat /\ Len(r) \in Nat
  BY DEF Lists
<1>2. /\ q \o r \in Seq(CallType) /\ Len(q \o r) = Len(q) + Len(r)
      /\ \A i \in 1..(Len(q) + Len(r)) :
           (q \o r)[i] = IF i <= Len(q) THEN q[i] ELSE r[i - Len(q)]
  BY <1>1, ConcatProperties
<1>3. \A i \in 1..(Len(q) + Len(r)) :
         i \in 1..Len(q) \/ (~(i <= Len(q)) /\ i - Len(q) \in 1..Len(r))
  BY <1>1
<1>4. PICK s : s = q \o r
  OBVIOUS
<1>5. ASSUME NEW i \in 1..(Len(q) + Len(r))
      PROVE  /\ s[i].op = op /\ s[i].x \in A \cup B
             /\ i <= Len(q) <=> s[i].x \in A
  BY <1>2, <1>3, <1>4 DEF Lists
<1>6. ASSUME NEW i \in 1..(Len(q) + Len(r)), NEW j \in 1..(Len(q) + Len(r)),
             s[i].x = s[j].x
      PROVE  i = j
  <2>1. i <= Len(q) <=> j <= Len(q)
    BY <1>5, <1>6
  <2>2. CASE i <= Len(q)
    <3>1. i \in 1..Len(q) /\ j \in 1..Len(q) /\ s[i] = q[i] /\ s[j] = q[j]
      BY <1>1, <1>2, <1>4, <2>1, <2>2
    <3> QED BY <1>6, <3>1 DEF Lists
  <2>3. CASE ~(i <= Len(q))
    <3>1. /\ i - Len(q) \in 1..Len(r) /\ j - Len(q) \in 1..Len(r)
          /\ s[i] = r[i - Len(q)] /\ s[j] = r[j - Len(q)]
      BY <1>1, <1>2, <1>3, <1>4, <2>1, <2>3
    <3>2. i - Len(q) = j - Len(q)
      BY <1>6, <3>1 DEF Lists
    <3> QED BY <1>1, <3>2
  <2> QED BY <2>2, <2>3
<1> QED BY <1>2, <1>4, <1>5, <1>6 DEF Lists

LEMMA ListsNone ==
    ASSUME NEW op
    PROVE  Lists(<<>>, op, {})
BY EmptySeq DEF Lists

LEMMA ListsOne ==
    ASSUME NEW op \in BufOps, NEW b \in Bufs,
           op = "fill" => b \in OutBufs, op = "empty" => b \in InBufs
    PROVE  Lists(<<Call(op, b, NULL)>>, op, {b})
<1>1. PICK x : x = Call(op, b, NULL)
  OBVIOUS
<1>2. x \in CallType /\ x.op = op /\ x.x = b
  BY <1>1 DEF Call, CallType, BufOps
<1>3. <<x>> \in Seq(CallType) /\ Len(<<x>>) = 1 /\ <<x>>[1] = x
  BY <1>2
<1>4. \A i \in 1..1 : i = 1
  OBVIOUS
<1> QED BY <1>1, <1>2, <1>3, <1>4 DEF Lists

(* The lists of the handlers.                                              *)
LEMMA PortLists ==
    ASSUME CodecInv, NEW p \in Ports
    PROVE  /\ Lists(freeBuffersOnPort(p), "free", Owned(p))
           /\ Lists(allocateBuffersOnPort(p), "use", BufsOf(p))
<1>1. PICK bs, B : bs = mBuffers[p] /\ B = Owned(p)
  OBVIOUS
<1>2. /\ bs \in Seq(B) /\ LinkedOnce(bs) /\ B \in SUBSET Bufs
  <2>1. /\ bs \in Seq(BufsOf(p)) /\ LinkedOnce(bs) /\ B \subseteq BufsOf(p)
        /\ BufsOf(p) \subseteq Bufs
    BY <1>1, BuffersFacts, BufsFacts
  <2>2. \A i \in 1..Len(bs) : bs[i] \in B
    BY <1>1 DEF Owned, Entries
  <2>3. bs \in Seq(B)
    BY <2>1, <2>2, LenProperties, SeqDef
  <2> QED BY <2>1, <2>3
<1>3. PICK r : r = Reverse(bs)
  OBVIOUS
<1>4. r \in Seq(B) /\ LinkedOnce(r)
  BY <1>2, <1>3, ReverseFacts, ReverseOnce
<1>5. Lists(ForAll("free", r), "free", B)
  BY <1>2, <1>4, ListsForAll DEF BufOps
<1>6. PICK C : C = BufsOf(p)
  OBVIOUS
<1>7. PICK us : us = SetToSeq(C)
  OBVIOUS
<1>8. us \in Seq(C) /\ LinkedOnce(us) /\ C \in SUBSET Bufs
  <2>1. IsFiniteSet(C) /\ C \in SUBSET Bufs
    BY <1>6, ComponentAssumption, BufsFacts DEF BufsOf
  <2> QED BY <1>7, <2>1, SetToSeqFacts DEF LinkedOnce
<1>9. Lists(ForAll("use", us), "use", C)
  BY <1>8, ListsForAll DEF BufOps
<1> QED BY <1>1, <1>3, <1>5, <1>6, <1>7, <1>9
       DEF freeBuffersOnPort, allocateBuffersOnPort

LEMMA OutLists ==
    ASSUME CodecInv
    PROVE  /\ Lists(submitOutputBuffers, "fill", Owned("out"))
           /\ Lists(freeOutputBuffersNotOwnedByComponent, "free_not_owned",
                    Owned("out"))
<1>1. PICK bs, B : bs = mBuffers["out"] /\ B = Owned("out")
  OBVIOUS
<1>2. bs \in Seq(B) /\ LinkedOnce(bs) /\ B \subseteq OutBufs /\ B \in SUBSET Bufs
  <2>1. /\ bs \in Seq(OutBufs) /\ LinkedOnce(bs) /\ B \subseteq OutBufs
    BY <1>1, BuffersFacts DEF Ports, BufsOf
  <2>2. \A i \in 1..Len(bs) : bs[i] \in B
    BY <1>1 DEF Owned, Entries
  <2>3. bs \in Seq(B)
    BY <2>1, <2>2, LenProperties, SeqDef
  <2> QED BY <2>1, <2>3 DEF Bufs
<1>3. PICK r : r = Reverse(bs)
  OBVIOUS
<1>4. r \in Seq(B) /\ LinkedOnce(r)
  BY <1>2, <1>3, ReverseFacts, ReverseOnce
<1>5. Lists(ForAll("free_not_owned", r), "free_not_owned", B)
  BY <1>2, <1>4, ListsForAll DEF BufOps
<1>6. Lists(ForAll("fill", bs), "fill", B)
  BY <1>2, ListsForAll DEF BufOps
<1> QED BY <1>1, <1>3, <1>5, <1>6
       DEF submitOutputBuffers, freeOutputBuffersNotOwnedByComponent

-------------------------------------------------------------------------------
(* What a handler's list of calls means for the invariant.                 *)
LEMMA NoCalls ==
    ASSUME calls' = <<>>
    PROVE  CallsOK' /\ ~Asked'
<1>1. Len(calls') = 0
  OBVIOUS
<1> QED BY <1>1 DEF CallsOK, Asked

LEMMA ListCalls ==
    ASSUME NEW op \in BufOps \ {"empty"}, NEW B, Lists(calls', op, B),
           \A b \in B : Fits(op, b)'
    PROVE  CallsOK' /\ ~Asked'
<1>1. PICK q : q = calls'
  OBVIOUS
<1>2. /\ q \in Seq(CallType)
      /\ \A i \in 1..Len(q) : q[i].op = op /\ q[i].x \in B
      /\ \A i, j \in 1..Len(q) : q[i].x = q[j].x => i = j
  BY <1>1 DEF Lists
<1>3. op \notin {"send", "sem_wait", "empty"}
  BY DEF BufOps
<1>4. ~Asked'
  <2>1. q # <<>> => Head(q) = q[1] /\ 1 \in 1..Len(q)
    BY <1>2, EmptySeq
  <2> QED BY <1>1, <1>2, <1>3, <2>1 DEF Asked
<1>5. ASSUME NEW i \in 1..Len(q) PROVE CallsOf(i)'
  <2>1. q[i].op = op /\ q[i].x \in B
    BY <1>2
  <2>2. Fits(op, q[i].x)'
    BY <2>1
  <2>3. PICK b : b = q[i].x
    OBVIOUS
  <2>4. Fits(op, b)' /\ calls'[i].x = b /\ calls'[i].op = op
    BY <1>1, <2>1, <2>3
  <2>5. \A j \in 1..Len(q) : q[j].x = b => j = i
    BY <1>2, <2>3
  <2> HIDE DEF Fits
  <2> QED BY <1>1, <1>3, <2>4, <2>5 DEF CallsOf
<1> QED BY <1>1, <1>4, <1>5 DEF CallsOK

LEMMA SendFacts ==
    ASSUME NEW c \in Names, NEW a \in Args, NEW q \in Seq(CallType)
    PROVE  /\ sendCommand(c, a) \o q \in Seq(CallType)
           /\ Len(sendCommand(c, a) \o q) = 1 + Len(q)
           /\ (sendCommand(c, a) \o q)[1] = Call("send", c, a)
           /\ \A i \in 1..Len(q) : (sendCommand(c, a) \o q)[1 + i] = q[i]
           /\ \A i \in 1..(1 + Len(q)) : i = 1 \/ i - 1 \in 1..Len(q)
<1>1. PICK x : x = Call("send", c, a)
  OBVIOUS
<1>2. x \in CallType
  BY <1>1 DEF Call, CallType, BufOps
<1>3. Len(q) \in Nat /\ <<x>> \in Seq(CallType) /\ Len(<<x>>) = 1 /\ <<x>>[1] = x
  BY <1>2
<1>4. /\ <<x>> \o q \in Seq(CallType) /\ Len(<<x>> \o q) = 1 + Len(q)
      /\ \A i \in 1..(1 + Len(q)) :
           (<<x>> \o q)[i] = IF i <= 1 THEN <<x>>[i] ELSE q[i - 1]
  BY <1>3, ConcatProperties
<1>5. ASSUME NEW i \in 1..Len(q) PROVE (<<x>> \o q)[1 + i] = q[i]
  <2>1. 1 + i \in 1..(1 + Len(q)) /\ ~(1 + i <= 1) /\ (1 + i) - 1 = i
    BY <1>3
  <2> QED BY <1>4, <2>1
<1>6. 1 \in 1..(1 + Len(q))
  BY <1>3
<1>7. (<<x>> \o q)[1] = x
  BY <1>3, <1>4, <1>6
<1>8. \A i \in 1..(1 + Len(q)) : i = 1 \/ i - 1 \in 1..Len(q)
  BY <1>3
<1> QED BY <1>1, <1>4, <1>5, <1>7, <1>8 DEF sendCommand

LEMMA SendAsked ==
    ASSUME NEW c \in Names, NEW a \in Args, NEW q \in Seq(CallType),
           calls' = sendCommand(c, a) \o q
    PROVE  Asked'
<1>1. PICK r : r = sendCommand(c, a) \o q
  OBVIOUS
<1>2. r \in Seq(CallType) /\ Len(r) = 1 + Len(q) /\ r[1].op = "send"
  <2>1. r \in Seq(CallType) /\ Len(r) = 1 + Len(q) /\ r[1] = Call("send", c, a)
    BY <1>1, SendFacts
  <2> QED BY <2>1 DEF Call
<1>3. Len(q) \in Nat
  OBVIOUS
<1>4. r # <<>> /\ Head(r) = r[1]
  BY <1>2, <1>3
<1> QED BY <1>1, <1>2, <1>4 DEF Asked

LEMMA SendList ==
    ASSUME NEW c \in Names, NEW a \in Args, NEW op \in BufOps \ {"empty"},
           NEW B, NEW q, Lists(q, op, B), calls' = sendCommand(c, a) \o q,
           <<c, a>> \in Sought', \A b \in B : Fits(op, b)'
    PROVE  CallsOK'
<1>1. /\ q \in Seq(CallType) /\ Len(q) \in Nat
      /\ \A i \in 1..Len(q) : q[i].op = op /\ q[i].x \in B
      /\ \A i, j \in 1..Len(q) : q[i].x = q[j].x => i = j
  BY DEF Lists
<1>2. PICK r : r = sendCommand(c, a) \o q
  OBVIOUS
<1>3. /\ Len(r) = 1 + Len(q)
      /\ r[1].op = "send" /\ r[1].x = c /\ r[1].y = a
      /\ \A i \in 1..Len(q) : r[1 + i] = q[i]
      /\ \A i \in 1..Len(r) : i = 1 \/ i - 1 \in 1..Len(q)
  <2>1. /\ Len(r) = 1 + Len(q) /\ r[1] = Call("send", c, a)
        /\ \A i \in 1..Len(q) : r[1 + i] = q[i]
        /\ \A i \in 1..(1 + Len(q)) : i = 1 \/ i - 1 \in 1..Len(q)
    BY <1>1, <1>2, SendFacts
  <2> QED BY <2>1 DEF Call
<1>4. op \notin {"send", "sem_wait", "empty"} /\ "send" \notin BufOps
  BY DEF BufOps
<1>5. CallsOf(1)'
  BY <1>2, <1>3, <1>4 DEF CallsOf
<1>6. ASSUME NEW i \in 1..Len(q) PROVE CallsOf(1 + i)'
  <2>1. PICK b : b = q[i].x
    OBVIOUS
  <2>2. Fits(op, b)' /\ r[1 + i].op = op /\ r[1 + i].x = b
    BY <1>1, <1>3, <2>1
  <2>3. ASSUME NEW j \in 1..Len(r), r[j].op \in BufOps, r[j].x = b
        PROVE  j = 1 + i
    <3>1. j - 1 \in 1..Len(q) /\ 1 + (j - 1) = j
      BY <1>3, <1>4, <2>3
    <3>2. q[j - 1].x = q[i].x
      BY <1>3, <2>1, <2>3, <3>1
    <3>3. j - 1 = i
      BY <1>1, <3>1, <3>2
    <3> QED BY <3>1, <3>3
  <2> HIDE DEF Fits
  <2> QED BY <1>2, <1>4, <2>2, <2>3 DEF CallsOf
<1>7. ASSUME NEW i \in 1..Len(r) PROVE CallsOf(i)'
  <2>1. CASE i = 1
    BY <1>5, <2>1
  <2>2. CASE i - 1 \in 1..Len(q)
    <3>1. PICK k \in 1..Len(q) : 1 + k = i
      BY <2>2
    <3> QED BY <1>6, <3>1
  <2> QED BY <1>3, <2>1, <2>2
<1> QED BY <1>2, <1>7 DEF CallsOK

(* A command and nothing else.                                             *)
LEMMA SendOnly ==
    ASSUME NEW c \in Names, NEW a \in Args, calls' = sendCommand(c, a)
    PROVE  Asked' /\ (<<c, a>> \in Sought' => CallsOK')
<1>1. sendCommand(c, a) \in Seq(CallType)
  <2>1. sendCommand(c, a) \in Seq(Plain)
    BY SendPlain
  <2> QED BY <2>1 DEF Plain
<1>2. calls' = sendCommand(c, a) \o <<>>
  BY <1>1, ConcatEmptySeq
<1>3. Lists(<<>>, "use", {}) /\ "use" \in BufOps \ {"empty"}
  BY ListsNone DEF BufOps
<1>4. Asked'
  BY <1>2, EmptySeq, SendAsked
<1>5. ASSUME <<c, a>> \in Sought' PROVE CallsOK'
  <2>1. PICK q, op, B : q = <<>> /\ op = "use" /\ B = {}
    OBVIOUS
  <2>2. /\ Lists(q, op, B) /\ op \in BufOps \ {"empty"}
        /\ calls' = sendCommand(c, a) \o q
    BY <1>2, <1>3, <2>1
  <2>3. \A b \in B : Fits(op, b)'
    BY <2>1
  <2> QED BY <1>5, <2>2, <2>3, SendList
<1> QED BY <1>4, <1>5

LEMMA EmptyCall ==
    ASSUME NEW b \in Bufs, calls' = <<Call("empty", b, NULL)>>, Fits("empty", b)'
    PROVE  CallsOK' /\ ~Asked'
<1>1. PICK x : x = Call("empty", b, NULL)
  OBVIOUS
<1>2. calls' = <<x>> /\ x.op = "empty" /\ x.x = b
  BY <1>1 DEF Call
<1>3. Len(calls') = 1 /\ calls'[1] = x /\ Head(calls') = x /\ calls' # <<>>
  BY <1>2
<1>4. \A i \in 1..1 : i = 1
  OBVIOUS
<1>5. CallsOf(1)'
  <2> HIDE DEF Fits
  <2> QED BY <1>2, <1>3, <1>4 DEF CallsOf
<1> QED BY <1>2, <1>3, <1>4, <1>5 DEF CallsOK, Asked

-------------------------------------------------------------------------------
(* The buffers after a handler.                                            *)
LEMMA HandlerKeeps ==
    ASSUME Handles
    PROVE  /\ \A p : Owned(p)' = Owned(p)
           /\ m_cur_buf_num' = m_cur_buf_num /\ m_flags' = m_flags
           /\ m_port_enabled' = m_port_enabled /\ m_state' = m_state
           /\ toFlush' = toFlush /\ mBuffers' = mBuffers /\ ev' = ev
           /\ calls = <<>>
BY DEF Handles, portVars, headVars, Owned

LEMMA HandlerBuffers ==
    ASSUME CodecInv, BuffersOK, Handles,
           mActive' => acodec' = "Executing" \/ Reconfigures',
           Inactive' => allYourBuffersAreBelongToUs',
           Enabling' => \A b \in Owned("out") : mStatus'[b] = "US",
           \A b \in Bufs : mStatus'[b] # "US" => b \in Owned(PortOf(b)),
           \A b \in OutBufs : mStatus'[b] # "UPSTREAM",
           acodec' \notin {"Loaded", "LoadedToIdle", "IdleToLoaded"} =>
             m_cur_buf_num["in"] = max_count("in"),
           acodec' \in {"LoadedToIdle", "IdleToLoaded"} =>
             Asked' \/ acodec' = acodec,
           Disabling' => Asked' \/ Disabling
    PROVE  BuffersOK'
<1>1. /\ \A p : Owned(p)' = Owned(p)
      /\ m_cur_buf_num' = m_cur_buf_num /\ m_flags' = m_flags
      /\ ~Asked
  BY HandlerKeeps, HandlerFacts
<1>2. \A p \in Ports : max_count(p)' = max_count(p)
  BY DEF max_count
<1>3. /\ acodec' = "LoadedToIdle" /\ ~Asked' /\ <<"IDLE", "all">> \notin m_flags' =>
           \A p \in Ports : m_cur_buf_num'[p] = max_count(p)
      /\ acodec' = "IdleToLoaded" /\ ~Asked'
           /\ <<"LOADING", "all">> \notin m_flags' =>
           \A p \in Ports : m_cur_buf_num'[p] = 0
      /\ Disabling' /\ ~Asked' /\ <<"DISABLE", "out">> \notin m_flags' =>
           m_cur_buf_num'["out"] = 0
  BY <1>1 DEF BuffersOK
<1> QED BY <1>1, <1>3 DEF BuffersOK, max_count, BufsOf

(* What Executing means.                                                   *)
LEMMA ExecutingNone ==
    ASSUME CodecInv, PhaseInv, acodec \in {"Loaded", "Executing"}
    PROVE  /\ NoneUnder /\ toFlush # {"out"} /\ m_port_enabled["out"]
           /\ acodec = "Executing" =>
                m_state = "Executing" /\ m_cur_buf_num["in"] = max_count("in")
           /\ acodec = "Loaded" => m_state = "Loaded"
<1> USE DEF PhaseInv
<1>1. ~ToIdle /\ ~Reconfigures /\ \A p \in Ports : ~Flushes(p)
  BY DEF ToIdle, Stopping, Reconfigures, Flushes
<1>2. NoneUnder
  BY <1>1, NotAwaited
<1>3. toFlush # {"out"}
  BY <1>1 DEF FlushOK, Disabling
<1>4. m_port_enabled["out"]
  BY <1>1 DEF StateOK
<1> QED BY <1>2, <1>3, <1>4 DEF StateOK, BuffersOK

(* ExecutingState::resume submits the output buffers and asks for input.   *)
LEMMA ResumePhase ==
    ASSUME CodecInv, CodecInv', PhaseInv, Handles, NoneUnder', toFlush # {"out"},
           m_port_enabled["out"], m_state = "Executing", ~mActive, Resume,
           acodec \in {"Executing", "IdleToExecuting"}, acodec' = "Executing"
    PROVE  PhaseInv'
<1> USE DEF PhaseInv
<1>1. /\ calls' = submitOutputBuffers /\ mActive' = TRUE /\ ResumeOk
      /\ mStatus' = [mStatus EXCEPT ![mBuffers["in"][1]] = "UPSTREAM"]
  BY DEF Resume
<1>2. PICK a : a = mBuffers["in"][1]
  OBVIOUS
<1>3. a \in InBufs /\ a \in Owned("in") /\ PortOf(a) = "in"
  <2>1. mBuffers["in"] \in Seq(InBufs) /\ mBuffers["in"] # <<>>
    BY <1>1, BuffersFacts DEF ResumeOk, Ports, BufsOf
  <2>2. 1 \in 1..Len(mBuffers["in"])
    BY <2>1, EmptySeq
  <2>3. a \in Owned("in")
    BY <1>2, <2>2 DEF Owned, Entries
  <2> QED BY <1>2, <2>1, <2>2, <2>3 DEF PortOf
<1>4. \A b \in Bufs : mStatus'[b] = IF b = a THEN "UPSTREAM" ELSE mStatus[b]
  BY <1>1, <1>2, CodecTyping
<1>5. \A p \in Ports : \A b \in Owned(p) : mStatus[b] = "US"
  BY DEF BuffersOK, Inactive, allYourBuffersAreBelongToUs
<1>6. \A b \in OutBufs : b # a /\ b \in Bufs /\ PortOf(b) = "out"
  BY <1>3, ComponentAssumption DEF Bufs, PortOf
<1>7. CallsOK' /\ ~Asked'
  <2>1. Lists(calls', "fill", Owned("out")) /\ Owned("out") \subseteq OutBufs
    BY <1>1, OutLists, BuffersFacts DEF Ports, BufsOf
  <2>2. ASSUME NEW b \in Owned("out") PROVE Fits("fill", b)'
    <3>1. mStatus'[b] = "US" /\ b \in Owned(PortOf(b))'
      BY <1>4, <1>5, <1>6, <2>1, HandlerKeeps DEF Ports
    <3> QED BY <1>1, <3>1 DEF Fits
  <2> QED BY <2>1, <2>2, ListCalls DEF BufOps
<1>8. BuffersOK'
  <2>1. ~Inactive' /\ ~Enabling' /\ ~Disabling'
    BY <1>1 DEF Inactive, Enabling, Disabling, Reconfigures
  <2>2. \A b \in Bufs : mStatus'[b] # "US" => b \in Owned(PortOf(b))
    BY <1>3, <1>4 DEF BuffersOK
  <2>3. \A b \in OutBufs : mStatus'[b] # "UPSTREAM"
    BY <1>4, <1>6 DEF BuffersOK
  <2>4. m_cur_buf_num["in"] = max_count("in")
    BY DEF BuffersOK
  <2> QED BY <2>1, <2>2, <2>3, <2>4, HandlerBuffers
<1>9. m_state = StateFor(acodec', mComponentNowIdle')
  BY DEF StateFor
<1> QED BY <1>7, <1>8, <1>9, NonePhase

(* A handler that leaves the buffers and ACodec's state alone.             *)
LEMMA SameBuffers ==
    ASSUME CodecInv, BuffersOK, Handles, ~Asked',
           UNCHANGED <<acodec, mStatus, mActive>>
    PROVE  BuffersOK'
<1>1. /\ \A p : Owned(p)' = Owned(p)
      /\ m_port_enabled' = m_port_enabled /\ ~Asked
  BY HandlerKeeps, HandlerFacts
<1>2. /\ Reconfigures' <=> Reconfigures
      /\ Enabling' <=> Enabling
      /\ Disabling' <=> Disabling
  BY <1>1 DEF Reconfigures, Enabling, Disabling
<1>3. /\ Inactive' <=> Inactive
      /\ allYourBuffersAreBelongToUs' <=> allYourBuffersAreBelongToUs
  BY <1>1, <1>2 DEF Inactive, allYourBuffersAreBelongToUs
<1>4. /\ \A b \in Bufs : mStatus'[b] # "US" => b \in Owned(PortOf(b))
      /\ \A b \in OutBufs : mStatus'[b] # "UPSTREAM"
      /\ acodec' \notin {"Loaded", "LoadedToIdle", "IdleToLoaded"} =>
           m_cur_buf_num["in"] = max_count("in")
      /\ mActive' => acodec' = "Executing" \/ Reconfigures'
      /\ Inactive' => allYourBuffersAreBelongToUs'
      /\ Enabling' => \A b \in Owned("out") : mStatus'[b] = "US"
  BY <1>2, <1>3 DEF BuffersOK
<1> QED BY <1>2, <1>4, HandlerBuffers

(* A message that ACodec puts aside or has no use for.                     *)
LEMMA AsidePhase ==
    ASSUME CodecInv, CodecInv', PhaseInv, Handles,
           \A c, a : Told(c, a)' = Told(c, a),
           UNCHANGED <<acodec, calls, mStatus, modeVars>>
    PROVE  PhaseInv'
<1>1. calls' = <<>>
  BY HandlerKeeps
<1>2. CallsOK' /\ ~Asked'
  BY <1>1, NoCalls
<1>3. UNCHANGED <<mActive, mComponentNowIdle, mFlushComplete>>
  BY DEF modeVars
<1>4. BuffersOK'
  BY <1>2, <1>3, SameBuffers DEF PhaseInv
<1> QED BY <1>2, <1>3, <1>4, KeptPhase

(* ExecutingState::onMessageReceived.                                      *)
LEMMA ExecutingPhase ==
    ASSUME CodecInv, CodecInv', PhaseInv, Handles,
           \A c, a : Told(c, a)' = Told(c, a), acodec = "Executing",
           NEW msg, ExecutingHandles(msg)
    PROVE  PhaseInv'
<1>1. /\ NoneUnder /\ toFlush # {"out"} /\ m_port_enabled["out"]
      /\ m_state = "Executing" /\ m_cur_buf_num["in"] = max_count("in")
  BY ExecutingNone
<1>2. NoneUnder'
  BY <1>1, NoneStays, HandlerKeeps
<1>3. /\ "StateSet" \in Names /\ "Flush" \in Names /\ "PortDisable" \in Names
      /\ "Idle" \in Args /\ "all" \in Args /\ "out" \in Args
  BY DEF Names, Args, States, Ports
<1>4. /\ \A b \in Bufs : mStatus[b] # "US" => b \in Owned(PortOf(b))
      /\ \A b \in OutBufs : mStatus[b] # "UPSTREAM"
  BY DEF PhaseInv, BuffersOK
<1>5. \A c, a : <<c, a>> \in Names \X Args <=> c \in Names /\ a \in Args
  OBVIOUS
<1>6. ASSUME calls' = sendCommand("StateSet", "Idle"),
             acodec' = "ExecutingToIdle", mActive' = FALSE,
             mComponentNowIdle' = FALSE, mStatus' = mStatus
      PROVE  PhaseInv'
  <2>1. <<"StateSet", "Idle">> \in Sought'
    BY <1>3, <1>6 DEF Sought, ToIdle, Stopping
  <2>2. CallsOK' /\ Asked'
    BY <1>3, <1>6, <2>1, SendOnly
  <2>3. ~Inactive' /\ ~Enabling' /\ ~Disabling'
    BY <1>6 DEF Inactive, Enabling, Disabling, Reconfigures
  <2>4. BuffersOK'
    BY <1>1, <1>4, <1>6, <2>3, HandlerBuffers DEF PhaseInv
  <2>5. m_state = StateFor(acodec', mComponentNowIdle')
    BY <1>1, <1>6 DEF StateFor
  <2> QED BY <1>1, <1>2, <2>2, <2>4, <2>5, NonePhase
<1>7. ASSUME calls' = sendCommand("Flush", "all"), acodec' = "Flushing",
             mActive' = FALSE, mFlushComplete' = {}, mStatus' = mStatus
      PROVE  PhaseInv'
  <2>1. <<"Flush", "all">> \in Sought'
    BY <1>3, <1>7 DEF Sought, Flushes
  <2>2. CallsOK' /\ Asked'
    BY <1>3, <1>7, <2>1, SendOnly
  <2>3. ~Inactive' /\ ~Enabling' /\ ~Disabling'
    BY <1>7 DEF Inactive, Enabling, Disabling, Reconfigures
  <2>4. BuffersOK'
    BY <1>1, <1>4, <1>7, <2>3, HandlerBuffers DEF PhaseInv
  <2>5. m_state = StateFor(acodec', mComponentNowIdle')
    BY <1>1, <1>7 DEF StateFor
  <2> QED BY <1>1, <1>2, <2>2, <2>4, <2>5, NonePhase
<1>8. ASSUME Resume, UNCHANGED <<acodec, mFlushComplete, mComponentNowIdle>>
      PROVE  PhaseInv'
  <2>1. CASE mActive
    <3>1. UNCHANGED <<acodec, calls, mStatus, modeVars>>
      BY <1>8, <2>1 DEF Resume, modeVars
    <3> QED BY <3>1, AsidePhase
  <2>2. CASE ~mActive
    BY <1>1, <1>2, <1>8, <2>2, ResumePhase
  <2> QED BY <2>1, <2>2
<1>9. ASSUME calls' = sendCommand("PortDisable", "out")
                         \o freeOutputBuffersNotOwnedByComponent,
             acodec' = "OutputPortSettingsChanged", UNCHANGED modeVars,
             mStatus' = mStatus
      PROVE  PhaseInv'
  <2>1. PICK q : q = freeOutputBuffersNotOwnedByComponent
    OBVIOUS
  <2>2. /\ Lists(q, "free_not_owned", Owned("out")) /\ q \in Seq(CallType)
        /\ \A b \in Owned("out") : b \in OutBufs /\ PortOf(b) = "out"
    <3>1. Lists(q, "free_not_owned", Owned("out"))
      BY <2>1, OutLists
    <3>2. \A b \in Owned("out") : b \in OutBufs
      BY BuffersFacts DEF Ports, BufsOf
    <3> QED BY <3>1, <3>2, ComponentAssumption DEF Lists, PortOf
  <2>3. Asked'
    BY <1>3, <1>9, <2>1, <2>2, SendAsked
  <2>4. Disabling' /\ ~Enabling'
    BY <1>1, <1>9, <2>3, HandlerKeeps DEF Disabling, Enabling, Reconfigures
  <2>5. <<"PortDisable", "out">> \in Sought'
    BY <1>3, <2>4 DEF Sought
  <2>6. ASSUME NEW b \in Owned("out") PROVE Fits("free_not_owned", b)'
    <3>1. b \in OutBufs /\ b \in Owned(PortOf(b))'
      BY <2>2, HandlerKeeps
    <3> QED BY <2>4, <3>1 DEF Fits
  <2>7. CallsOK'
    BY <1>3, <1>9, <2>1, <2>2, <2>5, <2>6, SendList DEF BufOps
  <2>8. Inactive' => allYourBuffersAreBelongToUs'
    <3>1. Inactive' => Inactive
      BY <1>9 DEF Inactive, modeVars
    <3>2. allYourBuffersAreBelongToUs' <=> allYourBuffersAreBelongToUs
      BY <1>9, HandlerKeeps DEF allYourBuffersAreBelongToUs
    <3> QED BY <3>1, <3>2 DEF PhaseInv, BuffersOK
  <2>9. BuffersOK'
    BY <1>1, <1>4, <1>9, <2>3, <2>4, <2>8, HandlerBuffers DEF PhaseInv, Reconfigures
  <2>10. m_state = StateFor(acodec', mComponentNowIdle')
    BY <1>1, <1>9 DEF StateFor
  <2> QED BY <1>1, <1>2, <2>7, <2>9, <2>10, NonePhase
<1> QED BY <1>6, <1>7, <1>8, <1>9 DEF ExecutingHandles, Enter

(* A handler of a message of MediaCodec.                                   *)
LEMMA MessageHandles ==
    ASSUME KnownOK, calls = <<>>, UNCHANGED <<compVars, mBuffers>>
    PROVE  Handles /\ \A c, a : Told(c, a)' = Told(c, a)
BY DEF Handles, compVars, KnownOK, Told, Occurs

LEMMA DeferredPhase ==
    ASSUME CodecInv, PhaseInv, processDeferredMessages
    PROVE  PhaseInv'
<1>1. CodecInv'
  BY DeferredStep
<1>2. Handles /\ \A c, a : Told(c, a)' = Told(c, a)
  BY MessageHandles DEF processDeferredMessages, PhaseInv
<1> QED BY <1>1, <1>2, ExecutingPhase DEF processDeferredMessages

(* LoadedState::onStart: all buffers are allocated while the component     *)
(* takes the command.                                                      *)
LEMMA StartPhase ==
    ASSUME CodecInv, CodecInv', PhaseInv, Handles,
           \A c, a : Told(c, a)' = Told(c, a), acodec = "Loaded",
           calls' = sendCommand("StateSet", "Idle")
                       \o allocateBuffersOnPort("in")
                       \o allocateBuffersOnPort("out"),
           acodec' = "LoadedToIdle", UNCHANGED modeVars, mStatus' = mStatus
    PROVE  PhaseInv'
<1>1. /\ NoneUnder /\ toFlush # {"out"} /\ m_port_enabled["out"]
      /\ m_state = "Loaded"
  BY ExecutingNone
<1>2. NoneUnder'
  BY <1>1, NoneStays, HandlerKeeps
<1>3. "StateSet" \in Names /\ "Idle" \in Args
  BY DEF Names, Args, States
<1>4. PICK i, o : i = allocateBuffersOnPort("in") /\ o = allocateBuffersOnPort("out")
  OBVIOUS
<1>5. Lists(i \o o, "use", Bufs)
  <2>1. Lists(i, "use", InBufs) /\ Lists(o, "use", OutBufs)
    BY <1>4, PortLists DEF Ports, BufsOf
  <2> QED BY <2>1, ListsConcat, ComponentAssumption DEF Bufs
<1>6. calls' = sendCommand("StateSet", "Idle") \o (i \o o)
  <2>1. i \in Seq(CallType) /\ o \in Seq(CallType)
    BY <1>4, PortLists DEF Ports, Lists
  <2>2. sendCommand("StateSet", "Idle") \in Seq(CallType)
    <3>1. sendCommand("StateSet", "Idle") \in Seq(Plain)
      BY <1>3, SendPlain
    <3> QED BY <3>1 DEF Plain
  <2> QED BY <1>4, <2>1, <2>2, ConcatAssociative
<1>7. <<"StateSet", "Idle">> \in Sought'
  BY <1>3 DEF Sought, ToIdle
<1>8. \A b \in Bufs : Fits("use", b)'
  BY DEF Fits
<1>9. PICK q : q = i \o o
  OBVIOUS
<1>10. Lists(q, "use", Bufs) /\ calls' = sendCommand("StateSet", "Idle") \o q
  BY <1>5, <1>6, <1>9
<1>11. Asked'
  <2>1. q \in Seq(CallType)
    BY <1>10 DEF Lists
  <2> QED BY <1>3, <1>10, <2>1, SendAsked
<1>12. CallsOK'
  BY <1>3, <1>7, <1>8, <1>10, SendList DEF BufOps
<1>13. allYourBuffersAreBelongToUs'
  <2>1. \A p \in Ports : Owned(p)' = {}
    BY HandlerKeeps DEF CodecInv, LifeOK
  <2> QED BY <2>1 DEF allYourBuffersAreBelongToUs
<1>14. BuffersOK'
  <2>1. mActive' = FALSE
    BY CodecTyping DEF PhaseInv, BuffersOK, Reconfigures, modeVars, CodecType
  <2>2. ~Enabling' /\ ~Disabling'
    BY DEF Enabling, Disabling, Reconfigures
  <2>3. /\ \A b \in Bufs : mStatus'[b] # "US" => b \in Owned(PortOf(b))
        /\ \A b \in OutBufs : mStatus'[b] # "UPSTREAM"
    BY DEF PhaseInv, BuffersOK
  <2> QED BY <1>11, <1>13, <2>1, <2>2, <2>3, HandlerBuffers DEF PhaseInv
<1>15. m_state = StateFor(acodec', mComponentNowIdle')
  BY <1>1 DEF StateFor
<1> QED BY <1>1, <1>2, <1>12, <1>14, <1>15, NonePhase

LEMMA RequestPhase ==
    ASSUME CodecInv, PhaseInv, OnRequest
    PROVE  PhaseInv'
<1>1. CodecInv'
  BY RequestStep
<1>2. Handles /\ \A c, a : Told(c, a)' = Told(c, a)
  BY MessageHandles DEF OnRequest, Ready, PhaseInv
<1>3. \/ acodec = "Executing" /\ ExecutingHandles(Head(requests))
      \/ /\ acodec = "Loaded"
         /\ calls' = sendCommand("StateSet", "Idle")
                        \o allocateBuffersOnPort("in")
                        \o allocateBuffersOnPort("out")
         /\ acodec' = "LoadedToIdle" /\ UNCHANGED modeVars /\ mStatus' = mStatus
      \/ UNCHANGED <<acodec, calls, mStatus, modeVars>>
  BY DEF OnRequest, LoadedShutdown, Enter
<1>4. CASE acodec = "Executing" /\ ExecutingHandles(Head(requests))
  BY <1>1, <1>2, <1>4, ExecutingPhase
<1>5. CASE /\ acodec = "Loaded"
           /\ calls' = sendCommand("StateSet", "Idle")
                          \o allocateBuffersOnPort("in")
                          \o allocateBuffersOnPort("out")
           /\ acodec' = "LoadedToIdle" /\ UNCHANGED modeVars /\ mStatus' = mStatus
  BY <1>1, <1>2, <1>5, StartPhase
<1>6. CASE UNCHANGED <<acodec, calls, mStatus, modeVars>>
  BY <1>1, <1>2, <1>6, AsidePhase
<1> QED BY <1>3, <1>4, <1>5, <1>6

-------------------------------------------------------------------------------
(* Buffers come back to ACodec, and none leaves it.                        *)
OnlyBack == \A b \in Bufs : mStatus'[b] = "US" \/ mStatus'[b] = mStatus[b]

LEMMA BackBuffers ==
    ASSUME CodecInv, BuffersOK, Handles, OnlyBack
    PROVE  /\ \A b \in Bufs : mStatus'[b] # "US" => b \in Owned(PortOf(b))
           /\ \A b \in OutBufs : mStatus'[b] # "UPSTREAM"
           /\ allYourBuffersAreBelongToUs => allYourBuffersAreBelongToUs'
           /\ Enabling => \A b \in Owned("out") : mStatus'[b] = "US"
<1>1. \A p \in Ports : Owned(p)' = Owned(p) /\ Owned(p) \subseteq Bufs
  BY HandlerKeeps, BuffersFacts, BufsFacts
<1>2. allYourBuffersAreBelongToUs => allYourBuffersAreBelongToUs'
  BY <1>1 DEF allYourBuffersAreBelongToUs, OnlyBack
<1>3. Owned("out") \subseteq Bufs /\ OutBufs \subseteq Bufs
  BY <1>1 DEF Ports, Bufs
<1> QED BY <1>2, <1>3 DEF BuffersOK, OnlyBack

LEMMA FlushCompletedPhase ==
    ASSUME CodecInv, CodecInv', PhaseInv, Handles, NoneUnder', OnlyBack,
           acodec = "Flushing", FlushCompleted, mActive' = mActive,
           allYourBuffersAreBelongToUs'
    PROVE  PhaseInv'
<1>1. ~Reconfigures /\ ~Reconfigures'
  BY DEF FlushCompleted, Reconfigures
<1>2. toFlush # {"out"} /\ m_port_enabled["out"] /\ m_state = "Executing"
  BY <1>1 DEF PhaseInv, FlushOK, StateOK, Disabling
<1>3. CallsOK'
  BY NoCalls DEF FlushCompleted
<1>4. BuffersOK'
  <2>1. ~Enabling' /\ ~Disabling'
    BY <1>1 DEF Enabling, Disabling
  <2>2. m_cur_buf_num["in"] = max_count("in")
    BY DEF PhaseInv, BuffersOK
  <2>3. acodec' = "Executing"
    BY DEF FlushCompleted
  <2>4. /\ \A b \in Bufs : mStatus'[b] # "US" => b \in Owned(PortOf(b))
        /\ \A b \in OutBufs : mStatus'[b] # "UPSTREAM"
    BY BackBuffers DEF PhaseInv
  <2> QED BY <2>1, <2>2, <2>3, <2>4, HandlerBuffers DEF PhaseInv
<1>5. m_state = StateFor(acodec', mComponentNowIdle')
  BY <1>2 DEF StateFor, FlushCompleted
<1> QED BY <1>2, <1>3, <1>4, <1>5, NonePhase

LEMMA ComponentIdlePhase ==
    ASSUME CodecInv, CodecInv', PhaseInv, Handles, NoneUnder', OnlyBack,
           acodec = "ExecutingToIdle", ComponentIdle, mActive' = mActive,
           m_state = "Idle", allYourBuffersAreBelongToUs'
    PROVE  PhaseInv'
<1>1. ~Reconfigures /\ ~Reconfigures' /\ acodec' = "IdleToLoaded"
  BY DEF ComponentIdle, Reconfigures
<1>2. toFlush # {"out"} /\ m_port_enabled["out"]
  BY <1>1 DEF PhaseInv, FlushOK, StateOK, Disabling
<1>3. "StateSet" \in Names /\ "Loaded" \in Args
  BY DEF Names, Args, States
<1>4. PICK i, o, A, B : /\ i = freeBuffersOnPort("in") /\ A = Owned("in")
                        /\ o = freeBuffersOnPort("out") /\ B = Owned("out")
  OBVIOUS
<1>5. /\ Lists(i, "free", A) /\ Lists(o, "free", B)
      /\ A \subseteq InBufs /\ B \subseteq OutBufs
  BY <1>4, PortLists, BuffersFacts DEF Ports, BufsOf
<1>6. PICK q : q = i \o o
  OBVIOUS
<1>7. Lists(q, "free", A \cup B)
  BY <1>5, <1>6, ListsConcat, ComponentAssumption
<1>8. calls' = sendCommand("StateSet", "Loaded") \o q
  <2>1. i \in Seq(CallType) /\ o \in Seq(CallType)
    BY <1>5 DEF Lists
  <2>2. PICK s : s = sendCommand("StateSet", "Loaded")
    OBVIOUS
  <2>3. s \in Seq(CallType)
    <3>1. s \in Seq(Plain)
      BY <1>3, <2>2, SendPlain
    <3> QED BY <3>1 DEF Plain
  <2>4. calls' = (s \o i) \o o
    BY <1>4, <2>2 DEF ComponentIdle
  <2>5. (s \o i) \o o = s \o (i \o o)
    BY <2>1, <2>3, ConcatAssociative
  <2> QED BY <1>6, <2>2, <2>4, <2>5
<1>9. Asked'
  <2>1. q \in Seq(CallType)
    BY <1>7 DEF Lists
  <2> QED BY <1>3, <1>8, <2>1, SendAsked
<1>10. <<"StateSet", "Loaded">> \in Sought'
  BY <1>1, <1>3 DEF Sought
<1>11. ASSUME NEW b \in A \cup B PROVE Fits("free", b)'
  <2>1. \A p \in Ports : \A c \in Owned(p) : mStatus'[c] = "US"
    BY HandlerKeeps DEF allYourBuffersAreBelongToUs
  <2>2. mStatus'[b] = "US"
    BY <1>4, <2>1 DEF Ports
  <2>3. b \in Owned(PortOf(b))'
    BY <1>4, <1>5, HandlerKeeps, ComponentAssumption DEF PortOf
  <2> QED BY <1>1, <2>2, <2>3 DEF Fits
<1>12. CallsOK'
  BY <1>3, <1>7, <1>8, <1>10, <1>11, SendList DEF BufOps
<1>13. BuffersOK'
  <2>1. ~Enabling' /\ ~Disabling'
    BY <1>1 DEF Enabling, Disabling
  <2>2. ~mActive'
    BY <1>1 DEF PhaseInv, BuffersOK
  <2>3. /\ \A b \in Bufs : mStatus'[b] # "US" => b \in Owned(PortOf(b))
        /\ \A b \in OutBufs : mStatus'[b] # "UPSTREAM"
    BY BackBuffers DEF PhaseInv
  <2> QED BY <1>1, <1>9, <2>1, <2>2, <2>3, HandlerBuffers DEF PhaseInv
<1>14. m_state = StateFor(acodec', mComponentNowIdle')
  BY <1>1 DEF StateFor
<1> QED BY <1>2, <1>12, <1>13, <1>14, NonePhase

(* A buffer that changes hands while ACodec stays in its state.            *)
LEMMA StayPhase ==
    ASSUME CodecInv, CodecInv', PhaseInv, Handles, OnlyBack,
           \A c, a : Told(c, a)' = Told(c, a),
           UNCHANGED <<acodec, modeVars>>, CallsOK', ~Asked'
    PROVE  PhaseInv'
<1>1. UNCHANGED <<mActive, mComponentNowIdle, mFlushComplete>>
  BY DEF modeVars
<1>2. m_port_enabled' = m_port_enabled /\ ~Asked
  BY HandlerKeeps, HandlerFacts
<1>3. /\ Reconfigures' <=> Reconfigures
      /\ Enabling' <=> Enabling
      /\ Disabling' <=> Disabling
      /\ Inactive' <=> Inactive
  BY <1>1, <1>2 DEF Reconfigures, Enabling, Disabling, Inactive
<1>4. /\ acodec' \notin {"Loaded", "LoadedToIdle", "IdleToLoaded"} =>
           m_cur_buf_num["in"] = max_count("in")
      /\ mActive' => acodec' = "Executing" \/ Reconfigures'
      /\ Inactive' => allYourBuffersAreBelongToUs
  BY <1>1, <1>3 DEF PhaseInv, BuffersOK
<1>5. BuffersOK'
  BY <1>3, <1>4, BackBuffers, HandlerBuffers DEF PhaseInv
<1> QED BY <1>1, <1>5, KeptPhase

(* changeStateIfWeOwnAllBuffers, after a reply of MediaCodec.              *)
LEMMA ReplyPhase ==
    ASSUME CodecInv, CodecInv', PhaseInv, Handles, OnlyBack,
           \A c, a : Told(c, a)' = Told(c, a), UNCHANGED modeVars,
           IfWeOwn(WeOwnAllWith(mStatus'), mFlushComplete, mComponentNowIdle)
    PROVE  PhaseInv'
<1>1. /\ UNCHANGED <<mActive, mComponentNowIdle, mFlushComplete>>
      /\ UNCHANGED <<ev, m_flags>> /\ calls = <<>>
  BY HandlerKeeps DEF modeVars
<1>2. WeOwnAllWith(mStatus') => allYourBuffersAreBelongToUs'
  BY HandlerKeeps DEF WeOwnAllWith, allYourBuffersAreBelongToUs
<1>3. CASE acodec = "Flushing" /\ AllFlushed(mFlushComplete)
              /\ WeOwnAllWith(mStatus')
  <2>1. FlushCompleted
    BY <1>3 DEF IfWeOwn
  <2>2. /\ ~ToIdle /\ ~Reconfigures /\ \A p \in Ports : ~Flushes(p)
    BY <1>3 DEF AllFlushed, ToIdle, Stopping, Reconfigures, Flushes
  <2>3. NoneUnder
    BY <1>3, <2>2, NotAwaited DEF PhaseInv
  <2>4. NoneUnder'
    BY <1>1, <2>3, NoneStays
  <2> QED BY <1>1, <1>2, <1>3, <2>1, <2>4, FlushCompletedPhase
<1>4. CASE /\ ~(acodec = "Flushing" /\ AllFlushed(mFlushComplete)
                  /\ WeOwnAllWith(mStatus'))
           /\ acodec = "ExecutingToIdle" /\ mComponentNowIdle
           /\ WeOwnAllWith(mStatus')
  <2>1. ComponentIdle
    BY <1>4 DEF IfWeOwn
  <2>2. /\ ~ToIdle /\ ~Reconfigures /\ \A p \in Ports : ~Flushes(p)
    BY <1>4 DEF ToIdle, Stopping, Reconfigures, Flushes
  <2>3. NoneUnder
    BY <1>4, <2>2, NotAwaited DEF PhaseInv
  <2>4. NoneUnder'
    BY <1>1, <2>3, NoneStays
  <2>5. m_state = "Idle"
    BY <1>4 DEF PhaseInv, StateOK
  <2> QED BY <1>1, <1>2, <1>4, <2>1, <2>4, <2>5, ComponentIdlePhase
<1>5. CASE Stay
  <2>1. calls' = <<>> /\ acodec' = acodec
    BY <1>1, <1>5 DEF Stay
  <2> QED BY <2>1, NoCalls, StayPhase
<1> QED BY <1>3, <1>4, <1>5 DEF IfWeOwn

(* A buffer that ACodec gave away: it is active, and an output port that   *)
(* is reconfigured is still being disabled.                                *)
LEMMA GivenAway ==
    ASSUME CodecInv, BuffersOK, NEW b \in Bufs, mStatus[b] # "US"
    PROVE  /\ b \in Owned(PortOf(b)) /\ ~Inactive
           /\ acodec = "Executing" \/ Reconfigures => mActive
           /\ b \in OutBufs => ~Enabling
<1>1. b \in Owned(PortOf(b)) /\ PortOf(b) \in Ports
  BY BufsFacts DEF BuffersOK
<1>2. ~Inactive
  BY <1>1 DEF BuffersOK, allYourBuffersAreBelongToUs
<1>3. b \in OutBufs => PortOf(b) = "out"
  BY ComponentAssumption DEF PortOf
<1> QED BY <1>1, <1>2, <1>3 DEF BuffersOK, Inactive

LEMMA InputFilledPhase ==
    ASSUME CodecInv, PhaseInv, NEW b \in InBufs, onInputBufferFilled(b)
    PROVE  PhaseInv'
<1>1. CodecInv'
  BY InputFilledStep
<1>2. /\ mStatus' = [mStatus EXCEPT ![b] = "US"] /\ mStatus[b] = "UPSTREAM"
      /\ UNCHANGED <<compVars, mBuffers, modeVars>> /\ calls = <<>>
  BY DEF onInputBufferFilled, MediaCodecReplies, Ready
<1>3. Handles /\ \A c, a : Told(c, a)' = Told(c, a)
  BY <1>2, MessageHandles DEF PhaseInv
<1>4. b \in Bufs
  BY DEF Bufs
<1>5. mStatus'[b] = "US" /\ OnlyBack
  BY <1>2, <1>4, CodecTyping DEF OnlyBack
<1>6. CASE mState = "STARTED" /\ PortMode("in") = "RESUBMIT"
  <2>1. calls' = <<Call("empty", b, NULL)>> /\ acodec' = acodec
    BY <1>6 DEF onInputBufferFilled
  <2>2. acodec = "Executing" \/ Reconfigures
    BY <1>6 DEF PortMode, Reconfigures
  <2>3. mActive' /\ b \in Owned(PortOf(b))'
    <3>1. mActive /\ b \in Owned(PortOf(b))
      BY <1>2, <1>4, <2>2, GivenAway DEF PhaseInv
    <3> QED BY <1>2, <1>3, <3>1, HandlerKeeps DEF modeVars
  <2>4. Fits("empty", b)'
    BY <1>5, <2>1, <2>2, <2>3 DEF Fits, Reconfigures
  <2>5. CallsOK' /\ ~Asked'
    BY <1>4, <2>1, <2>4, EmptyCall
  <2> QED BY <1>1, <1>2, <1>3, <1>5, <2>1, <2>5, StayPhase
<1>7. CASE ~(mState = "STARTED" /\ PortMode("in") = "RESUBMIT")
  <2>1. IfWeOwn(WeOwnAllWith(mStatus'), mFlushComplete, mComponentNowIdle)
    BY <1>7 DEF onInputBufferFilled
  <2> QED BY <1>1, <1>2, <1>3, <1>5, <2>1, ReplyPhase
<1> QED BY <1>6, <1>7

(* What becomes of an output buffer that ACodec has again.                 *)
LEMMA DisposesCalls ==
    ASSUME CodecInv, PhaseInv, Handles, NEW b \in OutBufs, mStatus[b] # "US",
           mStatus'[b] = "US", UNCHANGED <<acodec, modeVars>>,
           calls' = Disposes(b)
    PROVE  CallsOK' /\ ~Asked'
<1>1. b \in Bufs /\ PortOf(b) = "out"
  BY ComponentAssumption DEF Bufs, PortOf
<1>2. /\ b \in Owned(PortOf(b)) /\ ~Enabling
      /\ acodec = "Executing" \/ Reconfigures => mActive
  BY <1>1, GivenAway DEF PhaseInv
<1>3. b \in Owned(PortOf(b))' /\ m_port_enabled' = m_port_enabled /\ ~Asked
  BY <1>2, HandlerKeeps, HandlerFacts
<1>4. CASE acodec = "Executing"
  <2>1. calls' = <<Call("fill", b, NULL)>>
    BY <1>4 DEF Disposes, PortMode
  <2>2. PICK B : B = {b}
    OBVIOUS
  <2>3. Lists(calls', "fill", B)
    BY <1>1, <2>1, <2>2, ListsOne DEF BufOps
  <2>4. Fits("fill", b)'
    BY <1>2, <1>3, <1>4 DEF Fits, modeVars
  <2>5. \A c \in B : Fits("fill", c)'
    BY <2>2, <2>4
  <2> QED BY <2>3, <2>5, ListCalls DEF BufOps
<1>5. CASE Reconfigures
  <2>1. calls' = <<Call("free", b, NULL)>>
    BY <1>5 DEF Disposes, PortMode, Reconfigures
  <2>2. PICK B : B = {b}
    OBVIOUS
  <2>3. Lists(calls', "free", B)
    BY <1>1, <2>1, <2>2, ListsOne DEF BufOps
  <2>4. ~Asked'
    BY <2>1 DEF Asked, Call
  <2>5. Disabling'
    BY <1>2, <1>3, <1>5, <2>4 DEF Disabling, Enabling, Reconfigures
  <2>6. Fits("free", b)'
    BY <1>3, <2>5 DEF Fits
  <2>7. \A c \in B : Fits("free", c)'
    BY <2>2, <2>6
  <2> QED BY <2>3, <2>7, ListCalls DEF BufOps
<1>6. CASE acodec # "Executing" /\ ~Reconfigures
  <2>1. calls' = <<>>
    BY <1>6 DEF Disposes, PortMode, Reconfigures
  <2> QED BY <2>1, NoCalls
<1> QED BY <1>4, <1>5, <1>6

LEMMA OutputDrainedPhase ==
    ASSUME CodecInv, PhaseInv, NEW b \in OutBufs, onOutputBufferDrained(b)
    PROVE  PhaseInv'
<1>1. CodecInv'
  BY OutputDrainedStep
<1>2. /\ mStatus' = [mStatus EXCEPT ![b] = "US"] /\ mStatus[b] = "DOWNSTREAM"
      /\ UNCHANGED <<compVars, mBuffers, modeVars>> /\ calls = <<>>
  BY DEF onOutputBufferDrained, MediaCodecReplies, Ready
<1>3. Handles /\ \A c, a : Told(c, a)' = Told(c, a)
  BY <1>2, MessageHandles DEF PhaseInv
<1>4. b \in Bufs
  BY DEF Bufs
<1>5. mStatus'[b] = "US" /\ OnlyBack
  BY <1>2, <1>4, CodecTyping DEF OnlyBack
<1>6. CASE PortMode("out") # "KEEP"
  <2>1. calls' = Disposes(b) /\ acodec' = acodec
    BY <1>6 DEF onOutputBufferDrained
  <2>2. CallsOK' /\ ~Asked'
    BY <1>2, <1>3, <1>5, <2>1, DisposesCalls
  <2> QED BY <1>1, <1>2, <1>3, <1>5, <2>1, <2>2, StayPhase
<1>7. CASE PortMode("out") = "KEEP"
  <2>1. IfWeOwn(WeOwnAllWith(mStatus'), mFlushComplete, mComponentNowIdle)
    BY <1>7 DEF onOutputBufferDrained
  <2> QED BY <1>1, <1>2, <1>3, <1>5, <2>1, ReplyPhase
<1> QED BY <1>6, <1>7

(* A buffer that the component gives back and that ACodec passes on.       *)
LEMMA PassedOnPhase ==
    ASSUME CodecInv, CodecInv', PhaseInv, Handles, NEW b \in Bufs,
           mStatus[b] # "US", NEW v, v = "UPSTREAM" => b \in InBufs,
           v = "DOWNSTREAM" => acodec = "Executing",
           v \in {"US", "UPSTREAM", "DOWNSTREAM"},
           mStatus' = [mStatus EXCEPT ![b] = v],
           \A c, a : Told(c, a)' = Told(c, a),
           UNCHANGED <<acodec, modeVars>>, CallsOK', ~Asked'
    PROVE  PhaseInv'
<1>1. UNCHANGED <<mActive, mComponentNowIdle, mFlushComplete>>
  BY DEF modeVars
<1>2. m_port_enabled' = m_port_enabled /\ ~Asked
  BY HandlerKeeps, HandlerFacts
<1>3. /\ Reconfigures' <=> Reconfigures
      /\ Enabling' <=> Enabling
      /\ Disabling' <=> Disabling
      /\ Inactive' <=> Inactive
  BY <1>1, <1>2 DEF Reconfigures, Enabling, Disabling, Inactive
<1>4. b \in Owned(PortOf(b)) /\ ~Inactive /\ (b \in OutBufs => ~Enabling)
  BY GivenAway DEF PhaseInv
<1>5. \A c \in Bufs : mStatus'[c] = IF c = b THEN v ELSE mStatus[c]
  BY CodecTyping
<1>6. /\ acodec' \notin {"Loaded", "LoadedToIdle", "IdleToLoaded"} =>
           m_cur_buf_num["in"] = max_count("in")
      /\ mActive' => acodec' = "Executing" \/ Reconfigures'
  BY <1>1, <1>3 DEF PhaseInv, BuffersOK
<1>7. \A c \in Bufs : mStatus'[c] # "US" => c \in Owned(PortOf(c))
  BY <1>4, <1>5 DEF PhaseInv, BuffersOK
<1>8. \A c \in OutBufs : mStatus'[c] # "UPSTREAM"
  <2>1. \A c \in OutBufs : c \in Bufs /\ c \notin InBufs
    BY ComponentAssumption DEF Bufs
  <2> QED BY <1>5, <2>1 DEF PhaseInv, BuffersOK
<1>9. Enabling => \A c \in Owned("out") : mStatus'[c] = "US"
  <2>1. Owned("out") \subseteq OutBufs /\ OutBufs \subseteq Bufs
    BY BuffersFacts DEF Ports, BufsOf, Bufs
  <2> QED BY <1>4, <1>5, <2>1 DEF PhaseInv, BuffersOK
<1>10. BuffersOK'
  BY <1>3, <1>4, <1>6, <1>7, <1>8, <1>9, HandlerBuffers DEF PhaseInv
<1> QED BY <1>1, <1>10, KeptPhase

LEMMA EmptyDonePhase ==
    ASSUME CodecInv, PhaseInv, onOMXEmptyBufferDone
    PROVE  PhaseInv'
<1>1. CodecInv'
  BY EmptyDoneStep
<1>2. PICK b, v : /\ b \in InBufs /\ v \in {"US", "UPSTREAM"}
                  /\ OnCallback("BUFFER_DONE") /\ HasBuffer(b)
                  /\ mStatus' = [mStatus EXCEPT ![b] = v]
                  /\ UNCHANGED <<acodec, calls, modeVars>>
  BY DEF onOMXEmptyBufferDone
<1>3. b \in Bufs /\ mStatus[b] # "US"
  BY <1>2 DEF HasBuffer, Bufs
<1>4. Handles /\ \A c, a : Told(c, a)' = Told(c, a)
  BY <1>2, CallbackTaken DEF PhaseInv
<1>5. CallsOK' /\ ~Asked'
  BY <1>2, <1>4, HandlerKeeps, NoCalls
<1> QED BY <1>1, <1>2, <1>3, <1>4, <1>5, PassedOnPhase

LEMMA FillDonePhase ==
    ASSUME CodecInv, PhaseInv, onOMXFillBufferDone
    PROVE  PhaseInv'
<1>1. CodecInv'
  BY FillDoneStep
<1>2. PICK b, v : /\ b \in OutBufs /\ v \in {"US", "DOWNSTREAM"}
                  /\ OnCallback("BUFFER_DONE") /\ HasBuffer(b)
                  /\ mStatus' = [mStatus EXCEPT ![b] = v]
                  /\ \/ v = "DOWNSTREAM" /\ calls' = <<>> /\ acodec = "Executing"
                     \/ v = "US" /\ calls' = Disposes(b)
                  /\ UNCHANGED <<acodec, modeVars>>
  <2>1. PICK b : b = Head(cb).p1
    OBVIOUS
  <2>2. PortMode("out") = "RESUBMIT" => acodec = "Executing"
    BY DEF PortMode
  <2> QED BY <2>1, <2>2 DEF onOMXFillBufferDone
<1>3. b \in Bufs /\ mStatus[b] # "US"
  BY <1>2 DEF HasBuffer, Bufs
<1>4. Handles /\ \A c, a : Told(c, a)' = Told(c, a)
  BY <1>2, CallbackTaken DEF PhaseInv
<1>5. mStatus'[b] = v
  BY <1>2, <1>3, CodecTyping
<1>6. CallsOK' /\ ~Asked'
  BY <1>2, <1>3, <1>4, <1>5, NoCalls, DisposesCalls
<1> QED BY <1>1, <1>2, <1>3, <1>4, <1>6, PassedOnPhase

LEMMA SettingsPhase ==
    ASSUME CodecInv, PhaseInv, OnSettingsChanged
    PROVE  PhaseInv'
<1>1. CodecInv'
  BY SettingsStep
<1>2. Handles /\ \A c, a : Told(c, a)' = Told(c, a)
  BY CallbackTaken DEF OnSettingsChanged, PhaseInv
<1>3. CASE acodec = "Executing" /\ ExecutingHandles("settings")
  BY <1>1, <1>2, <1>3, ExecutingPhase
<1>4. CASE UNCHANGED <<acodec, calls, mStatus, modeVars>>
  BY <1>1, <1>2, <1>4, AsidePhase
<1> QED BY <1>3, <1>4 DEF OnSettingsChanged

-------------------------------------------------------------------------------
(* The completions.                                                        *)
LEMMA CompletedFacts ==
    ASSUME CodecInv, PhaseInv, OnCallback("CMD_COMPLETE"), NEW c, NEW a,
           Completed(c, a),
           <<c, a>> \in DoneAnswers \cup {<<"StateSet", "Executing">>}
    PROVE  /\ Handles /\ NoneUnder' /\ ~Asked /\ Told(c, a) > 0
           /\ c = "StateSet" /\ a = "Idle" =>
                ToIdle /\ <<"IDLE", "all">> \notin m_flags
           /\ c = "PortDisable" => Disabling /\ <<"DISABLE", "out">> \notin m_flags
           /\ c = "PortEnable" => Enabling
           /\ \A b \in Bufs : mStatus[b] # "US" => b \in Owned(PortOf(b))
           /\ \A b \in OutBufs : mStatus[b] # "UPSTREAM"
<1>1. Handles
  BY CallbackTaken DEF PhaseInv
<1>2. /\ c = "PortDisable" => <<c, a>> = <<"PortDisable", "out">>
      /\ c = "PortEnable" => <<c, a>> = <<"PortEnable", "out">>
  BY DEF DoneAnswers, PortAnswers
<1>3. /\ NoneUnder' /\ ~Asked /\ Told(c, a) > 0
      /\ <<c, a>> = <<"StateSet", "Idle">> =>
           ToIdle /\ <<"IDLE", "all">> \notin m_flags
      /\ <<c, a>> = <<"PortDisable", "out">> =>
           Disabling /\ <<"DISABLE", "out">> \notin m_flags
      /\ <<c, a>> = <<"PortEnable", "out">> => Enabling
  BY DoneTaken DEF PhaseInv
<1>4. /\ \A b \in Bufs : mStatus[b] # "US" => b \in Owned(PortOf(b))
      /\ \A b \in OutBufs : mStatus[b] # "UPSTREAM"
  BY DEF PhaseInv, BuffersOK
<1> QED BY <1>1, <1>2, <1>3, <1>4

LEMMA LoadedToIdleDonePhase ==
    ASSUME CodecInv, PhaseInv, LoadedToIdleDone
    PROVE  PhaseInv'
<1>1. CodecInv'
  BY LoadedToIdleDoneStep
<1>2. /\ acodec = "LoadedToIdle" /\ calls' = sendCommand("StateSet", "Executing")
      /\ acodec' = "IdleToExecuting" /\ UNCHANGED modeVars /\ mStatus' = mStatus
      /\ OnCallback("CMD_COMPLETE") /\ Completed("StateSet", "Idle")
  BY DEF LoadedToIdleDone, Enter
<1>3. /\ Handles /\ NoneUnder' /\ ~Asked /\ Told("StateSet", "Idle") > 0
      /\ <<"IDLE", "all">> \notin m_flags
      /\ \A b \in Bufs : mStatus[b] # "US" => b \in Owned(PortOf(b))
      /\ \A b \in OutBufs : mStatus[b] # "UPSTREAM"
  BY <1>2, CompletedFacts DEF DoneAnswers
<1>4. ~Reconfigures /\ ~Reconfigures'
  BY <1>2 DEF Reconfigures
<1>5. m_state = "Idle" /\ toFlush # {"out"} /\ m_port_enabled["out"]
  BY <1>2, <1>3, <1>4 DEF PhaseInv, StateOK, FlushOK, Disabling
<1>6. "StateSet" \in Names /\ "Executing" \in Args
  BY DEF Names, Args, States
<1>7. <<"StateSet", "Executing">> \in Sought'
  BY <1>2, <1>6 DEF Sought
<1>8. CallsOK' /\ Asked'
  BY <1>2, <1>6, <1>7, SendOnly
<1>9. BuffersOK'
  <2>1. ~Enabling' /\ ~Disabling' /\ ~mActive'
    BY <1>2, <1>4 DEF Enabling, Disabling, PhaseInv, BuffersOK, modeVars
  <2>2. allYourBuffersAreBelongToUs'
    BY <1>2, <1>3, BackBuffers
       DEF PhaseInv, BuffersOK, Inactive, OnlyBack
  <2>3. m_cur_buf_num["in"] = max_count("in")
    BY <1>2, <1>3 DEF PhaseInv, BuffersOK, Ports
  <2> QED BY <1>2, <1>3, <2>1, <2>2, <2>3, HandlerBuffers DEF PhaseInv
<1>10. m_state = StateFor(acodec', mComponentNowIdle')
  BY <1>2, <1>5 DEF StateFor
<1> QED BY <1>1, <1>3, <1>5, <1>8, <1>9, <1>10, NonePhase

LEMMA IdleToExecutingDonePhase ==
    ASSUME CodecInv, PhaseInv, IdleToExecutingDone
    PROVE  PhaseInv'
<1>1. CodecInv'
  BY IdleToExecutingDoneStep
<1>2. /\ acodec = "IdleToExecuting" /\ Resume /\ acodec' = "Executing"
      /\ OnCallback("CMD_COMPLETE") /\ Completed("StateSet", "Executing")
  BY DEF IdleToExecutingDone
<1>3. /\ Handles /\ NoneUnder' /\ Told("StateSet", "Executing") > 0
  BY <1>2, CompletedFacts
<1>4. ~Reconfigures
  BY <1>2 DEF Reconfigures
<1>5. m_state = "Executing" /\ toFlush # {"out"} /\ m_port_enabled["out"]
  BY <1>2, <1>3, <1>4 DEF PhaseInv, StateOK, FlushOK, Disabling
<1>6. ~mActive
  BY <1>2, <1>4 DEF PhaseInv, BuffersOK
<1> QED BY <1>1, <1>2, <1>3, <1>5, <1>6, ResumePhase

LEMMA OutputPortDisabledPhase ==
    ASSUME CodecInv, PhaseInv, OutputPortDisabled
    PROVE  PhaseInv'
<1>1. CodecInv'
  BY OutputPortDisabledStep
<1>2. /\ Reconfigures /\ mBuffers["out"] = <<>>
      /\ calls' = sendCommand("PortEnable", "out") \o allocateBuffersOnPort("out")
      /\ UNCHANGED <<acodec, mStatus, modeVars>>
      /\ OnCallback("CMD_COMPLETE") /\ Completed("PortDisable", "out")
  BY DEF OutputPortDisabled, Reconfigures
<1>3. /\ Handles /\ NoneUnder' /\ ~Asked /\ Told("PortDisable", "out") > 0
      /\ Disabling
      /\ \A b \in Bufs : mStatus[b] # "US" => b \in Owned(PortOf(b))
      /\ \A b \in OutBufs : mStatus[b] # "UPSTREAM"
  BY <1>2, CompletedFacts DEF DoneAnswers, PortAnswers
<1>4. m_state = "Executing" /\ toFlush # {"out"} /\ ~m_port_enabled["out"]
  <2>1. ~m_port_enabled["out"]
    BY <1>3 DEF Disabling
  <2>2. toFlush # {"out"}
    BY <1>3 DEF PhaseInv, FlushOK
  <2>3. m_state = "Executing"
    BY <1>2 DEF PhaseInv, StateOK, Reconfigures
  <2> QED BY <2>1, <2>2, <2>3
<1>5. "PortEnable" \in Names /\ "out" \in Args
  BY DEF Names, Args, Ports
<1>6. PICK q : q = allocateBuffersOnPort("out")
  OBVIOUS
<1>7. Lists(q, "use", OutBufs) /\ q \in Seq(CallType)
  <2>1. Lists(q, "use", OutBufs)
    BY <1>6, PortLists DEF Ports, BufsOf
  <2> QED BY <2>1 DEF Lists
<1>8. Asked'
  BY <1>2, <1>5, <1>6, <1>7, SendAsked
<1>9. Reconfigures' /\ Enabling' /\ ~Disabling'
  BY <1>2, <1>3, <1>4, <1>8, HandlerKeeps DEF Reconfigures, Enabling, Disabling
<1>10. <<"PortEnable", "out">> \in Sought'
  BY <1>5, <1>9 DEF Sought
<1>11. \A b \in OutBufs : Fits("use", b)'
  BY <1>9 DEF Fits
<1>12. CallsOK'
  BY <1>2, <1>5, <1>6, <1>7, <1>10, <1>11, SendList DEF BufOps
<1>13. BuffersOK'
  <2>1. Owned("out") = {}
    <3>1. Len(mBuffers["out"]) = 0
      BY <1>2
    <3> QED BY <3>1 DEF Owned, Entries
  <2>2. Inactive' => Inactive
    BY <1>2, <1>9 DEF Inactive, modeVars
  <2>3. allYourBuffersAreBelongToUs => allYourBuffersAreBelongToUs'
    BY <1>2, <1>3, BackBuffers DEF PhaseInv, OnlyBack
  <2>4. Inactive' => allYourBuffersAreBelongToUs'
    BY <2>2, <2>3 DEF PhaseInv, BuffersOK
  <2>5. m_cur_buf_num["in"] = max_count("in")
    BY <1>2 DEF PhaseInv, BuffersOK, Reconfigures
  <2> QED BY <1>2, <1>3, <1>8, <1>9, <2>1, <2>4, <2>5, HandlerBuffers
         DEF PhaseInv
<1>14. m_state = StateFor(acodec', mComponentNowIdle')
  BY <1>4, <1>9 DEF StateFor, Reconfigures
<1> QED BY <1>1, <1>3, <1>4, <1>9, <1>12, <1>13, <1>14, NonePhase

LEMMA OutputPortEnabledPhase ==
    ASSUME CodecInv, PhaseInv, OutputPortEnabled
    PROVE  PhaseInv'
<1>1. CodecInv'
  BY OutputPortEnabledStep
<1>2. /\ Reconfigures /\ acodec' = "Executing" /\ UNCHANGED modeVars
      /\ calls' = (IF mActive THEN submitOutputBuffers ELSE <<>>)
      /\ mStatus' = mStatus
      /\ OnCallback("CMD_COMPLETE") /\ Completed("PortEnable", "out")
  BY DEF OutputPortEnabled, Reconfigures, Enter
<1>3. /\ Handles /\ NoneUnder' /\ ~Asked /\ Enabling
      /\ \A b \in Bufs : mStatus[b] # "US" => b \in Owned(PortOf(b))
      /\ \A b \in OutBufs : mStatus[b] # "UPSTREAM"
  BY <1>2, CompletedFacts DEF DoneAnswers, PortAnswers
<1>4. m_state = "Executing" /\ toFlush # {"out"} /\ m_port_enabled["out"]
  <2>1. m_port_enabled["out"] /\ ~Disabling
    BY <1>3 DEF Disabling, Enabling
  <2>2. toFlush # {"out"}
    BY <2>1 DEF PhaseInv, FlushOK
  <2>3. m_state = "Executing"
    BY <1>2 DEF PhaseInv, StateOK, Reconfigures
  <2> QED BY <2>1, <2>2, <2>3
<1>5. CallsOK'
  <2>1. CASE mActive
    <3>1. Lists(calls', "fill", Owned("out"))
      BY <1>2, <2>1, OutLists
    <3>2. ASSUME NEW b \in Owned("out") PROVE Fits("fill", b)'
      <4>1. b \in OutBufs /\ PortOf(b) = "out"
        BY BuffersFacts, ComponentAssumption DEF Ports, BufsOf, PortOf
      <4>2. mStatus[b] = "US"
        BY <1>3 DEF PhaseInv, BuffersOK
      <4>3. b \in Owned(PortOf(b))'
        BY <1>3, <4>1, HandlerKeeps
      <4> QED BY <1>2, <2>1, <4>2, <4>3 DEF Fits, modeVars
    <3> QED BY <3>1, <3>2, ListCalls DEF BufOps
  <2>2. CASE ~mActive
    BY <1>2, <2>2, NoCalls
  <2> QED BY <2>1, <2>2
<1>6. BuffersOK'
  <2>1. ~Enabling' /\ ~Disabling'
    BY <1>2 DEF Enabling, Disabling, Reconfigures
  <2>2. Inactive' => Inactive
    BY <1>2 DEF Inactive, modeVars
  <2>3. allYourBuffersAreBelongToUs => allYourBuffersAreBelongToUs'
    BY <1>2, <1>3, BackBuffers DEF PhaseInv, OnlyBack
  <2>4. Inactive' => allYourBuffersAreBelongToUs'
    BY <2>2, <2>3 DEF PhaseInv, BuffersOK
  <2>5. m_cur_buf_num["in"] = max_count("in")
    BY <1>2 DEF PhaseInv, BuffersOK, Reconfigures
  <2> QED BY <1>2, <1>3, <2>1, <2>4, <2>5, HandlerBuffers DEF PhaseInv
<1>7. m_state = StateFor(acodec', mComponentNowIdle')
  BY <1>2, <1>4 DEF StateFor
<1> QED BY <1>1, <1>3, <1>4, <1>5, <1>6, <1>7, NonePhase

LEMMA ExecutingToIdleDonePhase ==
    ASSUME CodecInv, PhaseInv, ExecutingToIdleDone
    PROVE  PhaseInv'
<1>1. CodecInv'
  BY WaitsDoneStep
<1>2. /\ acodec = "ExecutingToIdle" /\ mComponentNowIdle' = TRUE
      /\ IfWeOwn(allYourBuffersAreBelongToUs, {}, TRUE)
      /\ UNCHANGED <<mStatus, mActive, mFlushComplete>>
      /\ OnCallback("CMD_COMPLETE") /\ Completed("StateSet", "Idle")
  BY DEF ExecutingToIdleDone
<1>3. /\ Handles /\ NoneUnder' /\ ~Asked /\ Told("StateSet", "Idle") > 0
      /\ \A b \in Bufs : mStatus[b] # "US" => b \in Owned(PortOf(b))
      /\ \A b \in OutBufs : mStatus[b] # "UPSTREAM"
  BY <1>2, CompletedFacts DEF DoneAnswers
<1>4. ~Reconfigures /\ OnlyBack
  BY <1>2 DEF Reconfigures, OnlyBack
<1>5. m_state = "Idle" /\ toFlush # {"out"} /\ m_port_enabled["out"] /\ ~mActive
  BY <1>2, <1>3, <1>4 DEF PhaseInv, StateOK, FlushOK, Disabling, BuffersOK
<1>6. CASE allYourBuffersAreBelongToUs
  <2>1. ComponentIdle
    BY <1>2, <1>6 DEF IfWeOwn
  <2>2. allYourBuffersAreBelongToUs'
    BY <1>3, <1>4, <1>6, BackBuffers DEF PhaseInv
  <2> QED BY <1>1, <1>2, <1>3, <1>4, <1>5, <2>1, <2>2, ComponentIdlePhase
<1>7. CASE ~allYourBuffersAreBelongToUs
  <2>1. UNCHANGED <<calls, acodec>>
    BY <1>2, <1>7 DEF IfWeOwn, Stay
  <2>2. CallsOK'
    BY <1>3, <2>1, HandlerKeeps, NoCalls
  <2>3. ~Reconfigures' /\ ~Inactive' /\ ~Enabling' /\ ~Disabling'
    BY <1>2, <2>1 DEF Inactive, Enabling, Disabling, Reconfigures
  <2>4. m_cur_buf_num["in"] = max_count("in")
    BY <1>2 DEF PhaseInv, BuffersOK
  <2>5. BuffersOK'
    BY <1>2, <1>3, <1>5, <2>1, <2>3, <2>4, HandlerBuffers DEF PhaseInv
  <2>6. m_state = StateFor(acodec', mComponentNowIdle')
    BY <1>2, <1>5, <2>1 DEF StateFor
  <2> QED BY <1>1, <1>3, <1>5, <2>2, <2>5, <2>6, NonePhase
<1> QED BY <1>6, <1>7

LEMMA IdleToLoadedDonePhase ==
    ASSUME CodecInv, PhaseInv, IdleToLoadedDone
    PROVE  PhaseInv'
<1>1. CodecInv'
  BY IdleToLoadedDoneStep
<1>2. /\ acodec = "IdleToLoaded" /\ acodec' = "Loaded" /\ UNCHANGED modeVars
      /\ UNCHANGED <<calls, mStatus>>
      /\ OnCallback("CMD_COMPLETE") /\ Completed("StateSet", "Loaded")
  BY DEF IdleToLoadedDone, Enter
<1>3. /\ Handles /\ NoneUnder' /\ ~Asked /\ Told("StateSet", "Loaded") > 0
      /\ \A b \in Bufs : mStatus[b] # "US" => b \in Owned(PortOf(b))
      /\ \A b \in OutBufs : mStatus[b] # "UPSTREAM"
  BY <1>2, CompletedFacts DEF DoneAnswers
<1>4. ~Reconfigures
  BY <1>2 DEF Reconfigures
<1>5. m_state = "Loaded" /\ toFlush # {"out"} /\ m_port_enabled["out"] /\ ~mActive
  BY <1>2, <1>3, <1>4 DEF PhaseInv, StateOK, FlushOK, Disabling, BuffersOK
<1>6. CallsOK'
  BY <1>2, <1>3, HandlerKeeps, NoCalls
<1>7. ~Inactive' /\ ~Enabling' /\ ~Disabling'
  BY <1>2 DEF Inactive, Enabling, Disabling, Reconfigures
<1>8. BuffersOK'
  <2>1. ~mActive'
    BY <1>2, <1>5 DEF modeVars
  <2> QED BY <1>2, <1>3, <1>7, <2>1, HandlerBuffers DEF PhaseInv
<1>9. m_state = StateFor(acodec', mComponentNowIdle')
  BY <1>2, <1>5 DEF StateFor
<1> QED BY <1>1, <1>3, <1>5, <1>6, <1>8, <1>9, NonePhase

(* The flush of a port is done; that of the other may still be under way.  *)
LEMMA FlushTaken ==
    ASSUME CodecInv, CodecInv', AnswerOK, KnownOK, acodec = "Flushing",
           OnCallback("CMD_COMPLETE"), NEW p \in Ports, Completed("Flush", p)
    PROVE  /\ Under("StateSet", "Idle", "IDLE", "all")' = 0
           /\ Under("StateSet", "Executing", "EXECUTE", "all")' = 0
           /\ Under("StateSet", "Loaded", "LOADING", "all")' = 0
           /\ Under("PortDisable", "out", "DISABLE", "out")' = 0
           /\ Under("PortEnable", "out", "ENABLE", "out")' = 0
           /\ Under("Flush", p, "FLUSH", p)' = 0
           /\ \A q \in Ports : Under("Flush", q, "FLUSH", q)'
                                 <= IF Flushes(q) /\ ~Asked THEN 1 ELSE 0
<1>1. Head(cb) = CmdComplete("Flush", p)
  <2>1. Head(cb) \in Callback /\ Head(cb).what = "CMD_COMPLETE"
    BY CallbackTaken DEF KnownCallback
  <2> QED BY <2>1 DEF Completed, CmdComplete, Callback
<1>2. ASSUME NEW d, NEW b, NEW f, NEW q, NEW w, AnsweredOnce(d, b, f, q, w)
      PROVE  /\ ~w => Under(d, b, f, q)' = 0
             /\ "Flush" = d /\ p = b => Under(d, b, f, q)' = 0
             /\ Under(d, b, f, q)' <= Under(d, b, f, q)
  <2>1. /\ ~w => Under(d, b, f, q)' = 0
        /\ Head(cb) = CmdComplete(d, b) =>
             /\ w /\ ~Asked /\ Under(d, b, f, q)' = 0
             /\ Told(d, b) > 0 /\ <<f, q>> \notin m_flags
        /\ Under(d, b, f, q)' <= Under(d, b, f, q)
    BY <1>2, AnswerTaken
  <2> QED BY <1>1, <2>1
<1>3. PICK tid, exe, ldd, dis, ena :
        /\ tid = ToIdle /\ exe = (acodec = "IdleToExecuting")
        /\ ldd = (acodec = "IdleToLoaded") /\ dis = Disabling /\ ena = Enabling
  OBVIOUS
<1>4. ~tid /\ ~exe /\ ~ldd /\ ~dis /\ ~ena
  BY <1>3 DEF ToIdle, Stopping, Disabling, Enabling, Reconfigures
<1>5. /\ AnsweredOnce("StateSet", "Idle", "IDLE", "all", tid)
      /\ AnsweredOnce("StateSet", "Executing", "EXECUTE", "all", exe)
      /\ AnsweredOnce("StateSet", "Loaded", "LOADING", "all", ldd)
      /\ AnsweredOnce("PortDisable", "out", "DISABLE", "out", dis)
      /\ AnsweredOnce("PortEnable", "out", "ENABLE", "out", ena)
  BY <1>3 DEF AnswerOK
<1>6. Under("StateSet", "Idle", "IDLE", "all")' = 0
  BY <1>2, <1>4, <1>5
<1>7. Under("StateSet", "Executing", "EXECUTE", "all")' = 0
  BY <1>2, <1>4, <1>5
<1>8. Under("StateSet", "Loaded", "LOADING", "all")' = 0
  BY <1>2, <1>4, <1>5
<1>9. Under("PortDisable", "out", "DISABLE", "out")' = 0
  BY <1>2, <1>4, <1>5
<1>10. Under("PortEnable", "out", "ENABLE", "out")' = 0
  BY <1>2, <1>4, <1>5
<1>11. AnsweredOnce("Flush", p, "FLUSH", p, Flushes(p))
  BY DEF AnswerOK
<1>12. Under("Flush", p, "FLUSH", p)' = 0
  BY <1>2, <1>11
<1>13. ASSUME NEW q \in Ports
       PROVE  Under("Flush", q, "FLUSH", q)'
                <= IF Flushes(q) /\ ~Asked THEN 1 ELSE 0
  <2>1. AnsweredOnce("Flush", q, "FLUSH", q, Flushes(q))
    BY DEF AnswerOK
  <2>2. Under("Flush", q, "FLUSH", q)' <= Under("Flush", q, "FLUSH", q)
    BY <1>2, <2>1
  <2>3. Under("Flush", q, "FLUSH", q) <= IF Flushes(q) /\ ~Asked THEN 1 ELSE 0
    BY <2>1 DEF AnsweredOnce
  <2>4. /\ Under("Flush", q, "FLUSH", q) \in Nat
        /\ Under("Flush", q, "FLUSH", q)' \in Nat
    <3>1. /\ Carried("Flush", q) \in Nat /\ Told("Flush", q) \in Nat
          /\ Bit("FLUSH", q) \in {0, 1}
          /\ Carried("Flush", q)' \in Nat /\ Told("Flush", q)' \in Nat
          /\ Bit("FLUSH", q)' \in {0, 1}
      BY UnderFacts, UnderFactsNext
    <3> HIDE DEF Carried, Told, Bit
    <3> QED BY <3>1 DEF Under
  <2> QED BY <2>2, <2>3, <2>4
<1> QED BY <1>6, <1>7, <1>8, <1>9, <1>10, <1>12, <1>13

LEMMA PortFlushedPhase ==
    ASSUME CodecInv, PhaseInv, NEW p \in Ports, PortFlushed(p)
    PROVE  PhaseInv'
<1> USE DEF PhaseInv
<1>1. CodecInv'
  BY WaitsDoneStep
<1>2. /\ acodec = "Flushing" /\ mFlushComplete' = mFlushComplete \cup {p}
      /\ IfWeOwn(allYourBuffersAreBelongToUs, mFlushComplete', FALSE)
      /\ UNCHANGED <<mStatus, mActive, mComponentNowIdle>>
      /\ OnCallback("CMD_COMPLETE") /\ Completed("Flush", p)
  BY DEF PortFlushed
<1>3. Handles /\ ~Asked /\ calls = <<>>
  BY <1>2, CallbackTaken, HandlerFacts DEF Handles
<1>4. /\ Under("StateSet", "Idle", "IDLE", "all")' = 0
      /\ Under("StateSet", "Executing", "EXECUTE", "all")' = 0
      /\ Under("StateSet", "Loaded", "LOADING", "all")' = 0
      /\ Under("PortDisable", "out", "DISABLE", "out")' = 0
      /\ Under("PortEnable", "out", "ENABLE", "out")' = 0
      /\ Under("Flush", p, "FLUSH", p)' = 0
      /\ \A q \in Ports : Under("Flush", q, "FLUSH", q)'
                            <= IF Flushes(q) /\ ~Asked THEN 1 ELSE 0
  BY <1>1, <1>2, FlushTaken
<1>5. OnlyBack
  BY <1>2 DEF OnlyBack
<1>6. CASE AllFlushed(mFlushComplete') /\ allYourBuffersAreBelongToUs
  <2>1. FlushCompleted
    BY <1>2, <1>6 DEF IfWeOwn
  <2>2. ASSUME NEW q \in Ports PROVE Under("Flush", q, "FLUSH", q)' = 0
    <3>1. CASE q = p
      BY <1>4, <3>1
    <3>2. CASE q # p
      <4>1. ~Flushes(q)
        BY <1>2, <1>6, <3>2 DEF AllFlushed, Flushes
      <4>2. Under("Flush", q, "FLUSH", q)' <= 0
        BY <1>4, <4>1
      <4>3. /\ Carried("Flush", q)' \in Nat /\ Told("Flush", q)' \in Nat
            /\ Bit("FLUSH", q)' \in {0, 1}
        BY <1>1, UnderFactsNext
      <4> HIDE DEF Carried, Told, Bit
      <4> QED BY <4>2, <4>3 DEF Under
    <3> QED BY <3>1, <3>2
  <2>3. NoneUnder'
    BY <1>4, <2>2 DEF NoneUnder
  <2>4. allYourBuffersAreBelongToUs'
    BY <1>3, <1>5, <1>6, BackBuffers
  <2> QED BY <1>1, <1>2, <1>3, <1>5, <2>1, <2>3, <2>4, FlushCompletedPhase
<1>7. CASE ~(AllFlushed(mFlushComplete') /\ allYourBuffersAreBelongToUs)
  <2>1. acodec' = acodec /\ calls' = <<>>
    BY <1>2, <1>3, <1>7 DEF IfWeOwn, Stay
  <2>2. CallsOK' /\ ~Asked'
    BY <2>1, NoCalls
  <2>3. BuffersOK'
    BY <1>2, <1>3, <2>1, <2>2, SameBuffers
  <2>4. KnownOK' /\ StopOK'
    BY <1>3, HandlerKnown, HandlerStop
  <2>5. /\ m_state' = m_state /\ m_flags' = m_flags /\ toFlush' = toFlush
        /\ m_port_enabled' = m_port_enabled
        /\ m_port_flushing' = m_port_flushing
        /\ ev' = ev /\ msgs' = msgs /\ flushReq' = flushReq
    BY <1>3 DEF Handles, portVars, drvVars
  <2>6. AnswerOK'
    <3>1. ASSUME NEW q \in Ports
          PROVE  Under("Flush", q, "FLUSH", q)'
                   <= IF Flushes(q)' /\ ~Asked' THEN 1 ELSE 0
      <4>1. CASE q = p
        BY <1>4, <4>1
      <4>2. CASE q # p
        <5>1. Flushes(q)' <=> Flushes(q)
          BY <1>2, <2>1, <4>2 DEF Flushes
        <5>2. (Flushes(q)' /\ ~Asked') <=> (Flushes(q) /\ ~Asked)
          BY <1>3, <2>2, <5>1
        <5>3. Under("Flush", q, "FLUSH", q)'
                <= IF Flushes(q) /\ ~Asked THEN 1 ELSE 0
          BY <1>4
        <5> QED BY <5>2, <5>3
      <4> QED BY <4>1, <4>2
    <3>2. \A w : 0 <= IF w THEN 1 ELSE 0
      OBVIOUS
    <3> QED BY <1>4, <3>1, <3>2 DEF AnswerOK, AnsweredOnce
  <2>7. StateOK'
    <3>1. m_state = "Executing" /\ m_port_enabled["in"] /\ m_port_enabled["out"]
      BY <1>2 DEF StateOK, Reconfigures
    <3>2. Carried("StateSet", "Idle")' = 0
      BY <1>1, <1>4, ZeroUnder
    <3> QED BY <1>2, <2>1, <2>5, <3>1, <3>2 DEF StateOK
  <2>8. FlushOK'
    <3>1. InputFlushes' = InputFlushes
      BY <2>5 DEF InputFlushes
    <3>2. InputFlushes' <= InputFlushes
      BY <3>1, InputFlushesNat
    <3>3. ~Stopping /\ ~Stopping' /\ ~Disabling
      BY <1>2, <2>1 DEF Stopping, Disabling, Reconfigures
    <3>4. toFlush = {}
      BY <3>3 DEF FlushOK
    <3> QED BY <1>1, <1>2, <2>1, <2>5, <3>2, <3>3, <3>4, FlushSame
  <2> QED BY <2>2, <2>3, <2>4, <2>6, <2>7, <2>8
<1> QED BY <1>6, <1>7

LEMMA OnComponentPhase ==
    ASSUME CodecInv, PhaseInv, OnComponent
    PROVE  PhaseInv'
BY EmptyDonePhase, FillDonePhase, SettingsPhase, LoadedToIdleDonePhase,
   IdleToExecutingDonePhase, OutputPortDisabledPhase, OutputPortEnabledPhase,
   ExecutingToIdleDonePhase, IdleToLoadedDonePhase, PortFlushedPhase
   DEF OnComponent, OnCmdComplete

-------------------------------------------------------------------------------
(* The calls.  The first is made; the rest find what they need as before.  *)
LEMMA TailAsked ==
    ASSUME CodecInv, CallsOK, calls # <<>>, calls' = Tail(calls)
    PROVE  ~Asked'
<1>1. /\ Len(calls) \in Nat \ {0} /\ Len(calls') = Len(calls) - 1
      /\ calls' \in Seq(CallType)
      /\ \A i \in 1..(Len(calls) - 1) :
           /\ calls'[i] = calls[i + 1] /\ i + 1 \in 1..Len(calls)
           /\ calls[i + 1].op # "sem_wait" /\ i + 1 # 1
  BY HeadCall
<1>2. calls' # <<>> => /\ Head(calls') = calls'[1]
                       /\ 1 \in 1..(Len(calls) - 1)
  BY <1>1, EmptySeq
<1>3. \A i \in 1..Len(calls) : calls[i].op = "send" => i = 1
  BY DEF CallsOK, CallsOf
<1> QED BY <1>1, <1>2, <1>3 DEF Asked

LEMMA TailCalls ==
    ASSUME CodecInv, CallsOK, calls # <<>>, calls' = Tail(calls), ~Asked,
           UNCHANGED <<acodec, mActive, m_port_enabled>>,
           \A b \in Bufs :
             \/ Head(calls).op \in BufOps /\ b = Head(calls).x
             \/ /\ mStatus'[b] = mStatus[b]
                /\ b \in Owned(PortOf(b)) => b \in Owned(PortOf(b))'
    PROVE  CallsOK'
<1>1. /\ Len(calls) \in Nat \ {0} /\ Len(calls') = Len(calls) - 1
      /\ Head(calls) = calls[1]
      /\ \A i \in 1..(Len(calls) - 1) :
           /\ calls'[i] = calls[i + 1] /\ i + 1 \in 1..Len(calls)
           /\ calls[i + 1].op # "sem_wait" /\ i + 1 # 1
  BY HeadCall
<1>2. ~Asked'
  BY TailAsked
<1>3. /\ Reconfigures' <=> Reconfigures
      /\ Enabling' <=> Enabling
      /\ Disabling' <=> Disabling
  BY <1>2 DEF Reconfigures, Enabling, Disabling
<1>4. 1 \in 1..Len(calls)
  BY <1>1
<1>5. ASSUME NEW i \in 1..Len(calls') PROVE CallsOf(i)'
  <2>1. i \in 1..(Len(calls) - 1)
    BY <1>1
  <2>2. /\ calls'[i] = calls[i + 1] /\ i + 1 \in 1..Len(calls) /\ i + 1 # 1
        /\ CallsOf(i + 1)
    BY <1>1, <2>1 DEF CallsOK
  <2>3. PICK op, b : op = calls'[i].op /\ b = calls'[i].x
    OBVIOUS
  <2>4. op # "send"
    BY <2>2, <2>3 DEF CallsOf
  <2>5. op # "empty"
    <3>1. Len(calls) # 1
      BY <1>1, <2>1
    <3> QED BY <2>2, <2>3, <3>1 DEF CallsOf
  <2>6. ASSUME op \in BufOps
        PROVE  /\ Fits(op, b)'
               /\ \A j \in 1..Len(calls') :
                    calls'[j].op \in BufOps /\ calls'[j].x = b => j = i
    <3>1. /\ Fits(op, b)
          /\ \A j \in 1..Len(calls) :
               calls[j].op \in BufOps /\ calls[j].x = b => j = i + 1
      <4> HIDE DEF Fits
      <4> QED BY <2>2, <2>3, <2>6 DEF CallsOf
    <3>2. ~(calls[1].op \in BufOps /\ b = calls[1].x)
      BY <1>4, <2>2, <3>1
    <3>3. b \in Bufs
      <4>1. calls[i + 1] \in CallType
        BY <2>2 DEF CodecInv, CallOK
      <4> QED BY <2>2, <2>3, <2>6, <4>1 DEF CallType
    <3>4. /\ mStatus'[b] = mStatus[b]
          /\ b \in Owned(PortOf(b)) => b \in Owned(PortOf(b))'
      BY <1>1, <3>2, <3>3
    <3>5. Fits(op, b)'
      BY <1>3, <3>1, <3>4 DEF Fits
    <3>6. ASSUME NEW j \in 1..Len(calls'), calls'[j].op \in BufOps,
                 calls'[j].x = b
          PROVE  j = i
      <4>1. j \in 1..(Len(calls) - 1)
        BY <1>1
      <4>2. calls'[j] = calls[j + 1] /\ j + 1 \in 1..Len(calls)
        BY <1>1, <4>1
      <4>3. j + 1 = i + 1
        BY <3>1, <3>6, <4>2
      <4> QED BY <4>3
    <3> QED BY <3>5, <3>6
  <2> HIDE DEF Fits
  <2> QED BY <2>3, <2>4, <2>5, <2>6 DEF CallsOf
<1> QED BY <1>5 DEF CallsOK

(* A call clears at most one pending bit, and posts the answer the bit     *)
(* stood for.                                                              *)
Row(c, a, f, q) ==
    \/ c = "StateSet" /\ a = "Idle" /\ f = "IDLE" /\ q = "all"
    \/ c = "StateSet" /\ a = "Loaded" /\ f = "LOADING" /\ q = "all"
    \/ c = "PortDisable" /\ a = "out" /\ f = "DISABLE" /\ q = "out"
    \/ c = "PortEnable" /\ a = "out" /\ f = "ENABLE" /\ q = "out"

Clears(c, a, f, q) ==
    /\ Row(c, a, f, q)
    /\ \/ m_flags' = m_flags /\ ev'.cmd = ev.cmd
       \/ /\ <<f, q>> \in m_flags /\ m_flags' = m_flags \ {<<f, q>>}
          /\ ev'.cmd = Append(ev.cmd, DoneEntry(c, a))
          /\ c = "StateSet" /\ a = "Idle" => acodec = "LoadedToIdle"

LEMMA ClearsHits ==
    ASSUME CodecInv, NEW c, NEW a, NEW f, NEW q, Clears(c, a, f, q),
           ev'.cmd # ev.cmd
    PROVE  /\ DoneEntry(c, a) \in KnownEntry /\ <<f, q>> \in m_flags
           /\ m_flags' = m_flags \ {<<f, q>>}
           /\ ev'.cmd = Append(ev.cmd, DoneEntry(c, a))
           /\ \A T : Hits(ev'.cmd, T) = Hits(ev.cmd, T)
                        + (IF DoneEntry(c, a) \in T THEN 1 ELSE 0)
           /\ \A id : id # "COMMAND_DONE" =>
                /\ DoneEntry(c, a) \notin EntriesOf(id)
                /\ Hits(ev'.cmd, EntriesOf(id)) = Hits(ev.cmd, EntriesOf(id))
<1>1. /\ <<f, q>> \in m_flags /\ m_flags' = m_flags \ {<<f, q>>}
      /\ ev'.cmd = Append(ev.cmd, DoneEntry(c, a))
      /\ Row(c, a, f, q)
  BY DEF Clears
<1>2. PICK e : e = DoneEntry(c, a)
  OBVIOUS
<1>3. e \in KnownEntry /\ e \in CmdEntry /\ e.id = "COMMAND_DONE"
  BY <1>1, <1>2 DEF DoneEntry, Entry, KnownEntry, CmdEntry, Row, Names, Args,
                    States, Ports, Ids, DoneAnswers, PortAnswers
<1>4. ev.cmd \in Seq(CmdEntry)
  BY UnderFacts
<1>5. \A T : Hits(ev'.cmd, T) = Hits(ev.cmd, T) + (IF e \in T THEN 1 ELSE 0)
  BY <1>1, <1>2, <1>3, <1>4, HitsAppend
<1>6. ASSUME NEW id, id # "COMMAND_DONE"
      PROVE  /\ e \notin EntriesOf(id)
             /\ Hits(ev'.cmd, EntriesOf(id)) = Hits(ev.cmd, EntriesOf(id))
  <2>1. e \notin EntriesOf(id)
    BY <1>3, <1>6 DEF EntriesOf
  <2>2. PICK T : T = EntriesOf(id)
    OBVIOUS
  <2>3. Hits(ev'.cmd, T) = Hits(ev.cmd, T) + 0 /\ Hits(ev.cmd, T) \in Nat
    BY <1>5, <2>1, <2>2, UnderFacts
  <2> QED BY <2>1, <2>2, <2>3
<1> QED BY <1>1, <1>2, <1>3, <1>5, <1>6

LEMMA ClearsUnder ==
    ASSUME CodecInv, CodecInv', NEW c, NEW a, NEW f, NEW q, Clears(c, a, f, q),
           cb' = cb, NEW d, NEW b, NEW g, NEW r, d = c /\ b = a => g = f /\ r = q
    PROVE  Under(d, b, g, r)' <= Under(d, b, g, r)
<1>1. Told(d, b)' = Told(d, b)
  BY DEF Told
<1>2. /\ Carried(d, b) \in Nat /\ Told(d, b) \in Nat /\ Bit(g, r) \in {0, 1}
      /\ Carried(d, b)' \in Nat /\ Bit(g, r)' \in {0, 1}
  BY UnderFacts, UnderFactsNext
<1>3. CASE ev'.cmd = ev.cmd
  <2>1. Carried(d, b)' = Carried(d, b)
    BY <1>3 DEF Carried
  <2>2. m_flags' \subseteq m_flags
    BY DEF Clears
  <2>3. Bit(g, r)' <= Bit(g, r)
    BY <2>2 DEF Bit
  <2> HIDE DEF Carried, Told, Bit
  <2> QED BY <1>1, <1>2, <2>1, <2>3 DEF Under
<1>4. CASE ev'.cmd # ev.cmd
  <2>1. PICK e, T : e = DoneEntry(c, a) /\ T = {DoneEntry(d, b)}
    OBVIOUS
  <2>2. Hits(ev'.cmd, T) = Hits(ev.cmd, T) + (IF e \in T THEN 1 ELSE 0)
    BY <1>4, <2>1, ClearsHits
  <2>3. Carried(d, b) = Hits(ev.cmd, T) /\ Carried(d, b)' = Hits(ev'.cmd, T)
    BY <2>1 DEF Carried, Occurs
  <2>4. <<f, q>> \in m_flags /\ m_flags' = m_flags \ {<<f, q>>}
    BY <1>4, ClearsHits
  <2>5. CASE d = c /\ b = a
    <3>1. Bit(g, r) = 1 /\ Bit(g, r)' = 0
      BY <2>4, <2>5 DEF Bit
    <3>2. Carried(d, b)' = Carried(d, b) + 1
      BY <2>1, <2>2, <2>3, <2>5
    <3> HIDE DEF Carried, Told, Bit
    <3> QED BY <1>1, <1>2, <3>1, <3>2 DEF Under
  <2>6. CASE ~(d = c /\ b = a)
    <3>1. e \notin T
      BY <2>1, <2>6 DEF DoneEntry, Entry
    <3>2. Carried(d, b)' = Carried(d, b) + 0
      BY <2>2, <2>3, <3>1
    <3>3. Bit(g, r)' <= Bit(g, r)
      BY <2>4 DEF Bit
    <3> HIDE DEF Carried, Told, Bit
    <3> QED BY <1>1, <1>2, <3>2, <3>3 DEF Under
  <2> QED BY <2>5, <2>6
<1> QED BY <1>3, <1>4

LEMMA ClearsAnswers ==
    ASSUME CodecInv, CodecInv', AnswerOK, ~Asked, ~Asked',
           NEW c, NEW a, NEW f, NEW q, Clears(c, a, f, q),
           UNCHANGED <<m_port_enabled, cb, acodec, mComponentNowIdle,
                       mFlushComplete>>
    PROVE  AnswerOK'
<1>1. Row(c, a, f, q)
  BY DEF Clears
<1>2. Under("StateSet", "Idle", "IDLE", "all")'
        <= Under("StateSet", "Idle", "IDLE", "all")
  <2>1. c = "StateSet" /\ a = "Idle" => f = "IDLE" /\ q = "all"
    BY <1>1 DEF Row
  <2> QED BY <2>1, ClearsUnder
<1>3. Under("StateSet", "Executing", "EXECUTE", "all")'
        <= Under("StateSet", "Executing", "EXECUTE", "all")
  <2>1. ~(c = "StateSet" /\ a = "Executing")
    BY <1>1 DEF Row
  <2> QED BY <2>1, ClearsUnder
<1>4. Under("StateSet", "Loaded", "LOADING", "all")'
        <= Under("StateSet", "Loaded", "LOADING", "all")
  <2>1. c = "StateSet" /\ a = "Loaded" => f = "LOADING" /\ q = "all"
    BY <1>1 DEF Row
  <2> QED BY <2>1, ClearsUnder
<1>5. Under("PortDisable", "out", "DISABLE", "out")'
        <= Under("PortDisable", "out", "DISABLE", "out")
  <2>1. c = "PortDisable" /\ a = "out" => f = "DISABLE" /\ q = "out"
    BY <1>1 DEF Row
  <2> QED BY <2>1, ClearsUnder
<1>6. Under("PortEnable", "out", "ENABLE", "out")'
        <= Under("PortEnable", "out", "ENABLE", "out")
  <2>1. c = "PortEnable" /\ a = "out" => f = "ENABLE" /\ q = "out"
    BY <1>1 DEF Row
  <2> QED BY <2>1, ClearsUnder
<1>7. ASSUME NEW p \in Ports
      PROVE  Under("Flush", p, "FLUSH", p)' <= Under("Flush", p, "FLUSH", p)
  <2>1. ~(c = "Flush" /\ a = p)
    BY <1>1 DEF Row
  <2> QED BY <2>1, ClearsUnder
<1> QED BY <1>2, <1>3, <1>4, <1>5, <1>6, <1>7, AnswerStep

LEMMA ClearsPhase ==
    ASSUME CodecInv, CodecInv', PhaseInv, ~Asked, ~Asked',
           NEW c, NEW a, NEW f, NEW q, Clears(c, a, f, q),
           UNCHANGED <<m_state, m_port_enabled, m_port_flushing, toFlush,
                       flushReq, msgs, cb, acodec, mComponentNowIdle,
                       mFlushComplete>>,
           CallsOK', BuffersOK'
    PROVE  PhaseInv'
<1>1. Row(c, a, f, q) /\ m_flags' \subseteq m_flags
      /\ \A g, r : <<g, r>> \in m_flags /\ <<g, r>> \notin m_flags' =>
           g = f /\ r = q
  BY DEF Clears
<1>2. PICK e : e = DoneEntry(c, a)
  OBVIOUS
<1>3. e \in KnownEntry /\ e \in CmdEntry /\ e.id = "COMMAND_DONE"
  BY <1>1, <1>2 DEF DoneEntry, Entry, KnownEntry, CmdEntry, Row, Names, Args,
                    States, Ports, Ids, DoneAnswers, PortAnswers
<1>4. \A id : id # "COMMAND_DONE" =>
         Hits(ev'.cmd, EntriesOf(id)) = Hits(ev.cmd, EntriesOf(id))
  <2>1. CASE ev'.cmd = ev.cmd
    BY <2>1
  <2>2. CASE ev'.cmd # ev.cmd
    BY <2>2, ClearsHits
  <2> QED BY <2>1, <2>2
<1>5. \A d, b : Told(d, b)' = Told(d, b)
  BY DEF Told
<1>6. AnswerOK'
  BY ClearsAnswers DEF PhaseInv
<1>7. KnownOK'
  <2>1. ev'.cmd = ev.cmd \/ ev'.cmd = Append(ev.cmd, e)
    BY <1>2 DEF Clears
  <2>2. KnownOK /\ cb' \in Seq(KnownCallback) /\ e.id # "COMMAND"
    BY <1>3 DEF PhaseInv, KnownOK
  <2> QED BY <1>1, <1>3, <2>1, <2>2, KnownSame
<1>8. StateOK'
  <2>1. Carried("StateSet", "Idle")' > 0 => acodec = "LoadedToIdle"
    <3>1. CASE ev'.cmd = ev.cmd
      <4>1. Carried("StateSet", "Idle")' = Carried("StateSet", "Idle")
        BY <3>1 DEF Carried
      <4> QED BY <4>1 DEF PhaseInv, StateOK
    <3>2. CASE ev'.cmd # ev.cmd /\ c = "StateSet" /\ a = "Idle"
      BY <3>2 DEF Clears
    <3>3. CASE ev'.cmd # ev.cmd /\ ~(c = "StateSet" /\ a = "Idle")
      <4>1. PICK T : T = {DoneEntry("StateSet", "Idle")}
        OBVIOUS
      <4>2. e \notin T
        BY <1>2, <3>3, <4>1 DEF DoneEntry, Entry
      <4>3. Hits(ev'.cmd, T) = Hits(ev.cmd, T) + 0 /\ Hits(ev.cmd, T) \in Nat
        BY <1>2, <3>3, <4>2, ClearsHits, UnderFacts
      <4>4. Carried("StateSet", "Idle")' = Carried("StateSet", "Idle")
        BY <4>1, <4>3 DEF Carried, Occurs
      <4> QED BY <4>4 DEF PhaseInv, StateOK
    <3> QED BY <3>1, <3>2, <3>3
  <2>2. Reconfigures' <=> Reconfigures
    BY DEF Reconfigures
  <2> HIDE DEF Carried, Told
  <2> QED BY <1>5, <2>1, <2>2 DEF PhaseInv, StateOK
<1>9. FlushOK'
  <2>1. <<"FLUSH", "in">> \in m_flags => <<"FLUSH", "in">> \in m_flags'
    BY <1>1 DEF Row
  <2>2. Stopping /\ <<"IDLE", "all">> \in m_flags =>
          <<"IDLE", "all">> \in m_flags'
    <3>1. <<"IDLE", "all">> \in m_flags /\ <<"IDLE", "all">> \notin m_flags' =>
            f = "IDLE"
      BY <1>1
    <3>2. f = "IDLE" => c = "StateSet" /\ a = "Idle"
      BY <1>1 DEF Row
    <3>3. m_flags' # m_flags /\ c = "StateSet" /\ a = "Idle" =>
            acodec = "LoadedToIdle"
      BY DEF Clears
    <3> QED BY <3>1, <3>2, <3>3 DEF Stopping
  <2>3. InputFlushes' = InputFlushes
    BY <1>4 DEF InputFlushes
  <2>4. InputFlushes' <= InputFlushes
    BY <2>3, InputFlushesNat
  <2>5. FlushOK /\ (Asked' <=> Asked)
        /\ Told("PortDisable", "out")' = Told("PortDisable", "out")
    BY <1>5 DEF PhaseInv
  <2> QED BY <2>1, <2>2, <2>4, <2>5, FlushSame
<1>10. StopOK'
  <2>1. /\ Hits(ev'.cmd, EntriesOf("STOP_DONE"))
             = Hits(ev.cmd, EntriesOf("STOP_DONE"))
        /\ Hits(ev'.cmd, EntriesOf("FLUSH_INPUT_DONE"))
             = Hits(ev.cmd, EntriesOf("FLUSH_INPUT_DONE"))
    BY <1>4
  <2>2. StopFirst(ev'.cmd, EntriesOf("STOP_DONE"),
                  EntriesOf("FLUSH_INPUT_DONE"))
    <3>1. PICK A, B : A = EntriesOf("STOP_DONE")
                      /\ B = EntriesOf("FLUSH_INPUT_DONE")
      OBVIOUS
    <3>2. StopFirst(ev.cmd, A, B) /\ e \notin A /\ ev.cmd \in Seq(CmdEntry)
      BY <1>3, <3>1, UnderFacts DEF PhaseInv, StopOK, EntriesOf
    <3>3. StopFirst(Append(ev.cmd, e), A, B)
      BY <1>3, <3>2, StopFirstAppend
    <3>4. ev'.cmd = ev.cmd \/ ev'.cmd = Append(ev.cmd, e)
      BY <1>2 DEF Clears
    <3> QED BY <3>1, <3>2, <3>3, <3>4
  <2> QED BY <2>1, <2>2 DEF PhaseInv, StopOK
<1> QED BY <1>6, <1>7, <1>8, <1>9, <1>10 DEF PhaseInv

-------------------------------------------------------------------------------
(* The calls that clear no bit.                                            *)
LEMMA QuietPhase ==
    ASSUME CodecInv, CodecInv', PhaseInv, ~Asked, calls # <<>>,
           calls' = Tail(calls), ev'.cmd = ev.cmd,
           UNCHANGED <<m_state, m_flags, m_port_enabled, m_port_flushing,
                       m_cur_buf_num, toFlush, flushReq, msgs, cb, acodec,
                       mActive, mComponentNowIdle, mFlushComplete, mBuffers>>,
           CallsOK',
           Inactive => mStatus' = mStatus,
           Enabling => \A b \in OutBufs : mStatus'[b] = mStatus[b],
           \A b \in Bufs : mStatus'[b] # "US" => b \in Owned(PortOf(b)),
           \A b \in OutBufs : mStatus'[b] # "UPSTREAM"
    PROVE  PhaseInv'
<1>1. CallsOK
  BY DEF PhaseInv
<1>2. ~Asked'
  BY <1>1, TailAsked
<1>3. Clears("StateSet", "Idle", "IDLE", "all")
  BY DEF Clears, Row
<1>4. BuffersOK'
  <2>1. /\ Disabling' <=> Disabling
        /\ Enabling' <=> Enabling
        /\ Reconfigures' <=> Reconfigures
    BY <1>2, PhaseKept
  <2>2. Inactive' <=> Inactive
    BY <2>1 DEF Inactive
  <2>3. \A p : Owned(p)' = Owned(p)
    BY DEF Owned
  <2>4. Inactive => allYourBuffersAreBelongToUs'
    BY <2>3 DEF PhaseInv, BuffersOK, allYourBuffersAreBelongToUs
  <2>5. Enabling => \A b \in Owned("out") : mStatus'[b] = "US"
    <3>1. Owned("out") \subseteq OutBufs
      BY BuffersFacts DEF Ports, BufsOf
    <3> QED BY <3>1 DEF PhaseInv, BuffersOK
  <2> QED BY <1>2, <2>1, <2>2, <2>3, <2>4, <2>5 DEF PhaseInv, BuffersOK
<1> QED BY <1>2, <1>3, <1>4, ClearsPhase

LEMMA NothingAsked ==
    ASSUME CodecInv, calls # <<>>, Head(calls).op \in BufOps
    PROVE  ~Asked
BY DEF Asked, BufOps

LEMMA PassOverPhase ==
    ASSUME CodecInv, PhaseInv, PassOver
    PROVE  PhaseInv'
<1>1. CodecInv'
  BY PassOverStep
<1>2. /\ calls # <<>> /\ Head(calls).op = "free_not_owned"
      /\ calls' = Tail(calls)
      /\ UNCHANGED <<compVars, acodec, callVars, modeVars, mDeferredQueue,
                     userVars>>
  BY DEF PassOver, Makes
<1>3. /\ UNCHANGED <<m_state, m_flags, m_port_enabled, m_port_flushing,
                     m_cur_buf_num, toFlush, flushReq, msgs, cb, acodec,
                     mActive, mComponentNowIdle, mFlushComplete, mBuffers>>
      /\ ev'.cmd = ev.cmd /\ mStatus' = mStatus
  BY <1>2 DEF compVars, portVars, headVars, drvVars, callVars, modeVars
<1>4. ~Asked
  BY <1>2, NothingAsked DEF BufOps
<1>5. \A p : Owned(p)' = Owned(p)
  BY <1>3 DEF Owned
<1>6. CallsOK'
  BY <1>2, <1>3, <1>4, <1>5, TailCalls DEF PhaseInv
<1>7. /\ \A b \in Bufs : mStatus[b] # "US" => b \in Owned(PortOf(b))
      /\ \A b \in OutBufs : mStatus[b] # "UPSTREAM"
  BY DEF PhaseInv, BuffersOK
<1> QED BY <1>1, <1>2, <1>3, <1>4, <1>6, <1>7, QuietPhase

LEMMA CommandTakenPhase ==
    ASSUME CodecInv, PhaseInv, CommandTaken
    PROVE  PhaseInv'
<1>1. CodecInv'
  BY CommandTakenByClient
<1>2. /\ calls # <<>> /\ Head(calls).op = "sem_wait" /\ m_cmd_lock > 0
      /\ calls' = Tail(calls)
      /\ UNCHANGED <<m_state, m_flags, portVars, headVars, ev, toFlush, drvVars,
                     cb, acodec, callVars, modeVars, mDeferredQueue, userVars>>
  BY DEF CommandTaken, Makes
<1>3. /\ UNCHANGED <<m_state, m_flags, m_port_enabled, m_port_flushing,
                     m_cur_buf_num, toFlush, flushReq, msgs, cb, acodec,
                     mActive, mComponentNowIdle, mFlushComplete, mBuffers>>
      /\ ev'.cmd = ev.cmd /\ mStatus' = mStatus
  BY <1>2 DEF portVars, headVars, drvVars, callVars, modeVars
<1>4. ~Asked
  <2>1. m_cmd_lock # 0
    BY <1>2, Typing
  <2> QED BY <1>2, <2>1 DEF Asked
<1>5. \A p : Owned(p)' = Owned(p)
  BY <1>3 DEF Owned
<1>6. CallsOK'
  BY <1>2, <1>3, <1>4, <1>5, TailCalls DEF PhaseInv
<1>7. /\ \A b \in Bufs : mStatus[b] # "US" => b \in Owned(PortOf(b))
      /\ \A b \in OutBufs : mStatus[b] # "UPSTREAM"
  BY DEF PhaseInv, BuffersOK
<1> QED BY <1>1, <1>2, <1>3, <1>4, <1>6, <1>7, QuietPhase

(* What the first call finds.                                              *)
LEMMA HeadFits ==
    ASSUME CodecInv, CallsOK, calls # <<>>, Head(calls).op \in BufOps
    PROVE  /\ Fits(Head(calls).op, Head(calls).x) /\ Head(calls).x \in Bufs
           /\ Head(calls).op = "fill" => Head(calls).x \in OutBufs
           /\ Head(calls).op = "empty" => /\ Head(calls).x \in InBufs
                                          /\ Len(calls) = 1
<1>1. Len(calls) \in Nat \ {0} /\ Head(calls) = calls[1] /\ calls[1] \in CallType
  BY HeadCall
<1>2. CallsOf(1)
  BY <1>1 DEF CallsOK
<1>3. /\ Fits(calls[1].op, calls[1].x)
      /\ calls[1].op = "empty" => Len(calls) = 1
  <2> HIDE DEF Fits
  <2> QED BY <1>1, <1>2 DEF CallsOf
<1>4. /\ calls[1].x \in Bufs
      /\ calls[1].op = "fill" => calls[1].x \in OutBufs
      /\ calls[1].op = "empty" => calls[1].x \in InBufs
  BY <1>1 DEF CallType
<1> HIDE DEF Fits
<1> QED BY <1>1, <1>3, <1>4

LEMMA FillPhase ==
    ASSUME CodecInv, PhaseInv, FillBuffer
    PROVE  PhaseInv'
<1>1. CodecInv'
  BY FillBufferStep
<1>2. /\ calls # <<>> /\ Head(calls).op = "fill" /\ SubmitOk(Head(calls).x)
      /\ ev' = post_event(ev, "FTB", Head(calls).x, "empty")
      /\ mStatus' = [mStatus EXCEPT ![Head(calls).x] = "COMPONENT"]
      /\ calls' = Tail(calls)
      /\ UNCHANGED <<m_state, m_flags, portVars, headVars, m_cmd_lock, toFlush,
                     drvVars, cb, acodec, mBuffers, modeVars, mDeferredQueue,
                     userVars>>
  BY DEF FillBuffer, Makes
<1>3. UNCHANGED <<m_state, m_flags, m_port_enabled, m_port_flushing,
                  m_cur_buf_num, toFlush, flushReq, msgs, cb, acodec,
                  mActive, mComponentNowIdle, mFlushComplete, mBuffers>>
  BY <1>2 DEF portVars, headVars, drvVars, modeVars
<1>4. CallsOK /\ Head(calls).op \in BufOps
  BY <1>2 DEF PhaseInv, BufOps
<1>5. PICK b \in OutBufs : b = Head(calls).x
  BY <1>2, <1>4, HeadFits
<1>6. acodec = "Executing" /\ mActive /\ b \in Owned(PortOf(b)) /\ b \in Bufs
  <2>1. Fits("fill", b)
    <3> HIDE DEF Fits
    <3> QED BY <1>2, <1>4, <1>5, HeadFits
  <2> QED BY <1>4, <1>5, <2>1 DEF Fits, BufOps, Bufs
<1>7. ev'.cmd = ev.cmd
  <2>1. PICK p \in Ports : p = "out" /\ b \in BufsOf(p) /\ This(p) = "FTB"
    BY DEF Ports, BufsOf, This
  <2> QED BY <1>2, <1>5, <2>1, Typing, PostBuffer
<1>8. ~Asked
  BY <1>2, <1>4, NothingAsked
<1>9. \A p : Owned(p)' = Owned(p)
  BY <1>3 DEF Owned
<1>10. /\ mStatus'[b] = "COMPONENT"
       /\ \A c \in Bufs : c # b => mStatus'[c] = mStatus[c]
  BY <1>2, <1>5, <1>6, CodecTyping
<1>11. CallsOK'
  BY <1>2, <1>3, <1>4, <1>5, <1>8, <1>9, <1>10, TailCalls
<1>12. ~Inactive /\ ~Enabling
  BY <1>6 DEF Inactive, Enabling, Reconfigures
<1>13. /\ \A c \in Bufs : mStatus'[c] # "US" => c \in Owned(PortOf(c))
       /\ \A c \in OutBufs : mStatus'[c] # "UPSTREAM"
  BY <1>6, <1>10 DEF PhaseInv, BuffersOK, Bufs
<1> QED BY <1>1, <1>2, <1>3, <1>7, <1>8, <1>11, <1>12, <1>13, QuietPhase

(* Asking for input changes only input buffers that ACodec has.            *)
LEMMA MoreInputOwned ==
    ASSUME CodecInv, NEW b \in InBufs, b \in Owned("in"),
           mStatus' = getMoreInputDataIfPossible(
                        [mStatus EXCEPT ![b] = "COMPONENT"])
    PROVE  \A c \in Bufs : c \in Owned("in") \/ mStatus'[c] = mStatus[c]
<1>1. PICK s : s = [mStatus EXCEPT ![b] = "COMPONENT"]
  OBVIOUS
<1>2. mStatus \in [Bufs -> {"US", "COMPONENT", "UPSTREAM", "DOWNSTREAM"}]
  BY CodecTyping
<1>3. /\ s \in [Bufs -> {"US", "COMPONENT", "UPSTREAM", "DOWNSTREAM"}]
      /\ \A c \in Bufs : c # b => s[c] = mStatus[c]
  BY <1>1, <1>2 DEF Bufs
<1>4. PICK ours : ours = {i \in 1..Len(mBuffers["in"]) :
                            s[mBuffers["in"][i]] = "US"}
  OBVIOUS
<1>5. mStatus' = IF ours = {} THEN s
                 ELSE [s EXCEPT ![mBuffers["in"][Max(ours)]] = "UPSTREAM"]
  BY <1>1, <1>4 DEF getMoreInputDataIfPossible
<1>6. CASE ours = {}
  BY <1>3, <1>5, <1>6
<1>7. CASE ours # {}
  <2>1. Len(mBuffers["in"]) \in Nat
    BY BuffersFacts DEF Ports
  <2>2. Max(ours) \in ours
    BY <1>4, <1>7, <2>1, MaxFacts
  <2>3. PICK d : d = mBuffers["in"][Max(ours)]
    OBVIOUS
  <2>4. d \in Owned("in")
    BY <1>4, <2>2, <2>3 DEF Owned, Entries
  <2>5. \A c \in Bufs : c # d => mStatus'[c] = s[c]
    BY <1>3, <1>5, <1>7, <2>3
  <2> QED BY <1>3, <2>4, <2>5
<1> QED BY <1>6, <1>7

LEMMA EmptyPhase ==
    ASSUME CodecInv, PhaseInv, EmptyBuffer
    PROVE  PhaseInv'
<1>1. CodecInv'
  BY EmptyBufferStep
<1>2. /\ calls # <<>> /\ Head(calls).op = "empty" /\ SubmitOk(Head(calls).x)
      /\ ev' = post_event(ev, "ETB", Head(calls).x, "data")
      /\ mStatus' = getMoreInputDataIfPossible(
                      [mStatus EXCEPT ![Head(calls).x] = "COMPONENT"])
      /\ calls' = Tail(calls)
      /\ UNCHANGED <<m_state, m_flags, portVars, headVars, m_cmd_lock, toFlush,
                     drvVars, cb, acodec, mBuffers, modeVars, mDeferredQueue,
                     userVars>>
  BY DEF EmptyBuffer, Makes
<1>3. UNCHANGED <<m_state, m_flags, m_port_enabled, m_port_flushing,
                  m_cur_buf_num, toFlush, flushReq, msgs, cb, acodec,
                  mActive, mComponentNowIdle, mFlushComplete, mBuffers>>
  BY <1>2 DEF portVars, headVars, drvVars, modeVars
<1>4. CallsOK /\ Head(calls).op \in BufOps
  BY <1>2 DEF PhaseInv, BufOps
<1>5. PICK b \in InBufs : b = Head(calls).x
  BY <1>2, <1>4, HeadFits
<1>6. /\ acodec = "Executing" \/ Reconfigures
      /\ mActive /\ b \in Owned("in")
  <2>1. Fits("empty", b)
    <3> HIDE DEF Fits
    <3> QED BY <1>2, <1>4, <1>5, HeadFits
  <2> QED BY <1>5, <2>1 DEF Fits, BufOps, PortOf
<1>7. ev'.cmd = ev.cmd
  <2>1. PICK p \in Ports : p = "in" /\ b \in BufsOf(p) /\ This(p) = "ETB"
    BY DEF Ports, BufsOf, This
  <2> QED BY <1>2, <1>5, <2>1, Typing, PostBuffer
<1>8. ~Asked
  BY <1>2, <1>4, NothingAsked
<1>9. Len(calls') = 0
  BY <1>2, <1>4, HeadFits, HeadCall
<1>10. CallsOK'
  BY <1>9 DEF CallsOK
<1>11. ~Inactive
  BY <1>6 DEF Inactive, Reconfigures
<1>12. \A c \in Bufs : c \in Owned("in") \/ mStatus'[c] = mStatus[c]
  BY <1>2, <1>5, <1>6, MoreInputOwned
<1>13. /\ \A c \in OutBufs : c \in Bufs /\ c \notin Owned("in")
       /\ \A c \in Owned("in") : PortOf(c) = "in"
  <2>1. Owned("in") \subseteq InBufs
    BY BuffersFacts DEF Ports, BufsOf
  <2> QED BY <2>1, ComponentAssumption DEF Bufs, PortOf
<1>14. \A c \in OutBufs : mStatus'[c] = mStatus[c]
  BY <1>12, <1>13
<1>15. /\ \A c \in Bufs : mStatus'[c] # "US" => c \in Owned(PortOf(c))
       /\ \A c \in OutBufs : mStatus'[c] # "UPSTREAM"
  BY <1>12, <1>13, <1>14 DEF PhaseInv, BuffersOK
<1> QED BY <1>1, <1>2, <1>3, <1>7, <1>8, <1>10, <1>11, <1>14, <1>15, QuietPhase

-------------------------------------------------------------------------------
(* The calls that fill or empty a port.                                    *)
Uses(b, p) ==
    /\ calls # <<>> /\ Head(calls).op = "use" /\ calls' = Tail(calls)
    /\ b \in Bufs /\ p \in Ports /\ b \in BufsOf(p) /\ b \notin Owned(p)
    /\ UNCHANGED <<m_state, m_port_enabled, m_port_flushing, toFlush, flushReq,
                   msgs, cb, acodec, mActive, mComponentNowIdle,
                   mFlushComplete>>
    /\ Owned(p)' = Owned(p) \cup {b}
    /\ \A q \in Ports : q # p => Owned(q)' = Owned(q)
    /\ m_cur_buf_num[p] < max_count(p)
    /\ \A q \in Ports : q # p => m_cur_buf_num'[q] = m_cur_buf_num[q]
    /\ mStatus'[b] = "US"
    /\ \A c \in Bufs : c # b => mStatus'[c] = mStatus[c]
    /\ m_flags' = m_flags \ UseClears(b)
    /\ ev' = PostIf(<<"IDLE", "all">> \in UseClears(b),
                    PostIf(<<"ENABLE", p>> \in UseClears(b), ev,
                           "PortEnable", p),
                    "StateSet", "Idle")
    /\ UseClears(b) = {f \in m_flags :
          \/ f = <<"ENABLE", p>> /\ m_cur_buf_num'[p] = max_count(p)
          \/ /\ f = <<"IDLE", "all">>
             /\ \A q \in Ports : m_cur_buf_num'[q] = max_count(q)}

LEMMA UseFacts ==
    ASSUME CodecInv, UseBuffer, NEW b, b = Head(calls).x, NEW p, p = PortOf(b)
    PROVE  Uses(b, p)
<1>1. /\ calls # <<>> /\ Head(calls).op = "use" /\ calls' = Tail(calls)
      /\ UseAccepted(b) /\ use_buffer(b)
      /\ mBuffers' = [mBuffers EXCEPT ![p] = Append(@, b)]
      /\ mStatus' = [mStatus EXCEPT ![b] = "US"]
      /\ UNCHANGED <<m_state, portVars, m_cmd_lock, toFlush, drvVars, cb,
                     acodec, modeVars, mDeferredQueue, userVars>>
  BY DEF UseBuffer, Makes
<1>2. /\ Len(calls) \in Nat \ {0} /\ Head(calls) = calls[1]
      /\ calls[1] \in CallType
  BY <1>1, HeadCall
<1>3. b \in Bufs /\ p \in Ports /\ b \in BufsOf(p)
  BY <1>1, <1>2, BufsFacts DEF CallType, BufOps
<1>4. b \notin Owned(p)
  <2>1. UseOK(1) /\ calls[1].op = "use" /\ calls[1].x = b
    BY <1>1, <1>2 DEF CodecInv, CallOK
  <2> QED BY <2>1 DEF UseOK
<1>5. /\ mBuffers \in [Ports -> Seq(Bufs)]
      /\ mStatus \in [Bufs -> {"US", "COMPONENT", "UPSTREAM", "DOWNSTREAM"}]
  BY CodecTyping DEF CodecType
<1>6. /\ mBuffers'[p] = list_add_tail(b, mBuffers[p])
      /\ \A q \in Ports : q # p => mBuffers'[q] = mBuffers[q]
  BY <1>1, <1>3, <1>5 DEF list_add_tail
<1>7. Entries(mBuffers'[p]) = Entries(mBuffers[p]) \cup {b}
  <2>1. PICK l \in Seq(BufsOf(p)) :
           l = mBuffers[p] /\ LinkedOnce(l) /\ b \notin Entries(l)
    BY <1>3, <1>4, BuffersFacts DEF Owned
  <2>2. Entries(list_add_tail(b, l)) = Entries(l) \cup {b}
    <3>1. PICK S, x : S = BufsOf(p) /\ x = b
      OBVIOUS
    <3>2. l \in Seq(S) /\ x \in S
      BY <1>3, <2>1, <3>1
    <3>3. Entries(list_add_tail(x, l)) = Entries(l) \cup {x}
      BY <3>2, ListAddTail
    <3> QED BY <3>1, <3>3
  <2> QED BY <1>6, <2>1, <2>2
<1>8. /\ Owned(p)' = Owned(p) \cup {b}
      /\ \A q \in Ports : q # p => Owned(q)' = Owned(q)
  BY <1>6, <1>7 DEF Owned
<1>9. /\ m_cur_buf_num' = [m_cur_buf_num EXCEPT ![PortOf(b)] = @ + 1]
      /\ m_flags' = m_flags \ UseClears(b)
      /\ ev' = PostIf(<<"IDLE", "all">> \in UseClears(b),
                      PostIf(<<"ENABLE", p>> \in UseClears(b), ev,
                             "PortEnable", p),
                      "StateSet", "Idle")
  BY <1>1 DEF use_buffer
<1>10. \A q \in Ports : q # p => m_cur_buf_num'[q] = m_cur_buf_num[q]
  BY <1>3, <1>9, HeaderFacts
<1>11. UseClears(b) = {f \in m_flags :
                 \/ f = <<"ENABLE", p>> /\ m_cur_buf_num'[p] = max_count(p)
                 \/ /\ f = <<"IDLE", "all">>
                    /\ \A q \in Ports : m_cur_buf_num'[q] = max_count(q)}
  BY <1>9 DEF UseClears
<1>12. /\ mStatus'[b] = "US"
       /\ \A c \in Bufs : c # b => mStatus'[c] = mStatus[c]
  BY <1>1, <1>3, <1>5
<1>13. m_cur_buf_num[p] < max_count(p)
  BY <1>1 DEF UseAccepted
<1>14. UNCHANGED <<m_state, m_port_enabled, m_port_flushing, toFlush,
                   flushReq, msgs, cb, acodec, mActive,
                   mComponentNowIdle, mFlushComplete>>
  BY <1>1 DEF portVars, drvVars, modeVars
<1> QED BY <1>1, <1>3, <1>4, <1>8, <1>9, <1>10, <1>11, <1>12, <1>13, <1>14
        DEF Uses

LEMMA PostIfCmd ==
    ASSUME NEW e \in EvType, NEW c, NEW a, NEW done
    PROVE  PostIf(done, e, c, a).cmd
             = IF done THEN Append(e.cmd, DoneEntry(c, a)) ELSE e.cmd
<1>1. post_event(e, "COMMAND_DONE", c, a).cmd = Append(e.cmd, DoneEntry(c, a))
  BY DEF post_event, QueueOf, EvType, DoneEntry
<1> QED BY <1>1 DEF PostIf

(* Bits nobody waits for are not set.                                      *)
LEMMA BitsOff ==
    ASSUME CodecInv, PhaseInv
    PROVE  /\ \A f \in {"ENABLE", "DISABLE"} : <<f, "in">> \notin m_flags
           /\ <<"ENABLE", "out">> \in m_flags => Enabling /\ ~Asked
           /\ <<"DISABLE", "out">> \in m_flags => Disabling /\ ~Asked
           /\ <<"IDLE", "all">> \in m_flags => ToIdle /\ ~Asked
           /\ <<"LOADING", "all">> \in m_flags =>
                acodec = "IdleToLoaded" /\ ~Asked
           /\ <<"EXECUTE", "all">> \in m_flags =>
                acodec = "IdleToExecuting" /\ ~Asked
           /\ \A p \in Ports : <<"FLUSH", p>> \in m_flags =>
                                 Flushes(p) /\ ~Asked
<1>1. ASSUME NEW c, NEW a, NEW f, NEW q, NEW w, AnsweredOnce(c, a, f, q, w),
             <<f, q>> \in m_flags
      PROVE  w /\ ~Asked
  BY <1>1, OneAnswer
<1>2. /\ AnsweredOnce("StateSet", "Idle", "IDLE", "all", ToIdle)
      /\ AnsweredOnce("StateSet", "Executing", "EXECUTE", "all",
                      acodec = "IdleToExecuting")
      /\ AnsweredOnce("StateSet", "Loaded", "LOADING", "all",
                      acodec = "IdleToLoaded")
      /\ AnsweredOnce("PortDisable", "out", "DISABLE", "out", Disabling)
      /\ AnsweredOnce("PortEnable", "out", "ENABLE", "out", Enabling)
      /\ \A p \in Ports : AnsweredOnce("Flush", p, "FLUSH", p, Flushes(p))
  BY DEF PhaseInv, AnswerOK
<1>3. \A f \in {"ENABLE", "DISABLE"} : <<f, "in">> \notin m_flags
  BY DEF PhaseInv, KnownOK
<1> HIDE DEF AnsweredOnce
<1>4. <<"ENABLE", "out">> \in m_flags => Enabling /\ ~Asked
  BY <1>1, <1>2
<1>5. <<"DISABLE", "out">> \in m_flags => Disabling /\ ~Asked
  BY <1>1, <1>2
<1>6. <<"IDLE", "all">> \in m_flags => ToIdle /\ ~Asked
  BY <1>1, <1>2
<1>7. <<"LOADING", "all">> \in m_flags => acodec = "IdleToLoaded" /\ ~Asked
  BY <1>1, <1>2
<1>8. <<"EXECUTE", "all">> \in m_flags => acodec = "IdleToExecuting" /\ ~Asked
  BY <1>1, <1>2
<1>9. \A p \in Ports : <<"FLUSH", p>> \in m_flags => Flushes(p) /\ ~Asked
  BY <1>1, <1>2
<1> QED BY <1>3, <1>4, <1>5, <1>6, <1>7, <1>8, <1>9

(* The bit a use of a buffer may clear: Idle's, or that of the port that   *)
(* is enabled.                                                             *)
LEMMA UseClearsOne ==
    ASSUME CodecInv, PhaseInv, UseBuffer, ~Asked, NEW b, b = Head(calls).x,
           NEW p, p = PortOf(b)
    PROVE  /\ acodec = "LoadedToIdle" => Clears("StateSet", "Idle", "IDLE", "all")
           /\ Enabling /\ p = "out" => Clears("PortEnable", "out", "ENABLE", "out")
<1>1. /\ m_flags' = m_flags \ UseClears(b)
      /\ ev' = PostIf(<<"IDLE", "all">> \in UseClears(b),
                      PostIf(<<"ENABLE", p>> \in UseClears(b), ev,
                             "PortEnable", p),
                      "StateSet", "Idle")
      /\ UseClears(b) \subseteq m_flags \cap {<<"ENABLE", p>>, <<"IDLE", "all">>}
      /\ p \in Ports
  BY UseFacts DEF Uses
<1>2. PICK C : C = UseClears(b)
  OBVIOUS
<1>3. PICK d, e, g : /\ d = (<<"ENABLE", p>> \in C)
                     /\ e = PostIf(d, ev, "PortEnable", p)
                     /\ g = (<<"IDLE", "all">> \in C)
  OBVIOUS
<1>4. ev \in EvType /\ p \in Args /\ "PortEnable" \in Names
  BY <1>1, Typing DEF Names, Args
<1>5. e \in EvType /\ e.cmd = IF <<"ENABLE", p>> \in C
                              THEN Append(ev.cmd, DoneEntry("PortEnable", p))
                              ELSE ev.cmd
  <2>1. PostIf(d, ev, "PortEnable", p) \in EvType
    BY <1>4, PostIfFacts
  <2>2. PostIf(d, ev, "PortEnable", p).cmd
          = IF d THEN Append(ev.cmd, DoneEntry("PortEnable", p)) ELSE ev.cmd
    BY <1>4, PostIfCmd
  <2> QED BY <1>3, <2>1, <2>2
<1>6. ev'.cmd = IF <<"IDLE", "all">> \in C
                THEN Append(e.cmd, DoneEntry("StateSet", "Idle")) ELSE e.cmd
  <2>1. PostIf(g, e, "StateSet", "Idle").cmd
          = IF g THEN Append(e.cmd, DoneEntry("StateSet", "Idle")) ELSE e.cmd
    BY <1>5, PostIfCmd
  <2> QED BY <1>1, <1>2, <1>3, <2>1
<1>7. ASSUME acodec = "LoadedToIdle"
      PROVE  Clears("StateSet", "Idle", "IDLE", "all")
  <2>1. <<"ENABLE", p>> \notin m_flags
    BY <1>1, <1>7, BitsOff DEF Enabling, Reconfigures, Ports
  <2>2. e.cmd = ev.cmd /\ C \subseteq m_flags \cap {<<"IDLE", "all">>}
    BY <1>1, <1>2, <1>5, <2>1
  <2>3. CASE <<"IDLE", "all">> \in C
    <3>1. <<"IDLE", "all">> \in m_flags /\ m_flags' = m_flags \ {<<"IDLE", "all">>}
          /\ ev'.cmd = Append(ev.cmd, DoneEntry("StateSet", "Idle"))
      BY <1>1, <1>2, <1>6, <2>2, <2>3
    <3> QED BY <1>7, <3>1 DEF Clears, Row
  <2>4. CASE <<"IDLE", "all">> \notin C
    <3>1. m_flags' = m_flags /\ ev'.cmd = ev.cmd
      BY <1>1, <1>2, <1>6, <2>2, <2>4
    <3> QED BY <3>1 DEF Clears, Row
  <2> QED BY <2>3, <2>4
<1>8. ASSUME Enabling, p = "out"
      PROVE  Clears("PortEnable", "out", "ENABLE", "out")
  <2>1. <<"IDLE", "all">> \notin m_flags
    BY <1>8, BitsOff DEF Enabling, Reconfigures, ToIdle, Stopping
  <2>2. e.cmd = ev'.cmd /\ C \subseteq m_flags \cap {<<"ENABLE", "out">>}
    BY <1>1, <1>2, <1>6, <1>8, <2>1
  <2>3. CASE <<"ENABLE", "out">> \in C
    <3>1. /\ <<"ENABLE", "out">> \in m_flags
          /\ m_flags' = m_flags \ {<<"ENABLE", "out">>}
          /\ ev'.cmd = Append(ev.cmd, DoneEntry("PortEnable", "out"))
      BY <1>1, <1>2, <1>5, <1>8, <2>2, <2>3
    <3> QED BY <3>1 DEF Clears, Row
  <2>4. CASE <<"ENABLE", "out">> \notin C
    <3>1. m_flags' = m_flags /\ ev'.cmd = ev.cmd
      BY <1>1, <1>2, <1>5, <1>8, <2>2, <2>4
    <3> QED BY <3>1 DEF Clears, Row
  <2> QED BY <2>3, <2>4
<1> QED BY <1>7, <1>8

LEMMA UsePhase ==
    ASSUME CodecInv, PhaseInv, UseBuffer
    PROVE  PhaseInv'
<1>1. CodecInv'
  BY UseBufferStep
<1>2. PICK b, p : b = Head(calls).x /\ p = PortOf(b)
  OBVIOUS
<1>3. /\ calls # <<>> /\ Head(calls).op = "use" /\ calls' = Tail(calls)
      /\ b \in Bufs /\ p \in Ports /\ b \in BufsOf(p)
      /\ UNCHANGED <<m_state, m_port_enabled, m_port_flushing, toFlush,
                     flushReq, msgs, cb, acodec, mActive,
                     mComponentNowIdle, mFlushComplete>>
  BY <1>2, UseFacts DEF Uses
<1>4. /\ Owned(p)' = Owned(p) \cup {b}
      /\ \A q \in Ports : q # p => Owned(q)' = Owned(q)
      /\ m_cur_buf_num[p] < max_count(p)
      /\ \A q \in Ports : q # p => m_cur_buf_num'[q] = m_cur_buf_num[q]
      /\ mStatus'[b] = "US"
      /\ \A c \in Bufs : c # b => mStatus'[c] = mStatus[c]
      /\ m_flags' = m_flags \ UseClears(b)
      /\ UseClears(b) = {f \in m_flags :
            \/ f = <<"ENABLE", p>> /\ m_cur_buf_num'[p] = max_count(p)
            \/ /\ f = <<"IDLE", "all">>
               /\ \A q \in Ports : m_cur_buf_num'[q] = max_count(q)}
  <2>1. Uses(b, p)
    BY <1>2, UseFacts
  <2> QED BY <2>1 DEF Uses
<1>5. CallsOK /\ Head(calls).op \in BufOps
  BY <1>3 DEF PhaseInv, BufOps
<1>6. ~Asked
  BY <1>3, <1>5, NothingAsked
<1>7. ~Asked'
  BY <1>3, <1>5, TailAsked
<1>8. acodec = "LoadedToIdle" \/ (Enabling /\ p = "out")
  <2>1. Fits("use", b)
    <3> HIDE DEF Fits
    <3> QED BY <1>2, <1>3, <1>5, HeadFits
  <2>2. b \in OutBufs => p = "out"
    BY <1>2, ComponentAssumption DEF PortOf
  <2> QED BY <2>1, <2>2 DEF Fits
<1>9. /\ Disabling' <=> Disabling
      /\ Enabling' <=> Enabling
      /\ Reconfigures' <=> Reconfigures
  BY <1>3, <1>6, <1>7, PhaseKept
<1>10. ASSUME NEW q \in Ports, NEW c \in Owned(q)'
       PROVE  mStatus'[c] = "US" \/ (c \in Owned(q) /\ mStatus'[c] = mStatus[c])
  <2>1. CASE c = b
    BY <1>4, <2>1
  <2>2. CASE c # b
    <3>1. c \in Owned(q)
      BY <1>4, <1>10, <2>2
    <3>2. c \in Bufs
      BY <3>1, BuffersFacts, BufsFacts
    <3> QED BY <1>4, <2>2, <3>1, <3>2
  <2> QED BY <2>1, <2>2
<1>11. CallsOK'
  <2>1. ASSUME NEW c \in Bufs
        PROVE  \/ Head(calls).op \in BufOps /\ c = Head(calls).x
               \/ /\ mStatus'[c] = mStatus[c]
                  /\ c \in Owned(PortOf(c)) => c \in Owned(PortOf(c))'
    <3>1. PortOf(c) \in Ports
      BY BufsFacts
    <3>2. c \in Owned(PortOf(c)) => c \in Owned(PortOf(c))'
      BY <1>4, <3>1
    <3> QED BY <1>2, <1>4, <1>5, <3>2
  <2> QED BY <1>3, <1>5, <1>6, <2>1, TailCalls
<1>12. BuffersOK'
  <2>1. Inactive' <=> Inactive
    BY <1>3, <1>9 DEF Inactive
  <2>2. Inactive => allYourBuffersAreBelongToUs'
    BY <1>10 DEF PhaseInv, BuffersOK, allYourBuffersAreBelongToUs
  <2>3. Enabling => \A c \in Owned("out")' : mStatus'[c] = "US"
    BY <1>10 DEF PhaseInv, BuffersOK, Ports
  <2>4. ASSUME NEW c \in Bufs, mStatus'[c] # "US" PROVE c \in Owned(PortOf(c))'
    <3>1. c # b /\ PortOf(c) \in Ports
      BY <1>4, <2>4, BufsFacts
    <3>2. c \in Owned(PortOf(c))
      BY <1>4, <2>4, <3>1 DEF PhaseInv, BuffersOK
    <3> QED BY <1>4, <3>1, <3>2
  <2>5. \A c \in OutBufs : mStatus'[c] # "UPSTREAM"
    BY <1>4 DEF PhaseInv, BuffersOK, Bufs
  <2>6. acodec \notin {"Loaded", "LoadedToIdle", "IdleToLoaded"} =>
          m_cur_buf_num'["in"] = max_count("in")
    BY <1>4, <1>8 DEF PhaseInv, BuffersOK, Ports
  <2>7. ASSUME acodec = "LoadedToIdle", <<"IDLE", "all">> \notin m_flags'
        PROVE  \A q \in Ports : m_cur_buf_num'[q] = max_count(q)
    <3>1. <<"IDLE", "all">> \in m_flags
      <4>1. m_cur_buf_num[p] # max_count(p)
        BY <1>3, <1>4, HeaderFacts
      <4> QED BY <1>3, <1>6, <2>7, <4>1 DEF PhaseInv, BuffersOK
    <3>2. <<"IDLE", "all">> \in UseClears(b)
      BY <1>4, <2>7, <3>1
    <3> QED BY <1>4, <3>2
  <2>8. acodec # "IdleToLoaded" /\ ~Disabling
    BY <1>8 DEF Enabling, Disabling, Reconfigures
  <2>9. mActive => acodec = "Executing" \/ Reconfigures
    BY DEF PhaseInv, BuffersOK
  <2>10. /\ acodec' = acodec /\ mActive' = mActive
    BY <1>3
  <2> QED BY <1>9, <2>1, <2>2, <2>3, <2>4, <2>5, <2>6, <2>7, <2>8, <2>9, <2>10
          DEF BuffersOK
<1>13. /\ acodec = "LoadedToIdle" => Clears("StateSet", "Idle", "IDLE", "all")
       /\ Enabling /\ p = "out" => Clears("PortEnable", "out", "ENABLE", "out")
  BY <1>2, <1>6, UseClearsOne
<1>14. CASE acodec = "LoadedToIdle"
  BY <1>1, <1>3, <1>6, <1>7, <1>11, <1>12, <1>13, <1>14, ClearsPhase
<1>15. CASE Enabling /\ p = "out"
  BY <1>1, <1>3, <1>6, <1>7, <1>11, <1>12, <1>13, <1>15, ClearsPhase
<1> QED BY <1>8, <1>14, <1>15

Releases(b, p) ==
    /\ calls # <<>> /\ Head(calls).op \in {"free", "free_not_owned"}
    /\ calls' = Tail(calls) /\ mStatus[b] = "US" /\ mStatus' = mStatus
    /\ b \in Bufs /\ p \in Ports /\ b \in BufsOf(p) /\ b \in Owned(p)
    /\ UNCHANGED <<m_state, m_port_enabled, m_port_flushing, toFlush, flushReq,
                   msgs, cb, acodec, mActive, mComponentNowIdle,
                   mFlushComplete>>
    /\ Owned(p)' = Owned(p) \ {b}
    /\ \A q \in Ports : q # p => Owned(q)' = Owned(q)
    /\ m_cur_buf_num[p] # 0
    /\ \A q \in Ports : q # p => m_cur_buf_num'[q] = m_cur_buf_num[q]
    /\ m_flags' = m_flags \ FreeClears(b)
    /\ ev' = PostIf(<<"LOADING", "all">> \in FreeClears(b),
                    PostIf(<<"DISABLE", p>> \in FreeClears(b), ev,
                           "PortDisable", p),
                    "StateSet", "Loaded")
    /\ FreeClears(b) = {f \in m_flags :
          \/ f = <<"DISABLE", p>> /\ m_cur_buf_num'[p] = 0
          \/ f = <<"LOADING", "all">> /\ m_cur_buf_num' = Both(0)}

LEMMA FreeFacts ==
    ASSUME CodecInv, FreeBuffer, NEW b, b = Head(calls).x, NEW p, p = PortOf(b)
    PROVE  Releases(b, p)
<1>1. /\ calls # <<>> /\ Head(calls).op \in {"free", "free_not_owned"}
      /\ calls' = Tail(calls) /\ FreeAccepted(b) /\ mStatus[b] = "US"
      /\ free_buffer(b) /\ mBuffers' = [mBuffers EXCEPT ![p] = list_del(b, @)]
      /\ UNCHANGED <<m_state, portVars, m_cmd_lock, toFlush, drvVars, cb,
                     acodec, mStatus, modeVars, mDeferredQueue, userVars>>
  BY DEF FreeBuffer, Frees, Makes
<1>2. Head(calls) = calls[1] /\ calls[1] \in CallType
  BY <1>1, HeadCall
<1>3. b \in Bufs /\ p \in Ports /\ b \in BufsOf(p)
  BY <1>1, <1>2, BufsFacts DEF CallType, BufOps
<1>4. /\ {c \in BufsOf(p) : Registered(c)} = Owned(p)
      /\ m_cur_buf_num[p] = Cardinality(Owned(p)) /\ IsFiniteSet(Owned(p))
      /\ m_cur_buf_num \in [Ports -> 0..Cardinality(Bufs)]
  BY <1>3, HeaderFacts
<1>5. b \in Owned(p)
  BY <1>1, <1>3, <1>4 DEF FreeAccepted
<1>6. m_cur_buf_num[p] # 0
  BY <1>4, <1>5, FS_EmptySet
<1>7. mBuffers \in [Ports -> Seq(Bufs)]
  BY CodecTyping DEF CodecType
<1>8. /\ mBuffers'[p] = list_del(b, mBuffers[p])
      /\ \A q \in Ports : q # p => mBuffers'[q] = mBuffers[q]
  BY <1>1, <1>3, <1>7
<1>9. Entries(mBuffers'[p]) = Entries(mBuffers[p]) \ {b}
  <2>1. PICK S, l : S = BufsOf(p) /\ l = mBuffers[p]
    OBVIOUS
  <2>2. l \in Seq(S) /\ LinkedOnce(l) /\ b \in Entries(l)
    BY <1>3, <1>5, <2>1, BuffersFacts DEF Owned
  <2>3. PICK k \in 1..Len(l) : l[k] = b
    BY <2>2 DEF Entries
  <2>4. /\ list_del(l[k], l) \in Seq(S) /\ LinkedOnce(list_del(l[k], l))
        /\ Entries(list_del(l[k], l)) = Entries(l) \ {l[k]}
    BY <2>2, ListDel
  <2> QED BY <1>8, <2>1, <2>3, <2>4
<1>10. /\ Owned(p)' = Owned(p) \ {b}
       /\ \A q \in Ports : q # p => Owned(q)' = Owned(q)
  BY <1>8, <1>9 DEF Owned
<1>11. /\ m_cur_buf_num' = [m_cur_buf_num EXCEPT ![PortOf(b)] = @ - 1]
       /\ m_flags' = m_flags \ FreeClears(b)
       /\ ev' = PostIf(<<"LOADING", "all">> \in FreeClears(b),
                       PostIf(<<"DISABLE", p>> \in FreeClears(b), ev,
                              "PortDisable", p),
                       "StateSet", "Loaded")
  BY <1>1 DEF free_buffer
<1>12. \A q \in Ports : q # p => m_cur_buf_num'[q] = m_cur_buf_num[q]
  BY <1>3, <1>4, <1>11
<1>13. FreeClears(b) = {f \in m_flags :
          \/ f = <<"DISABLE", p>> /\ m_cur_buf_num'[p] = 0
          \/ f = <<"LOADING", "all">> /\ m_cur_buf_num' = Both(0)}
  BY <1>11 DEF FreeClears
<1>14. UNCHANGED <<m_state, m_port_enabled, m_port_flushing, toFlush,
                   flushReq, msgs, cb, acodec, mActive,
                   mComponentNowIdle, mFlushComplete>>
  BY <1>1 DEF portVars, drvVars, modeVars
<1> QED BY <1>1, <1>3, <1>5, <1>6, <1>10, <1>11, <1>12, <1>13, <1>14
        DEF Releases

(* The bit a free of a buffer may clear: Loaded's, or that of the port     *)
(* that is disabled.                                                       *)
LEMMA FreeClearsOne ==
    ASSUME CodecInv, PhaseInv, ~Asked, NEW b, NEW p, Releases(b, p)
    PROVE  /\ acodec = "IdleToLoaded" =>
                Clears("StateSet", "Loaded", "LOADING", "all")
           /\ Disabling /\ p = "out" =>
                Clears("PortDisable", "out", "DISABLE", "out")
<1>1. /\ m_flags' = m_flags \ FreeClears(b)
      /\ ev' = PostIf(<<"LOADING", "all">> \in FreeClears(b),
                      PostIf(<<"DISABLE", p>> \in FreeClears(b), ev,
                             "PortDisable", p),
                      "StateSet", "Loaded")
      /\ FreeClears(b) \subseteq
           m_flags \cap {<<"DISABLE", p>>, <<"LOADING", "all">>}
      /\ p \in Ports
  BY DEF Releases
<1>2. PICK C : C = FreeClears(b)
  OBVIOUS
<1>3. PICK d, e, g : /\ d = (<<"DISABLE", p>> \in C)
                     /\ e = PostIf(d, ev, "PortDisable", p)
                     /\ g = (<<"LOADING", "all">> \in C)
  OBVIOUS
<1>4. ev \in EvType /\ p \in Args /\ "PortDisable" \in Names
  BY <1>1, Typing DEF Names, Args
<1>5. e \in EvType /\ e.cmd = IF <<"DISABLE", p>> \in C
                              THEN Append(ev.cmd, DoneEntry("PortDisable", p))
                              ELSE ev.cmd
  <2>1. PostIf(d, ev, "PortDisable", p) \in EvType
    BY <1>4, PostIfFacts
  <2>2. PostIf(d, ev, "PortDisable", p).cmd
          = IF d THEN Append(ev.cmd, DoneEntry("PortDisable", p)) ELSE ev.cmd
    BY <1>4, PostIfCmd
  <2> QED BY <1>3, <2>1, <2>2
<1>6. ev'.cmd = IF <<"LOADING", "all">> \in C
                THEN Append(e.cmd, DoneEntry("StateSet", "Loaded")) ELSE e.cmd
  <2>1. PostIf(g, e, "StateSet", "Loaded").cmd
          = IF g THEN Append(e.cmd, DoneEntry("StateSet", "Loaded")) ELSE e.cmd
    BY <1>5, PostIfCmd
  <2> QED BY <1>1, <1>2, <1>3, <2>1
<1>7. ASSUME acodec = "IdleToLoaded"
      PROVE  Clears("StateSet", "Loaded", "LOADING", "all")
  <2>1. <<"DISABLE", p>> \notin m_flags
    BY <1>1, <1>7, BitsOff DEF Disabling, Reconfigures, Ports
  <2>2. e.cmd = ev.cmd /\ C \subseteq m_flags \cap {<<"LOADING", "all">>}
    BY <1>1, <1>2, <1>5, <2>1
  <2>3. CASE <<"LOADING", "all">> \in C
    <3>1. /\ <<"LOADING", "all">> \in m_flags
          /\ m_flags' = m_flags \ {<<"LOADING", "all">>}
          /\ ev'.cmd = Append(ev.cmd, DoneEntry("StateSet", "Loaded"))
      BY <1>1, <1>2, <1>6, <2>2, <2>3
    <3> QED BY <3>1 DEF Clears, Row
  <2>4. CASE <<"LOADING", "all">> \notin C
    <3>1. m_flags' = m_flags /\ ev'.cmd = ev.cmd
      BY <1>1, <1>2, <1>6, <2>2, <2>4
    <3> QED BY <3>1 DEF Clears, Row
  <2> QED BY <2>3, <2>4
<1>8. ASSUME Disabling, p = "out"
      PROVE  Clears("PortDisable", "out", "DISABLE", "out")
  <2>1. <<"LOADING", "all">> \notin m_flags
    BY <1>8, BitsOff DEF Disabling, Reconfigures
  <2>2. e.cmd = ev'.cmd /\ C \subseteq m_flags \cap {<<"DISABLE", "out">>}
    BY <1>1, <1>2, <1>6, <1>8, <2>1
  <2>3. CASE <<"DISABLE", "out">> \in C
    <3>1. /\ <<"DISABLE", "out">> \in m_flags
          /\ m_flags' = m_flags \ {<<"DISABLE", "out">>}
          /\ ev'.cmd = Append(ev.cmd, DoneEntry("PortDisable", "out"))
      BY <1>1, <1>2, <1>5, <1>8, <2>2, <2>3
    <3> QED BY <3>1 DEF Clears, Row
  <2>4. CASE <<"DISABLE", "out">> \notin C
    <3>1. m_flags' = m_flags /\ ev'.cmd = ev.cmd
      BY <1>1, <1>2, <1>5, <1>8, <2>2, <2>4
    <3> QED BY <3>1 DEF Clears, Row
  <2> QED BY <2>3, <2>4
<1> QED BY <1>7, <1>8

LEMMA FreePhase ==
    ASSUME CodecInv, PhaseInv, FreeBuffer
    PROVE  PhaseInv'
<1>1. CodecInv'
  BY FreeBufferStep
<1>2. PICK b, p : b = Head(calls).x /\ p = PortOf(b)
  OBVIOUS
<1>3. Releases(b, p)
  BY <1>2, FreeFacts
<1>4. /\ calls # <<>> /\ Head(calls).op \in {"free", "free_not_owned"}
      /\ calls' = Tail(calls) /\ mStatus[b] = "US" /\ mStatus' = mStatus
      /\ b \in Bufs /\ p \in Ports /\ b \in BufsOf(p) /\ b \in Owned(p)
      /\ UNCHANGED <<m_state, m_port_enabled, m_port_flushing, toFlush,
                     flushReq, msgs, cb, acodec, mActive,
                     mComponentNowIdle, mFlushComplete>>
      /\ Owned(p)' = Owned(p) \ {b}
      /\ \A q \in Ports : q # p => Owned(q)' = Owned(q)
      /\ m_cur_buf_num[p] # 0
      /\ \A q \in Ports : q # p => m_cur_buf_num'[q] = m_cur_buf_num[q]
      /\ m_flags' = m_flags \ FreeClears(b)
      /\ FreeClears(b) = {f \in m_flags :
            \/ f = <<"DISABLE", p>> /\ m_cur_buf_num'[p] = 0
            \/ f = <<"LOADING", "all">> /\ m_cur_buf_num' = Both(0)}
  BY <1>3 DEF Releases
<1>5. CallsOK /\ Head(calls).op \in BufOps
  BY <1>4 DEF PhaseInv, BufOps
<1>6. ~Asked
  BY <1>4, <1>5, NothingAsked
<1>7. ~Asked'
  BY <1>4, <1>5, TailAsked
<1>8. acodec = "IdleToLoaded" \/ (Disabling /\ p = "out")
  <2>1. Fits(Head(calls).op, b)
    <3> HIDE DEF Fits
    <3> QED BY <1>2, <1>4, <1>5, HeadFits
  <2>2. b \in OutBufs => p = "out"
    BY <1>2, ComponentAssumption DEF PortOf
  <2> QED BY <1>4, <2>1, <2>2 DEF Fits
<1>9. /\ Disabling' <=> Disabling
      /\ Enabling' <=> Enabling
      /\ Reconfigures' <=> Reconfigures
  BY <1>4, <1>6, <1>7, PhaseKept
<1>10. \A q \in Ports : /\ Owned(q)' \subseteq Owned(q)
                        /\ \A c \in Owned(q) : c # b => c \in Owned(q)'
  BY <1>4
<1>11. CallsOK'
  <2>1. ASSUME NEW c \in Bufs
        PROVE  \/ Head(calls).op \in BufOps /\ c = Head(calls).x
               \/ /\ mStatus'[c] = mStatus[c]
                  /\ c \in Owned(PortOf(c)) => c \in Owned(PortOf(c))'
    <3>1. PortOf(c) \in Ports
      BY BufsFacts
    <3> QED BY <1>2, <1>4, <1>5, <1>10, <3>1
  <2> QED BY <1>4, <1>5, <1>6, <2>1, TailCalls
<1>12. BuffersOK'
  <2>1. Inactive' <=> Inactive
    BY <1>4, <1>9 DEF Inactive
  <2>2. Inactive => allYourBuffersAreBelongToUs'
    BY <1>4, <1>10 DEF PhaseInv, BuffersOK, allYourBuffersAreBelongToUs
  <2>3. Enabling => \A c \in Owned("out")' : mStatus'[c] = "US"
    BY <1>4, <1>10 DEF PhaseInv, BuffersOK, Ports
  <2>4. ASSUME NEW c \in Bufs, mStatus'[c] # "US" PROVE c \in Owned(PortOf(c))'
    <3>1. c # b /\ PortOf(c) \in Ports
      BY <1>4, <2>4, BufsFacts
    <3>2. c \in Owned(PortOf(c))
      BY <1>4, <2>4, <3>1 DEF PhaseInv, BuffersOK
    <3> QED BY <1>10, <3>1, <3>2
  <2>5. \A c \in OutBufs : mStatus'[c] # "UPSTREAM"
    BY <1>4 DEF PhaseInv, BuffersOK
  <2>6. acodec \notin {"Loaded", "LoadedToIdle", "IdleToLoaded"} =>
          m_cur_buf_num'["in"] = max_count("in")
    BY <1>4, <1>8 DEF PhaseInv, BuffersOK, Ports
  <2>7. ASSUME acodec = "IdleToLoaded", <<"LOADING", "all">> \notin m_flags'
        PROVE  \A q \in Ports : m_cur_buf_num'[q] = 0
    <3>1. <<"LOADING", "all">> \in m_flags
      BY <1>4, <1>6, <2>7 DEF PhaseInv, BuffersOK
    <3>2. <<"LOADING", "all">> \in FreeClears(b)
      BY <1>4, <2>7, <3>1
    <3>3. m_cur_buf_num' = Both(0)
      BY <1>4, <3>2
    <3> QED BY <3>3 DEF Both
  <2>8. ASSUME Disabling, <<"DISABLE", "out">> \notin m_flags'
        PROVE  m_cur_buf_num'["out"] = 0
    <3>1. p = "out"
      BY <1>8, <2>8 DEF Disabling, Reconfigures
    <3>2. <<"DISABLE", "out">> \in m_flags
      BY <1>4, <1>6, <2>8, <3>1 DEF PhaseInv, BuffersOK
    <3>3. <<"DISABLE", "out">> \in FreeClears(b)
      BY <1>4, <2>8, <3>2
    <3> QED BY <1>4, <3>1, <3>3
  <2>9. acodec # "LoadedToIdle"
    BY <1>8 DEF Disabling, Reconfigures
  <2>10. mActive => acodec = "Executing" \/ Reconfigures
    BY DEF PhaseInv, BuffersOK
  <2>11. acodec' = acodec /\ mActive' = mActive
    BY <1>4
  <2> QED BY <1>9, <2>1, <2>2, <2>3, <2>4, <2>5, <2>6, <2>7, <2>8, <2>9, <2>10,
             <2>11 DEF BuffersOK
<1>13. /\ acodec = "IdleToLoaded" =>
            Clears("StateSet", "Loaded", "LOADING", "all")
       /\ Disabling /\ p = "out" =>
            Clears("PortDisable", "out", "DISABLE", "out")
  BY <1>3, <1>6, FreeClearsOne
<1>14. CASE acodec = "IdleToLoaded"
  BY <1>1, <1>4, <1>6, <1>7, <1>11, <1>12, <1>13, <1>14, ClearsPhase
<1>15. CASE Disabling /\ p = "out"
  BY <1>1, <1>4, <1>6, <1>7, <1>11, <1>12, <1>13, <1>15, ClearsPhase
<1> QED BY <1>8, <1>14, <1>15

-------------------------------------------------------------------------------
(* A command is sent: it is asked before and after.                        *)
LEMMA SendCallFacts ==
    ASSUME CodecInv, SendCommand
    PROVE  /\ calls # <<>> /\ Head(calls).op = "send" /\ calls' # <<>>
           /\ Head(calls').op = "sem_wait" /\ m_cmd_lock' = 0
           /\ Len(calls') = Len(calls) /\ Len(calls) \in Nat \ {0}
           /\ calls'[1].op = "sem_wait" /\ calls[1].op = "send"
           /\ \A i \in 1..Len(calls) : i # 1 => calls'[i] = calls[i]
<1>1. /\ calls # <<>> /\ Head(calls).op = "send"
      /\ calls' = <<Call("sem_wait", NULL, NULL)>> \o Tail(calls)
      /\ m_cmd_lock' = m_cmd_lock
  BY DEF SendCommand, Makes
<1>2. /\ Len(calls) \in Nat \ {0} /\ Head(calls) = calls[1]
      /\ Tail(calls) \in Seq(CallType) /\ Len(Tail(calls)) = Len(calls) - 1
      /\ \A i \in 1..(Len(calls) - 1) : Tail(calls)[i] = calls[i + 1]
  BY <1>1, HeadCall
<1>3. PICK w : w = Call("sem_wait", NULL, NULL)
  OBVIOUS
<1>4. w \in CallType /\ w.op = "sem_wait"
  BY <1>3 DEF Call, CallType, BufOps
<1>5. PICK s \in Seq(CallType) : s = <<w>> /\ Len(s) = 1 /\ s[1] = w
  <2>1. <<w>> \in Seq(CallType) /\ Len(<<w>>) = 1 /\ <<w>>[1] = w
    BY <1>4
  <2> QED BY <2>1
<1>6. /\ calls' \in Seq(CallType) /\ Len(calls') = 1 + (Len(calls) - 1)
      /\ \A i \in 1..(1 + (Len(calls) - 1)) :
           calls'[i] = IF i <= 1 THEN s[i] ELSE Tail(calls)[i - 1]
  <2>1. calls' = s \o Tail(calls)
    BY <1>1, <1>3, <1>5
  <2> QED BY <1>2, <1>5, <2>1, ConcatProperties
<1>7. Len(calls') = Len(calls)
  BY <1>2, <1>6
<1>8. calls'[1] = w
  BY <1>2, <1>5, <1>6
<1>9. ASSUME NEW i \in 1..Len(calls), i # 1 PROVE calls'[i] = calls[i]
  <2>1. i \in 1..(1 + (Len(calls) - 1)) /\ ~(i <= 1)
        /\ i - 1 \in 1..(Len(calls) - 1) /\ (i - 1) + 1 = i
    BY <1>2, <1>9
  <2> QED BY <1>2, <1>6, <2>1
<1>10. calls' # <<>> /\ Head(calls') = calls'[1]
  BY <1>2, <1>6, <1>7, EmptySeq
<1>11. calls[1].op = "send"
  BY <1>1, <1>2
<1>12. m_cmd_lock' = 0
  BY <1>1, <1>11, NoCommand
<1> QED BY <1>1, <1>2, <1>4, <1>7, <1>8, <1>9, <1>10, <1>11, <1>12

LEMMA SendCommandPhase ==
    ASSUME CodecInv, PhaseInv, SendCommand
    PROVE  PhaseInv'
<1>1. CodecInv'
  BY SendCommandStep
<1>2. /\ calls # <<>> /\ Head(calls).op = "send" /\ calls' # <<>>
      /\ Head(calls').op = "sem_wait" /\ m_cmd_lock' = 0
      /\ Len(calls') = Len(calls) /\ Len(calls) \in Nat \ {0}
      /\ calls'[1].op = "sem_wait" /\ calls[1].op = "send"
      /\ \A i \in 1..Len(calls) : i # 1 => calls'[i] = calls[i]
  BY SendCallFacts
<1>3. /\ UNCHANGED <<m_state, m_flags, m_port_enabled, m_port_flushing, toFlush,
                     flushReq, msgs, cb, acodec, mActive, mComponentNowIdle,
                     mFlushComplete, mBuffers, mStatus, m_cur_buf_num>>
      /\ ev' = post_event(ev, "COMMAND", Head(calls).x, Head(calls).y)
  BY DEF SendCommand, portVars, headVars, drvVars, callVars, modeVars
<1>4. Asked /\ Asked'
  BY <1>2 DEF Asked
<1>5. Head(calls) = calls[1] /\ calls[1] \in CallType
  BY <1>2, HeadCall
<1>6. PICK x \in Names, y \in Args : x = Head(calls).x /\ y = Head(calls).y
  BY <1>2, <1>5 DEF CallType
<1>7. <<x, y>> \in Sought
  <2>1. CallsOf(1)
    BY <1>2 DEF PhaseInv, CallsOK
  <2> QED BY <1>2, <1>5, <1>6, <2>1 DEF CallsOf
<1>8. PICK k : k = Entry("COMMAND", x, y)
  OBVIOUS
<1>9. /\ k \in KnownEntry /\ k \in CmdEntry /\ k.id = "COMMAND"
      /\ k.p1 = x /\ k.p2 = y
  BY <1>8 DEF Entry, KnownEntry, CmdEntry, Ids
<1>10. ev'.cmd = Append(ev.cmd, k) /\ ev.cmd \in Seq(CmdEntry)
  <2>1. ev \in EvType
    BY Typing
  <2>2. ev' = post_event(ev, "COMMAND", x, y)
    BY <1>3, <1>6
  <2> QED BY <1>8, <2>1, <2>2 DEF post_event, QueueOf, EvType
<1>11. \A T : Hits(ev'.cmd, T) = Hits(ev.cmd, T) + (IF k \in T THEN 1 ELSE 0)
  BY <1>9, <1>10, HitsAppend
<1>12. ASSUME NEW T, k \notin T
       PROVE  Hits(ev'.cmd, T) = Hits(ev.cmd, T)
  <2>1. Hits(ev'.cmd, T) = Hits(ev.cmd, T) + 0 /\ Hits(ev.cmd, T) \in Nat
    BY <1>11, <1>12, UnderFacts
  <2> QED BY <2>1
<1>13. \A c, a : Carried(c, a)' = Carried(c, a) /\ Told(c, a)' = Told(c, a)
  <2>1. ASSUME NEW c, NEW a PROVE Carried(c, a)' = Carried(c, a)
    <3>1. PICK T : T = {DoneEntry(c, a)}
      OBVIOUS
    <3>2. k \notin T
      BY <1>9, <3>1 DEF DoneEntry, Entry
    <3> QED BY <1>12, <3>1, <3>2 DEF Carried, Occurs
  <2> QED BY <1>3, <2>1 DEF Told
<1>14. \A f, q : Bit(f, q)' = Bit(f, q)
  BY <1>3 DEF Bit
<1>15. \A c, a, f, q : Under(c, a, f, q)' <= Under(c, a, f, q)
  <2>1. ASSUME NEW c, NEW a, NEW f, NEW q
        PROVE  Under(c, a, f, q)' <= Under(c, a, f, q)
    <3>1. Carried(c, a) \in Nat /\ Told(c, a) \in Nat /\ Bit(f, q) \in {0, 1}
      BY UnderFacts
    <3>2. /\ Carried(c, a)' = Carried(c, a) /\ Told(c, a)' = Told(c, a)
          /\ Bit(f, q)' = Bit(f, q)
      BY <1>13, <1>14
    <3> HIDE DEF Carried, Told, Bit
    <3> QED BY <3>1, <3>2 DEF Under
  <2> QED BY <2>1
<1>16. AnswerOK'
  <2>1. AnswerOK
    BY DEF PhaseInv
  <2>2. Asked' <=> Asked
    BY <1>4
  <2> QED BY <1>1, <1>3, <1>15, <2>1, <2>2, AnswerStep
<1>17. /\ Sought' = Sought
       /\ Disabling' <=> Disabling
       /\ Enabling' <=> Enabling
       /\ Reconfigures' <=> Reconfigures
  BY <1>3, <1>4, PhaseKept
<1>18. KnownOK'
  <2>1. /\ ev.cmd \in Seq(KnownEntry) /\ cb \in Seq(KnownCallback)
        /\ \A i \in 1..Len(ev.cmd) : ev.cmd[i].id = "COMMAND" =>
             <<ev.cmd[i].p1, ev.cmd[i].p2>> \in Sought
        /\ m_flags \cap ({"ENABLE", "DISABLE"} \X {"in"}) = {}
    BY DEF PhaseInv, KnownOK
  <2>2. /\ ev'.cmd \in Seq(KnownEntry) /\ Len(ev'.cmd) = Len(ev.cmd) + 1
        /\ Len(ev.cmd) \in Nat /\ ev'.cmd[Len(ev.cmd) + 1] = k
        /\ \A i \in 1..Len(ev.cmd) : ev'.cmd[i] = ev.cmd[i]
    BY <1>9, <1>10, <2>1
  <2>3. ASSUME NEW i \in 1..Len(ev'.cmd), ev'.cmd[i].id = "COMMAND"
        PROVE  <<ev'.cmd[i].p1, ev'.cmd[i].p2>> \in Sought
    <3>1. i \in 1..Len(ev.cmd) \/ i = Len(ev.cmd) + 1
      BY <2>2
    <3>2. CASE i \in 1..Len(ev.cmd)
      BY <2>1, <2>2, <2>3, <3>2
    <3>3. CASE i = Len(ev.cmd) + 1
      BY <1>7, <1>9, <2>2, <3>3
    <3> QED BY <3>1, <3>2, <3>3
  <2> QED BY <1>3, <1>17, <2>1, <2>2, <2>3 DEF KnownOK
<1>19. StateOK'
  <2>1. /\ \A a : Told("StateSet", a)' = Told("StateSet", a)
        /\ Carried("StateSet", "Idle")' <= Carried("StateSet", "Idle")
    BY <1>13, UnderFacts
  <2> QED BY <1>1, <1>3, <2>1, StateSame DEF PhaseInv
<1>20. \A id : id # "COMMAND" =>
         Hits(ev'.cmd, EntriesOf(id)) = Hits(ev.cmd, EntriesOf(id))
  <2>1. ASSUME NEW id, id # "COMMAND"
        PROVE  Hits(ev'.cmd, EntriesOf(id)) = Hits(ev.cmd, EntriesOf(id))
    <3>1. PICK T : T = EntriesOf(id)
      OBVIOUS
    <3>2. k \notin T
      BY <1>9, <2>1, <3>1 DEF EntriesOf
    <3> QED BY <1>12, <3>1, <3>2
  <2> QED BY <2>1
<1>21. FlushOK'
  <2>1. InputFlushes' = InputFlushes
    BY <1>3, <1>20 DEF InputFlushes
  <2>2. InputFlushes' <= InputFlushes
    BY <2>1, InputFlushesNat
  <2>3. FlushOK /\ (Asked' <=> Asked)
        /\ Told("PortDisable", "out")' = Told("PortDisable", "out")
    BY <1>4, <1>13 DEF PhaseInv
  <2> QED BY <1>1, <1>3, <2>2, <2>3, FlushSame
<1>22. StopOK'
  <2>1. /\ Hits(ev'.cmd, EntriesOf("STOP_DONE"))
             = Hits(ev.cmd, EntriesOf("STOP_DONE"))
        /\ Hits(ev'.cmd, EntriesOf("FLUSH_INPUT_DONE"))
             = Hits(ev.cmd, EntriesOf("FLUSH_INPUT_DONE"))
    BY <1>20
  <2>2. StopFirst(ev'.cmd, EntriesOf("STOP_DONE"),
                  EntriesOf("FLUSH_INPUT_DONE"))
    <3>1. PICK A, B : A = EntriesOf("STOP_DONE")
                      /\ B = EntriesOf("FLUSH_INPUT_DONE")
      OBVIOUS
    <3>2. StopFirst(ev.cmd, A, B) /\ k \notin A
      BY <1>9, <3>1 DEF PhaseInv, StopOK, EntriesOf
    <3>3. StopFirst(Append(ev.cmd, k), A, B)
      BY <1>9, <1>10, <3>2, StopFirstAppend
    <3> QED BY <1>10, <3>1, <3>3
  <2> QED BY <1>3, <2>1, <2>2 DEF PhaseInv, StopOK
<1>23. \A p : Owned(p)' = Owned(p)
  BY <1>3 DEF Owned
<1>24. CallsOK'
  <2>1. ASSUME NEW i \in 1..Len(calls') PROVE CallsOf(i)'
    <3>1. CASE i = 1
      BY <1>2, <3>1 DEF CallsOf, BufOps
    <3>2. CASE i # 1
      <4>1. i \in 1..Len(calls) /\ calls'[i] = calls[i] /\ CallsOf(i)
        BY <1>2, <3>2 DEF PhaseInv, CallsOK
      <4>2. PICK op, b : op = calls'[i].op /\ b = calls'[i].x
        OBVIOUS
      <4>3. op # "send"
        BY <3>2, <4>1, <4>2 DEF CallsOf
      <4>4. op = "empty" => Len(calls) = 1
        BY <4>1, <4>2 DEF CallsOf
      <4>5. ASSUME op \in BufOps
            PROVE  /\ Fits(op, b)'
                   /\ \A j \in 1..Len(calls') :
                        calls'[j].op \in BufOps /\ calls'[j].x = b => j = i
        <5>1. /\ Fits(op, b)
              /\ \A j \in 1..Len(calls) :
                   calls[j].op \in BufOps /\ calls[j].x = b => j = i
          <6> HIDE DEF Fits
          <6> QED BY <4>1, <4>2, <4>5 DEF CallsOf
        <5>2. Fits(op, b)'
          BY <1>3, <1>17, <1>23, <5>1 DEF Fits
        <5>3. "sem_wait" \notin BufOps
          BY DEF BufOps
        <5> QED BY <1>2, <5>1, <5>2, <5>3
      <4> HIDE DEF Fits
      <4> QED BY <1>2, <4>2, <4>3, <4>4, <4>5 DEF CallsOf
    <3> QED BY <3>1, <3>2
  <2> QED BY <2>1 DEF CallsOK
<1>25. BuffersOK'
  <2>1. Inactive' <=> Inactive
    BY <1>3, <1>17 DEF Inactive
  <2>2. allYourBuffersAreBelongToUs' <=> allYourBuffersAreBelongToUs
    BY <1>3, <1>23 DEF allYourBuffersAreBelongToUs
  <2> QED BY <1>3, <1>4, <1>17, <1>23, <2>1, <2>2 DEF PhaseInv, BuffersOK
<1> QED BY <1>16, <1>18, <1>19, <1>21, <1>22, <1>24, <1>25 DEF PhaseInv

LEMMA OmxCallPhase ==
    ASSUME CodecInv, PhaseInv, OmxCall
    PROVE  PhaseInv'
BY UsePhase, FreePhase, PassOverPhase, FillPhase, EmptyPhase,
   SendCommandPhase, CommandTakenPhase DEF OmxCall

-------------------------------------------------------------------------------
(* MediaCodec, and steps that change nothing.                              *)
LEMMA UserPhase ==
    ASSUME PhaseInv, UNCHANGED <<compVars, acodec, calls, callVars, modeVars>>
    PROVE  PhaseInv'
<1>1. UNCHANGED <<m_state, m_flags, m_port_enabled, m_port_flushing, toFlush,
                  flushReq, msgs, cb, ev, m_cmd_lock, m_cur_buf_num, acodec,
                  calls, mBuffers, mStatus, mActive, mComponentNowIdle,
                  mFlushComplete>>
  BY DEF compVars, portVars, headVars, drvVars, callVars, modeVars
<1>2. /\ Asked' <=> Asked
      /\ Disabling' <=> Disabling
      /\ Enabling' <=> Enabling
      /\ Reconfigures' <=> Reconfigures
      /\ Stopping' <=> Stopping
      /\ ToIdle' <=> ToIdle
      /\ \A p \in Ports : Flushes(p)' <=> Flushes(p)
      /\ Sought' = Sought
  BY <1>1, SamePhase
<1>3. \A c, a : Carried(c, a)' = Carried(c, a) /\ Told(c, a)' = Told(c, a)
  BY <1>1 DEF Carried, Told
<1>4. \A c, a, f, q : Under(c, a, f, q)' = Under(c, a, f, q)
  BY <1>1, <1>3 DEF Under, Bit
<1>5. AnswerOK'
  BY <1>1, <1>2, <1>4 DEF PhaseInv, AnswerOK, AnsweredOnce
<1>6. KnownOK'
  BY <1>1, <1>2 DEF PhaseInv, KnownOK
<1>7. StateOK'
  BY <1>1, <1>2, <1>3 DEF PhaseInv, StateOK
<1>8. FlushOK'
  BY <1>1, <1>2, <1>3 DEF PhaseInv, FlushOK, InputFlushes
<1>9. StopOK'
  BY <1>1 DEF PhaseInv, StopOK
<1>10. CallsOK' /\ BuffersOK'
  BY <1>1, CallsSame, BuffersSame DEF PhaseInv
<1> QED BY <1>5, <1>6, <1>7, <1>8, <1>9, <1>10 DEF PhaseInv

LEMMA InitPhase ==
    ASSUME Init
    PROVE  PhaseInv
<1>1. CodecInv
  BY InitCodec
<1>2. /\ acodec = "Loaded" /\ calls = <<>> /\ ev.cmd = <<>> /\ cb = <<>>
      /\ msgs = <<>> /\ m_flags = {} /\ m_state = "Loaded" /\ toFlush = {}
      /\ flushReq = {} /\ m_port_enabled["in"] /\ m_port_enabled["out"]
      /\ ~m_port_flushing["in"] /\ ~m_port_flushing["out"] /\ ~mActive
      /\ mStatus = [b \in Bufs |-> "US"]
  BY DEF Init, ComponentInit, Both, Ports
<1>3. ~Asked /\ ~Reconfigures /\ ~Disabling /\ ~Enabling /\ ~Stopping /\ ~ToIdle
  BY <1>2 DEF Asked, Reconfigures, Disabling, Enabling, Stopping, ToIdle
<1>4. /\ \A S : <<>> \in Seq(S)
      /\ Len(<<>>) = 0 /\ 1..0 = {} /\ Cardinality({}) = 0
  BY EmptySeq, FS_EmptySet
<1>5. \A T : Hits(ev.cmd, T) = 0 /\ Hits(cb, T) = 0 /\ Hits(msgs, T) = 0
  BY <1>2, <1>4 DEF Hits
<1>6. /\ \A c, a : Carried(c, a) = 0 /\ Told(c, a) = 0
      /\ \A f, q : Bit(f, q) = 0
  BY <1>2, <1>5 DEF Carried, Told, Occurs, Bit
<1>7. \A c, a, f, q, w : AnsweredOnce(c, a, f, q, w)
  BY <1>6 DEF AnsweredOnce, Under
<1>8. AnswerOK
  <2> HIDE DEF AnsweredOnce
  <2> QED BY <1>7 DEF AnswerOK
<1>9. KnownOK
  BY <1>2, <1>4 DEF KnownOK
<1>10. StateOK
  BY <1>2, <1>3, <1>6 DEF StateOK
<1>11. FlushOK
  <2>1. InputFlushes = 0
    BY <1>2, <1>5 DEF InputFlushes
  <2> QED BY <1>2, <2>1 DEF FlushOK, Ports
<1>12. StopOK
  BY <1>2, <1>4, <1>5 DEF StopOK, StopFirst
<1>13. CallsOK
  BY <1>2, <1>4 DEF CallsOK
<1>14. BuffersOK
  <2>1. ~Inactive
    BY <1>2, <1>3 DEF Inactive
  <2>2. \A b \in Bufs : mStatus[b] = "US"
    BY <1>2
  <2> QED BY <1>2, <1>3, <2>1, <2>2 DEF BuffersOK, Bufs
<1> QED BY <1>8, <1>9, <1>10, <1>11, <1>12, <1>13, <1>14 DEF PhaseInv

LEMMA NextPhase ==
    ASSUME CodecInv, PhaseInv, [Next]_vars
    PROVE  PhaseInv'
<1>1. CASE Component
  BY <1>1, ComponentPhase
<1>2. CASE OmxCall
  BY <1>2, OmxCallPhase
<1>3. CASE processDeferredMessages \/ OnRequest \/ OnComponent
  BY <1>3, DeferredPhase, RequestPhase, OnComponentPhase
<1>4. CASE \E b \in InBufs : onInputBufferFilled(b)
  BY <1>4, InputFilledPhase
<1>5. CASE \E b \in OutBufs : onOutputBufferDrained(b)
  BY <1>5, OutputDrainedPhase
<1>6. CASE BuffersAllocated \/ UserStarts \/ UserFlushes \/ UserStops
  <2>1. UNCHANGED <<compVars, acodec, calls, callVars, modeVars>>
    BY <1>6 DEF BuffersAllocated, UserStarts, UserFlushes, UserStops, Asks
  <2> QED BY <2>1, UserPhase
<1>7. CASE UNCHANGED vars
  <2>1. UNCHANGED <<compVars, acodec, calls, callVars, modeVars>>
    BY <1>7 DEF vars, codecVars
  <2> QED BY <2>1, UserPhase
<1> QED BY <1>1, <1>2, <1>3, <1>4, <1>5, <1>6, <1>7 DEF Next

(* Every behaviour keeps the invariant of the phases.                      *)
LEMMA PhaseInvariant == Spec => [](CodecInv /\ PhaseInv)
<1>1. Init => CodecInv /\ PhaseInv
  BY InitCodec, InitPhase
<1>2. CodecInv /\ PhaseInv /\ [Next]_vars => CodecInv' /\ PhaseInv'
  BY NextPreserves, NextPhase
<1> QED BY <1>1, <1>2, PTL DEF Spec

-------------------------------------------------------------------------------
(* What the phases say of the calls, the callbacks and the flags.          *)
LEMMA AcceptsFirst ==
    ASSUME CodecInv, PhaseInv, calls # <<>>, NEW b, b = Head(calls).x
    PROVE  /\ Head(calls).op = "use" => UseAccepted(b)
           /\ Frees => FreeAccepted(b) /\ mStatus[b] = "US"
           /\ Head(calls).op \in {"fill", "empty"} => SubmitOk(b)
<1>1. CallsOK /\ StateOK /\ BuffersOK
  BY DEF PhaseInv
<1>2. /\ Reconfigures => m_state = "Executing"
      /\ acodec = "Executing" => m_state = "Executing"
      /\ m_port_enabled["in"] /\ (~Reconfigures => m_port_enabled["out"])
  BY <1>1 DEF StateOK, Reconfigures
<1>3. ASSUME Head(calls).op \in BufOps
      PROVE  /\ ~Asked /\ b \in Bufs /\ PortOf(b) \in Ports
             /\ b \in BufsOf(PortOf(b)) /\ Fits(Head(calls).op, b)
             /\ b \in Owned(PortOf(b)) => Registered(b) /\ m_cur_buf_num[PortOf(b)] # 0
  <2>1. ~Asked
    BY <1>3, NothingAsked
  <2>2. Fits(Head(calls).op, b) /\ b \in Bufs
    <3> HIDE DEF Fits
    <3> QED BY <1>1, <1>3, HeadFits
  <2>3. PortOf(b) \in Ports /\ b \in BufsOf(PortOf(b))
    BY <2>2, BufsFacts
  <2>4. b \in Owned(PortOf(b)) => Registered(b)
    BY <2>3, HeaderFacts
  <2>5. b \in Owned(PortOf(b)) => m_cur_buf_num[PortOf(b)] # 0
    BY <2>3, HeaderFacts, FS_EmptySet
  <2> HIDE DEF Fits
  <2> QED BY <2>1, <2>2, <2>3, <2>4, <2>5
<1>4. ASSUME Head(calls).op = "use" PROVE UseAccepted(b)
  <2>1. PICK p \in Ports : p = PortOf(b) /\ b \in BufsOf(p)
    BY <1>3, <1>4 DEF BufOps
  <2>2. ~Asked /\ Fits("use", b)
    <3> HIDE DEF Fits
    <3> QED BY <1>3, <1>4 DEF BufOps
  <2>3. b \notin Owned(p)
    <3>1. calls[1].op = "use" /\ calls[1].x = b /\ UseOK(1)
      BY <1>4, HeadCall DEF CodecInv, CallOK
    <3> QED BY <2>1, <3>1 DEF UseOK
  <2>4. m_cur_buf_num[p] < max_count(p)
    <3>1. PICK S : S = BufsOf(p) /\ IsFiniteSet(S)
      BY ComponentAssumption DEF BufsOf
    <3>2. /\ IsFiniteSet(S \ {b}) /\ Cardinality(S \ {b}) = Cardinality(S) - 1
      BY <2>1, <3>1, FS_RemoveElement
    <3>3. Owned(p) \in SUBSET (S \ {b})
      BY <2>3, <3>1, BuffersFacts
    <3>4. Cardinality(Owned(p)) <= Cardinality(S \ {b})
      BY <3>2, <3>3, FS_Subset
    <3>5. Cardinality(Owned(p)) \in Nat /\ Cardinality(S) \in Nat
      BY <3>1, HeaderFacts, FS_CardinalityType
    <3>6. m_cur_buf_num[p] = Cardinality(Owned(p))
          /\ max_count(p) = Cardinality(S)
      BY <3>1, HeaderFacts DEF max_count
    <3> QED BY <3>2, <3>4, <3>5, <3>6
  <2>5. CASE acodec = "LoadedToIdle"
    <3>1. m_cur_buf_num[p] # max_count(p)
      BY <2>4, HeaderFacts
    <3>2. <<"IDLE", "all">> \in m_flags
      BY <1>1, <2>2, <2>5, <3>1 DEF BuffersOK
    <3>3. AnsweredOnce("StateSet", "Idle", "IDLE", "all", ToIdle)
      BY DEF PhaseInv, AnswerOK
    <3>4. Told("StateSet", "Idle") = 0
      BY <3>2, <3>3, OneAnswer
    <3>5. m_state = "Loaded"
      BY <1>1, <2>5, <3>4 DEF StateOK
    <3> QED BY <2>1, <2>4, <3>2, <3>5 DEF UseAccepted
  <2>6. CASE Enabling
    BY <1>2, <2>1, <2>4, <2>6 DEF UseAccepted, Enabling
  <2> QED BY <2>2, <2>5, <2>6 DEF Fits
<1>5. ASSUME Frees PROVE FreeAccepted(b) /\ mStatus[b] = "US"
  <2>1. /\ Head(calls).op \in {"free", "free_not_owned"}
        /\ Head(calls).op = "free_not_owned" => NotOwnedByComponent(b)
    BY <1>5 DEF Frees, Makes
  <2>2. Head(calls).op \in BufOps
    BY <2>1 DEF BufOps
  <2>3. PICK p \in Ports : p = PortOf(b)
    BY <1>3, <2>2
  <2>4. ~Asked /\ b \in Bufs /\ Fits(Head(calls).op, b)
    <3> HIDE DEF Fits
    <3> QED BY <1>3, <2>2
  <2>5. /\ acodec = "IdleToLoaded" \/ (Disabling /\ b \in OutBufs)
        /\ b \in Owned(p)
        /\ Head(calls).op = "free" => mStatus[b] = "US"
        /\ Head(calls).op = "free_not_owned" => b \in OutBufs
    BY <2>1, <2>2, <2>3, <2>4 DEF Fits, BufOps
  <2>6. mStatus[b] = "US"
    <3>1. mStatus[b] \in {"US", "COMPONENT", "UPSTREAM", "DOWNSTREAM"}
      BY <2>4, CodecTyping
    <3> QED BY <1>1, <2>1, <2>5, <3>1 DEF BuffersOK, NotOwnedByComponent
  <2>7. Registered(b) /\ m_cur_buf_num[p] # 0
    BY <1>3, <2>2, <2>3, <2>5
  <2>8. CASE acodec = "IdleToLoaded"
    <3>1. <<"LOADING", "all">> \in m_flags
      BY <1>1, <2>4, <2>7, <2>8 DEF BuffersOK
    <3>2. AnsweredOnce("StateSet", "Loaded", "LOADING", "all",
                       acodec = "IdleToLoaded")
      BY DEF PhaseInv, AnswerOK
    <3>3. PICK w : w = (acodec = "IdleToLoaded")
      OBVIOUS
    <3>4. AnsweredOnce("StateSet", "Loaded", "LOADING", "all", w)
      BY <3>2, <3>3
    <3>5. Told("StateSet", "Loaded") = 0
      BY <3>1, <3>4, OneAnswer
    <3>6. m_state = "Idle"
      BY <1>1, <2>8, <3>5 DEF StateOK
    <3> QED BY <2>6, <2>7, <3>1, <3>6 DEF FreeAccepted
  <2>9. CASE Disabling
    BY <1>2, <2>6, <2>7, <2>9 DEF FreeAccepted, Disabling
  <2> QED BY <2>5, <2>8, <2>9
<1>6. ASSUME Head(calls).op \in {"fill", "empty"} PROVE SubmitOk(b)
  <2>1. Head(calls).op \in BufOps
    BY <1>6 DEF BufOps
  <2>2. Fits(Head(calls).op, b)
    <3> HIDE DEF Fits
    <3> QED BY <1>3, <2>1
  <2>3. /\ acodec = "Executing" \/ (Reconfigures /\ Head(calls).op = "empty")
        /\ mStatus[b] = "US" /\ b \in Owned(PortOf(b))
    BY <1>6, <2>1, <2>2 DEF Fits, BufOps
  <2>4. Registered(b)
    BY <1>3, <2>1, <2>3
  <2>5. m_port_enabled[PortOf(b)]
    <3>1. CASE Head(calls).op = "empty"
      <4>1. PortOf(b) = "in"
        BY <1>1, <2>1, <3>1, HeadFits DEF PortOf
      <4> QED BY <1>2, <4>1
    <3>2. CASE Head(calls).op = "fill"
      <4>1. PortOf(b) = "out"
        BY <1>1, <2>1, <3>2, HeadFits, ComponentAssumption DEF PortOf
      <4>2. ~Reconfigures
        BY <2>3, <3>2 DEF Reconfigures
      <4> QED BY <1>2, <4>1, <4>2
    <3> QED BY <1>6, <3>1, <3>2
  <2>6. m_state = "Executing"
    BY <1>2, <2>3
  <2> QED BY <2>3, <2>4, <2>5, <2>6 DEF SubmitOk, SubmitAccepted
<1> QED BY <1>4, <1>5, <1>6

(* The component accepts every call that ACodec makes, whatever the event  *)
(* thread, the message thread and the driver do between the calls of one   *)
(* handler: buffers are used only while the component waits for a port to  *)
(* fill, freed only while it waits for it to empty, and submitted only     *)
(* while it executes with the port enabled; the buffer is registered and   *)
(* ACodec's own.  No CHECK_EQ on the result of freeBuffer, fillBuffer or   *)
(* emptyBuffer fails, and useBuffer never makes the codec give up.         *)
THEOREM CodecCallsAccepted == Spec => []CallsAccepted
<1>1. CodecInv /\ PhaseInv => CallsAccepted
  <2> SUFFICES ASSUME CodecInv, PhaseInv, calls # <<>>
               PROVE  /\ Head(calls).op = "use" => UseAccepted(Head(calls).x)
                      /\ Frees => /\ FreeAccepted(Head(calls).x)
                                  /\ mStatus[Head(calls).x] = "US"
                      /\ Head(calls).op \in {"fill", "empty"} =>
                           SubmitOk(Head(calls).x)
    BY DEF CallsAccepted
  <2>1. PICK b : b = Head(calls).x
    OBVIOUS
  <2> QED BY <2>1, AcceptsFirst
<1> QED BY <1>1, PhaseInvariant, PTL

-------------------------------------------------------------------------------
LEMMA NoWriter ==
    ASSUME CodecInv, PhaseInv, calls # <<>>,
           Head(calls).op \in {"use", "free", "free_not_owned"}
    PROVE  ~EventWritesFlags
<1>1. CallsOK /\ StateOK /\ FlushOK /\ StopOK
  BY DEF PhaseInv
<1>2. PICK b : b = Head(calls).x
  OBVIOUS
<1>3. Head(calls).op \in BufOps
  BY DEF BufOps
<1>4. acodec \in {"LoadedToIdle", "IdleToLoaded"} \/ Reconfigures
  <2>1. Fits(Head(calls).op, b)
    <3> HIDE DEF Fits
    <3> QED BY <1>1, <1>2, <1>3, HeadFits
  <2> QED BY <2>1 DEF Fits, Enabling, Disabling
<1>5. Commands(ev.cmd) = 0
  <2>1. calls[1].op # "sem_wait"
    BY <1>3, HeadCall DEF BufOps
  <2> QED BY <2>1, NoCommand
<1>6. ~Takes("COMMAND")
  <2> SUFFICES ASSUME Takes("COMMAND") PROVE FALSE
    OBVIOUS
  <2>1. QueueOf("COMMAND") = "cmd"
    BY DEF QueueOf
  <2>2. ev.cmd # <<>> /\ Head(ev.cmd).id = "COMMAND"
    BY <2>1, TakesPop
  <2>3. ev.cmd \in Seq(CmdEntry)
    BY UnderFacts
  <2>4. Len(ev.cmd) \in Nat \ {0} /\ Head(ev.cmd) = ev.cmd[1]
    BY <2>2, <2>3, EmptySeq
  <2>5. ev.cmd[1].id # "COMMAND"
    BY <1>5, <2>3, <2>4, NoCommands
  <2> QED BY <2>2, <2>4, <2>5
<1>7. /\ <<"EXECUTE", "all">> \notin m_flags
      /\ \A p \in Ports : <<"FLUSH", p>> \notin m_flags
      /\ <<"IDLE", "all">> \in m_flags => acodec = "LoadedToIdle"
  BY <1>4, BitsOff DEF Flushes, Reconfigures, ToIdle, Stopping
<1>8. ~(Takes("STOP_DONE") /\ BecomesIdle(m_port_flushing))
  <2> SUFFICES ASSUME Takes("STOP_DONE") PROVE ~BecomesIdle(m_port_flushing)
    OBVIOUS
  <2>1. QueueOf("STOP_DONE") = "cmd" /\ toFlush = {}
    BY DEF QueueOf, Takes, Pending
  <2>2. /\ ev.cmd # <<>> /\ Head(ev.cmd).id = "STOP_DONE"
        /\ Head(ev.cmd) \in CmdEntry
    BY <2>1, TakesPop
  <2>3. ev.cmd \in Seq(CmdEntry)
    BY UnderFacts
  <2>4. PICK T : T = EntriesOf("STOP_DONE")
    OBVIOUS
  <2>5. Len(ev.cmd) \in Nat \ {0} /\ ev.cmd[1] \in T
    BY <2>2, <2>3, <2>4, EmptySeq DEF EntriesOf
  <2>6. Hits(ev.cmd, T) # 0 /\ Hits(ev.cmd, T) \in Nat
    BY <2>3, <2>5, HitsNone, HitsNat
  <2>7. Hits(ev.cmd, EntriesOf("STOP_DONE")) > 0
    BY <2>4, <2>6
  <2>8. m_port_flushing["in"]
    BY <1>1, <2>1, <2>7 DEF StopOK, Ports
  <2> QED BY <2>8 DEF BecomesIdle, Ports
<1>9. ASSUME NEW p \in Ports, m_port_flushing[p]
      PROVE  ~BecomesIdle(FlushOver(p))
  <2>1. m_state = "Executing"
    BY <1>1, <1>9 DEF FlushOK, Ports
  <2>2. acodec # "LoadedToIdle"
    BY <1>1, <2>1 DEF StateOK
  <2> QED BY <1>7, <2>2 DEF BecomesIdle
<1> QED BY <1>6, <1>7, <1>8, <1>9 DEF EventWritesFlags

(* The event thread and the client both read m_flags, change a bit and     *)
(* write the word back, without a lock.  They never do so at the same      *)
(* time: when use_buffer or free_buffer clears the bit of the command it   *)
(* finishes, no event whose handling writes m_flags can be at its turn.    *)
THEOREM CodecFlagsOneWriter == Spec => []FlagsOneWriter
<1>1. CodecInv /\ PhaseInv => FlagsOneWriter
  <2> SUFFICES ASSUME CodecInv, PhaseInv PROVE FlagsOneWriter
    OBVIOUS
  <2>1. Makes("use") \/ Frees =>
          /\ calls # <<>>
          /\ Head(calls).op \in {"use", "free", "free_not_owned"}
    BY DEF Makes, Frees
  <2>2. Makes("use") \/ Frees => ~EventWritesFlags
    BY <2>1, NoWriter
  <2> QED BY <2>2 DEF FlagsOneWriter
<1> QED BY <1>1, PhaseInvariant, PTL

-------------------------------------------------------------------------------
(* The callback at its turn answers the command that ACodec waits for.     *)
LEMMA AnswerExpected ==
    ASSUME CodecInv, PhaseInv, cb # <<>>,
           NEW c, NEW a, Head(cb) = CmdComplete(c, a),
           NEW f, NEW q, NEW w, AnsweredOnce(c, a, f, q, w)
    PROVE  ~(~w \/ Asked \/ <<f, q>> \in m_flags)
<1>1. cb \in Seq(Callback)
  BY UnderFacts
<1>2. Len(cb) \in Nat \ {0} /\ cb[1] = Head(cb)
  BY <1>1, EmptySeq
<1>3. PICK T : T = {CmdComplete(c, a)}
  OBVIOUS
<1>4. Hits(cb, T) # 0
  BY <1>1, <1>2, <1>3, HitsNone
<1>5. Told(c, a) # 0
  BY <1>3, <1>4 DEF Told, Occurs
<1>6. /\ ~w \/ Asked => Told(c, a) = 0
      /\ <<f, q>> \in m_flags => Told(c, a) = 0
  BY OneAnswer
<1> QED BY <1>5, <1>6

LEMMA BufferExpected ==
    ASSUME CodecInv, NEW b \in Bufs, cb # <<>>, Head(cb).p1 = b
    PROVE  HasBuffer(b)
<1>1. cb \in Seq(Callback) /\ CompOK
  BY UnderFacts DEF CodecInv
<1>2. Tail(cb) \in Seq(Callback)
  BY <1>1, HeadTailProperties
<1>3. /\ Count(cb, b) = 1 + Count(Tail(cb), b)
      /\ Count(Tail(cb), b) \in Nat
  BY <1>1, <1>2, CountFacts
<1>4. /\ MsgCount(msgs, b) \in Nat /\ EvWeight(ev, b) \in Nat
      /\ InDriver(b) \in Nat
  BY <1>1, PlacesFlight
<1>5. Flight(b) # 0
  BY <1>3, <1>4 DEF Flight
<1>6. b \in Owned(PortOf(b)) /\ Held(b) = 0
  BY <1>5, NotInFlight
<1> QED BY <1>6 DEF HasBuffer, Held

LEMMA CommandExpected ==
    ASSUME CodecInv, PhaseInv, cb # <<>>, Head(cb).what = "CMD_COMPLETE"
    PROVE  AwaitedCommand(Head(cb))
<1>1. KnownOK /\ BuffersOK
  BY DEF PhaseInv
<1>2. Head(cb) \in KnownCallback
  <2>1. cb \in Seq(KnownCallback)
    BY <1>1 DEF KnownOK
  <2> QED BY <2>1, HeadTailProperties
<1>3. PICK c, a : /\ Head(cb) = CmdComplete(c, a) /\ <<c, a>> \in AllAnswers
  <2>1. PICK h : h = Head(cb)
    OBVIOUS
  <2>2. h \in Callback /\ <<h.p1, h.p2>> \in AllAnswers /\ h.what = "CMD_COMPLETE"
    BY <1>2, <2>1 DEF KnownCallback
  <2>3. h = CmdComplete(h.p1, h.p2)
    BY <2>2 DEF Callback, CmdComplete
  <2> QED BY <2>1, <2>2, <2>3
<1>4. CASE c = "StateSet" /\ a = "Idle"
  <2>1. AnsweredOnce("StateSet", "Idle", "IDLE", "all", ToIdle)
    BY DEF PhaseInv, AnswerOK
  <2>2. ToIdle /\ ~Asked /\ <<"IDLE", "all">> \notin m_flags
    BY <1>3, <1>4, <2>1, AnswerExpected
  <2> QED BY <1>3, <1>4, <2>2 DEF AwaitedCommand, ToIdle, Stopping
<1>5. CASE c = "StateSet" /\ a = "Executing"
  <2>1. PICK w : w = (acodec = "IdleToExecuting")
    OBVIOUS
  <2>2. AnsweredOnce("StateSet", "Executing", "EXECUTE", "all", w)
    BY <2>1 DEF PhaseInv, AnswerOK
  <2>3. w /\ ~Asked /\ <<"EXECUTE", "all">> \notin m_flags
    BY <1>3, <1>5, <2>2, AnswerExpected
  <2> QED BY <1>3, <1>5, <2>1, <2>3 DEF AwaitedCommand
<1>6. CASE c = "StateSet" /\ a = "Loaded"
  <2>1. PICK w : w = (acodec = "IdleToLoaded")
    OBVIOUS
  <2>2. AnsweredOnce("StateSet", "Loaded", "LOADING", "all", w)
    BY <2>1 DEF PhaseInv, AnswerOK
  <2>3. w /\ ~Asked /\ <<"LOADING", "all">> \notin m_flags
    BY <1>3, <1>6, <2>2, AnswerExpected
  <2> QED BY <1>3, <1>6, <2>1, <2>3 DEF AwaitedCommand
<1>7. CASE c = "PortDisable" /\ a = "out"
  <2>1. AnsweredOnce("PortDisable", "out", "DISABLE", "out", Disabling)
    BY DEF PhaseInv, AnswerOK
  <2>2. Disabling /\ ~Asked /\ <<"DISABLE", "out">> \notin m_flags
    BY <1>3, <1>7, <2>1, AnswerExpected
  <2>3. m_cur_buf_num["out"] = 0
    BY <1>1, <2>2 DEF BuffersOK
  <2>4. Owned("out") = {}
    BY <2>3, HeaderFacts, FS_EmptySet DEF Ports
  <2>5. mBuffers["out"] = <<>>
    <3>1. mBuffers["out"] \in Seq(Bufs)
      BY BuffersFacts DEF Ports
    <3>2. /\ Len(mBuffers["out"]) \in Nat
          /\ \A i \in 1..Len(mBuffers["out"]) : mBuffers["out"][i] \in Owned("out")
      BY <3>1 DEF Owned, Entries
    <3>3. Len(mBuffers["out"]) = 0
      BY <2>4, <3>2
    <3> QED BY <3>1, <3>3, EmptySeq
  <2> QED BY <1>3, <1>7, <2>2, <2>5 DEF AwaitedCommand, Disabling, Reconfigures
<1>8. CASE c = "PortEnable" /\ a = "out"
  <2>1. AnsweredOnce("PortEnable", "out", "ENABLE", "out", Enabling)
    BY DEF PhaseInv, AnswerOK
  <2>2. Enabling /\ ~Asked /\ <<"ENABLE", "out">> \notin m_flags
    BY <1>3, <1>8, <2>1, AnswerExpected
  <2> QED BY <1>3, <1>8, <2>2 DEF AwaitedCommand, Enabling, Reconfigures
<1>9. CASE c = "Flush" /\ a \in Ports
  <2>1. PICK w : w = Flushes(a)
    OBVIOUS
  <2>2. AnsweredOnce("Flush", a, "FLUSH", a, w)
    BY <1>9, <2>1 DEF PhaseInv, AnswerOK
  <2>3. w /\ ~Asked /\ <<"FLUSH", a>> \notin m_flags
    BY <1>3, <1>9, <2>2, AnswerExpected
  <2> QED BY <1>3, <1>9, <2>1, <2>3 DEF AwaitedCommand, Flushes
<1> QED
  BY <1>3, <1>4, <1>5, <1>6, <1>7, <1>8, <1>9
  DEF AllAnswers, DoneAnswers, PortAnswers

LEMMA ResumeExpected ==
    ASSUME CodecInv, PhaseInv, acodec \in {"IdleToExecuting", "Executing"},
           ~mActive
    PROVE  ResumeOk
<1>1. BuffersOK
  BY DEF PhaseInv
<1>2. allYourBuffersAreBelongToUs /\ m_cur_buf_num["in"] = max_count("in")
  BY <1>1 DEF BuffersOK, Inactive
<1>3. BufsOf("in") = InBufs /\ IsFiniteSet(InBufs) /\ InBufs # {}
  BY ComponentAssumption, CodecAssumption DEF BufsOf
<1>4. Cardinality(InBufs) # 0 /\ max_count("in") = Cardinality(InBufs)
  BY <1>3, FS_EmptySet DEF max_count
<1>5. Cardinality(Owned("in")) # 0 /\ IsFiniteSet(Owned("in"))
  BY <1>2, <1>4, HeaderFacts DEF Ports
<1>6. Owned("in") # {}
  BY <1>5, FS_EmptySet
<1>7. mBuffers["in"] \in Seq(Bufs) /\ mBuffers["in"] # <<>>
  <2>1. mBuffers["in"] \in Seq(Bufs)
    BY BuffersFacts DEF Ports
  <2>2. Len(mBuffers["in"]) # 0
    BY <1>6, <2>1 DEF Owned, Entries
  <2> QED BY <2>1, <2>2, EmptySeq
<1>8. mBuffers["in"][1] \in Owned("in")
  <2>1. Len(mBuffers["in"]) \in Nat \ {0}
    BY <1>7, EmptySeq
  <2> QED BY <2>1 DEF Owned, Entries
<1> QED BY <1>2, <1>7, <1>8 DEF ResumeOk, allYourBuffersAreBelongToUs, Ports

(* Every callback is one that ACodec's state expects, whatever the order   *)
(* in which the threads run: the buffer of an EmptyBufferDone or           *)
(* FillBufferDone is one that ACodec had given to the component, and a     *)
(* completion is that of the command ACodec waits for, with every output   *)
(* buffer freed when the port is disabled.  And an ACodec that is not      *)
(* active has its first input buffer when it resumes.  No CHECK of the     *)
(* callback handlers fails.                                                *)
THEOREM CodecChecksHold == Spec => []ChecksHold
<1>1. CodecInv /\ PhaseInv => ChecksHold
  <2> SUFFICES ASSUME CodecInv, PhaseInv PROVE ChecksHold
    OBVIOUS
  <2>1. ASSUME cb # <<>>, Head(cb).what = "BUFFER_DONE"
        PROVE  HasBuffer(Head(cb).p1)
    <3>1. cb \in Seq(KnownCallback)
      BY DEF PhaseInv, KnownOK
    <3>2. Head(cb) \in KnownCallback
      BY <2>1, <3>1, HeadTailProperties
    <3>3. PICK b \in Bufs : b = Head(cb).p1
      BY <2>1, <3>2 DEF KnownCallback
    <3> QED BY <2>1, <3>3, BufferExpected
  <2>2. cb # <<>> /\ Head(cb).what = "CMD_COMPLETE" => AwaitedCommand(Head(cb))
    BY CommandExpected
  <2>3. acodec \in {"IdleToExecuting", "Executing"} /\ ~mActive => ResumeOk
    BY ResumeExpected
  <2> QED BY <2>1, <2>2, <2>3 DEF ChecksHold
<1> QED BY <1>1, PhaseInvariant, PTL
===============================================================================
