----------------------- MODULE GracefulShutdownProofs -----------------------
(***************************************************************************)
(* Proofs about GracefulShutdown, for any set of events, any channel and   *)
(* batch sizes, and any number of subscriptions.                           *)
(***************************************************************************)
EXTENDS GracefulShutdown, TLAPS, SequenceTheorems

-----------------------------------------------------------------------------
(* Sequences *)

\* What the stages of the pipeline need to know of Append, Head, Tail and \o.
LEMMA RangeAppend ==
    ASSUME NEW S, NEW q \in Seq(S), NEW x \in S
    PROVE  /\ Append(q, x) \in Seq(S)
           /\ Len(Append(q, x)) = Len(q) + 1
           /\ Range(Append(q, x)) = Range(q) \cup {x}
  <1>1. /\ Append(q, x) \in Seq(S)
        /\ Len(Append(q, x)) = Len(q) + 1
        /\ \A i \in 1..Len(q) : Append(q, x)[i] = q[i]
        /\ Append(q, x)[Len(q) + 1] = x
        /\ Len(q) \in Nat
    OBVIOUS
  <1>2. /\ Range(q) = {q[i] : i \in 1..Len(q)}
        /\ Range(Append(q, x)) = {Append(q, x)[i] : i \in 1..Len(q) + 1}
    BY <1>1, RangeEquality
  <1>3. Range(Append(q, x)) = Range(q) \cup {x}
    BY <1>1, <1>2
  <1>4. QED
    BY <1>1, <1>3

\* What receiving from a channel does to its contents.
LEMMA RangeHeadTail ==
    ASSUME NEW S, NEW q \in Seq(S), q # <<>>
    PROVE  /\ Head(q) \in S
           /\ Tail(q) \in Seq(S)
           /\ Len(Tail(q)) = Len(q) - 1
           /\ Len(q) \in Nat \ {0}
           /\ Range(q) = Range(Tail(q)) \cup {Head(q)}
  <1>1. /\ Head(q) \in S
        /\ Tail(q) \in Seq(S)
        /\ Len(Tail(q)) = Len(q) - 1
        /\ Len(q) \in Nat \ {0}
        /\ Head(q) = q[1]
        /\ \A i \in 1..Len(q) - 1 : Tail(q)[i] = q[i + 1]
    OBVIOUS
  <1>2. /\ Range(q) = {q[i] : i \in 1..Len(q)}
        /\ Range(Tail(q)) = {Tail(q)[i] : i \in 1..Len(q) - 1}
    BY <1>1, RangeEquality
  <1>3. ASSUME NEW x \in Range(q)
        PROVE  x \in Range(Tail(q)) \cup {Head(q)}
    <2>1. PICK i \in 1..Len(q) : x = q[i]
      BY <1>2
    <2>2. CASE i = 1
      BY <2>1, <2>2, <1>1
    <2>3. CASE i # 1
      <3>1. i - 1 \in 1..Len(q) - 1
        BY <2>3, <1>1
      <3>2. x = Tail(q)[i - 1]
        BY <3>1, <2>1, <1>1
      <3>3. QED
        BY <3>1, <3>2, <1>2
    <2>4. QED
      BY <2>2, <2>3
  <1>4. ASSUME NEW x \in Range(Tail(q)) \cup {Head(q)}
        PROVE  x \in Range(q)
    <2>1. CASE x = Head(q)
      BY <2>1, <1>1, <1>2
    <2>2. CASE x \in Range(Tail(q))
      <3>1. PICK i \in 1..Len(q) - 1 : x = Tail(q)[i]
        BY <2>2, <1>2
      <3>2. i + 1 \in 1..Len(q) /\ x = q[i + 1]
        BY <3>1, <1>1
      <3>3. QED
        BY <3>2, <1>2
    <2>3. QED
      BY <2>1, <2>2
  <1>5. QED
    BY <1>1, <1>3, <1>4

-----------------------------------------------------------------------------
(* The inductive invariant *)

\* Initially everything is empty, nothing is cancelled and nobody runs.
LEMMA IndInvInit == Init => IndInv
  <1> SUFFICES ASSUME Init PROVE IndInv
    OBVIOUS
  <1> USE BusAssumption, LikeConsumerAssumption DEF Init, BusInit, LikeInit
  <1>1. TypeOK
    <2>1. <<>> \in Seq(Events) /\ Len(<<>>) = 0
      OBVIOUS
    <2>2. BusTypeOK
      <3>1. /\ ch \in [Subs -> Seq(Events)] /\ sent \in [Subs -> Seq(Events)]
            /\ \A s \in Subs : Len(ch[s]) <= BufSize
        BY <2>1
      <3>2. QED
        BY <3>1 DEF BusTypeOK, PubStates, SubStates
    <2>3. LikeTypeOK
      <3>1. Len(eventCh) <= EventChCap
        BY <2>1
      <3>2. QED
        BY <2>1, <3>1 DEF LikeTypeOK, LoopStates
    <2>4. QED
      BY <2>2, <2>3 DEF TypeOK, MainStates
  <1>2. HandInv
    BY DEF HandInv, Handling
  <1>3. DrainInv
    BY DEF DrainInv
  <1>4. PhaseInv
    BY DEF PhaseInv, AfterHttp, AfterCancel, AfterManager
  <1>5. NoStrandedEvent
    BY DEF NoStrandedEvent
  <1>6. QED
    BY <1>1, <1>2, <1>3, <1>4, <1>5 DEF IndInv

\* The steps of a request handler inside Publish preserve the invariant; the
\* delicate one is the send, which after phase 1 only a timed-out handler makes.
LEMMA PublishPreserves ==
    ASSUME IndInv, NEW e \in Events, PublishStep(e), UNCHANGED <<likeVars, mainVars>>
    PROVE  IndInv'
  <1> USE BusAssumption DEF likeVars, mainVars
  <1> USE DEF IndInv
  <1>1. CASE PublishCheck(e)
    <2>1. TypeOK'
      BY <1>1 DEF PublishCheck, TypeOK, BusTypeOK, LikeTypeOK, PubStates
    <2>2. HandInv' /\ DrainInv' /\ NoStrandedEvent'
      BY <1>1 DEF PublishCheck, HandInv, Handling, DrainInv, NoStrandedEvent
    <2>3. PhaseInv'
      BY <1>1 DEF PublishCheck, PhaseInv, InFlight, AfterHttp, AfterManager, TypeOK,
                  BusTypeOK, PubStates
    <2>4. QED
      BY <2>1, <2>2, <2>3
  <1>2. CASE PublishSnapshot(e)
    <2>1. TypeOK'
      BY <1>2 DEF PublishSnapshot, TypeOK, BusTypeOK, LikeTypeOK, PubStates
    <2>2. HandInv' /\ DrainInv' /\ NoStrandedEvent'
      BY <1>2 DEF PublishSnapshot, HandInv, Handling, DrainInv, NoStrandedEvent
    <2>3. PhaseInv'
      BY <1>2 DEF PublishSnapshot, PhaseInv, InFlight, TypeOK, BusTypeOK, PubStates
    <2>4. QED
      BY <2>1, <2>2, <2>3
  <1>3. ASSUME NEW s \in Subs, PublishSend(e, s)
        PROVE  IndInv'
    <2>1. TypeOK'
      <3>1. CASE Len(ch[s]) < BufSize
        <4>1. /\ ch[s] \in Seq(Events) /\ Append(ch[s], e) \in Seq(Events)
              /\ Len(Append(ch[s], e)) = Len(ch[s]) + 1
              /\ Len(ch[s]) \in Nat
              /\ Append(sent[s], e) \in Seq(Events)
          BY RangeAppend DEF TypeOK, BusTypeOK
        <4>2. /\ ch' = [ch EXCEPT ![s] = Append(ch[s], e)]
              /\ sent' = [sent EXCEPT ![s] = Append(sent[s], e)]
              /\ dropped' = dropped
          BY <1>3, <3>1, <4>1 DEF PublishSend
        <4>3. ch' \in [Subs -> Seq(Events)] /\ sent' \in [Subs -> Seq(Events)]
          BY <4>1, <4>2 DEF TypeOK, BusTypeOK
        <4>4. \A t \in Subs : Len(ch'[t]) <= BufSize
          BY <3>1, <4>1, <4>2 DEF TypeOK, BusTypeOK
        <4>5. QED
          BY <1>3, <4>2, <4>3, <4>4 DEF PublishSend, TypeOK, BusTypeOK, LikeTypeOK, PubStates
      <3>2. CASE ~(Len(ch[s]) < BufSize)
        BY <1>3, <3>2 DEF PublishSend, TypeOK, BusTypeOK, LikeTypeOK, PubStates
      <3>3. QED
        BY <3>1, <3>2
    <2>2. HandInv' /\ DrainInv'
      BY <1>3 DEF PublishSend, HandInv, Handling, DrainInv
    <2>3. PhaseInv'
      BY <1>3 DEF PublishSend, PhaseInv, InFlight, TypeOK, BusTypeOK, PubStates
    <2>4. NoStrandedEvent'
      <3>1. SUFFICES ASSUME ~httpTimedOut, NEW t \in Subs, sub[t] \in {"defer", "returned"}
                     PROVE  FALSE
        BY <1>3 DEF PublishSend, NoStrandedEvent
      <3>2. main \in AfterHttp
        BY <3>1 DEF PhaseInv, AfterHttp, AfterCancel
      <3>3. ~InFlight(e)
        BY <3>1, <3>2 DEF PhaseInv
      <3>4. QED
        BY <1>3, <3>3 DEF PublishSend, InFlight
    <2>5. QED
      BY <2>1, <2>2, <2>3, <2>4
  <1>4. QED
    BY <1>1, <1>2, <1>3 DEF PublishStep

\* The steps of a Subscribe goroutine outside its handler.
LEMMA SubscribePreserves ==
    ASSUME IndInv, NEW s \in Subs, SubscribeStep(s), UNCHANGED <<likeVars, mainVars>>
    PROVE  IndInv'
  <1> USE BusAssumption DEF likeVars, mainVars
  <1> USE DEF IndInv
  <1>0. /\ sub \in [Subs -> SubStates]
        /\ \A t \in Subs : sub[t] # "returned" => loop \in {"select", "flushLikes", "flushUnlikes", "wait"}
    BY DEF TypeOK, BusTypeOK, LikeTypeOK, LoopStates, DrainInv
  <1>1. ASSUME NEW from, NEW to, Receive(s, from, to),
               \/ from = "select" /\ to = "handle"
               \/ from = "drain" /\ to = "drainHandle"
        PROVE  IndInv'
    <2>1. /\ Head(ch[s]) \in Events
          /\ Tail(ch[s]) \in Seq(Events)
          /\ Len(Tail(ch[s])) <= BufSize
      <3>1. ch[s] \in Seq(Events) /\ ch[s] # <<>> /\ Len(ch[s]) <= BufSize
        BY <1>1 DEF Receive, TypeOK, BusTypeOK
      <3>2. QED
        BY <3>1, RangeHeadTail
    <2>2. TypeOK'
      <3>1. /\ ch' \in [Subs -> Seq(Events)]
            /\ \A t \in Subs : Len(ch'[t]) <= BufSize
        BY <1>1, <2>1 DEF Receive, TypeOK, BusTypeOK
      <3>2. QED
        BY <1>1, <2>1, <3>1 DEF Receive, TypeOK, BusTypeOK, LikeTypeOK, SubStates
    <2>3. HandInv'
      BY <1>0, <1>1, <2>1 DEF Receive, HandInv, Handling, TypeOK, BusTypeOK
    <2>4. DrainInv'
      BY <1>0, <1>1 DEF Receive, DrainInv
    <2>5. PhaseInv'
      BY <1>0, <1>1 DEF Receive, PhaseInv, InFlight
    <2>6. NoStrandedEvent'
      BY <1>0, <1>1 DEF Receive, NoStrandedEvent, TypeOK, BusTypeOK
    <2>7. QED
      BY <2>2, <2>3, <2>4, <2>5, <2>6
  <1>2. CASE SubscribeRegister(s)
    <2>1. TypeOK'
      BY <1>2 DEF SubscribeRegister, TypeOK, BusTypeOK, LikeTypeOK, SubStates
    <2>2. HandInv' /\ DrainInv' /\ NoStrandedEvent'
      BY <1>0, <1>2 DEF SubscribeRegister, HandInv, Handling, DrainInv, NoStrandedEvent
    <2>3. PhaseInv'
      BY <1>0, <1>2 DEF SubscribeRegister, PhaseInv, InFlight
    <2>4. QED
      BY <2>1, <2>2, <2>3
  <1>3. CASE SubscribeCtxDone(s)
    <2>1. TypeOK'
      BY <1>3 DEF SubscribeCtxDone, TypeOK, BusTypeOK, LikeTypeOK, SubStates
    <2>2. HandInv' /\ DrainInv' /\ NoStrandedEvent'
      BY <1>0, <1>3 DEF SubscribeCtxDone, HandInv, Handling, DrainInv, NoStrandedEvent
    <2>3. PhaseInv'
      BY <1>0, <1>3 DEF SubscribeCtxDone, PhaseInv, InFlight
    <2>4. QED
      BY <2>1, <2>2, <2>3
  <1>4. CASE DrainEmpty(s)
    <2>1. TypeOK'
      BY <1>4 DEF DrainEmpty, TypeOK, BusTypeOK, LikeTypeOK, SubStates
    <2>2. HandInv' /\ DrainInv' /\ NoStrandedEvent'
      BY <1>0, <1>4 DEF DrainEmpty, HandInv, Handling, DrainInv, NoStrandedEvent
    <2>3. PhaseInv'
      BY <1>0, <1>4 DEF DrainEmpty, PhaseInv, InFlight
    <2>4. QED
      BY <2>1, <2>2, <2>3
  <1>5. CASE Unregister(s)
    <2>1. TypeOK'
      BY <1>5 DEF Unregister, TypeOK, BusTypeOK, LikeTypeOK, SubStates
    <2>2. HandInv' /\ DrainInv' /\ NoStrandedEvent'
      BY <1>0, <1>5 DEF Unregister, HandInv, Handling, DrainInv, NoStrandedEvent
    <2>3. PhaseInv'
      BY <1>0, <1>5 DEF Unregister, PhaseInv, InFlight
    <2>4. QED
      BY <2>1, <2>2, <2>3
  <1>6. QED
    BY <1>1, <1>2, <1>3, <1>4, <1>5 DEF SubscribeStep, SubscribeRecv, DrainRecv

\* The handlers' steps: an event moves to eventCh or is given up, and the
\* goroutine returns to the loop it was called from.
LEMMA HandlerPreserves ==
    ASSUME IndInv, NEW s \in Subs, HandlerStep(s), UNCHANGED mainVars
    PROVE  IndInv'
  <1> USE BusAssumption, LikeConsumerAssumption DEF mainVars
  <1> USE DEF IndInv
  <1>1. /\ sub \in [Subs -> SubStates] /\ hand \in [Subs -> Events \cup {NoEvent}]
        /\ Handling(s)
        /\ hand[s] \in Events
        /\ HandlerReturn(s)
        /\ UNCHANGED <<closed, subs, ch, pub, todo, cancelled, sent, dropped>>
        /\ UNCHANGED <<likeBuf, unlikeBuf, loop, mysqlClosed, stored, failed>>
    BY DEF HandlerStep, HandlerForward, HandlerCtxDone, HandInv, TypeOK, BusTypeOK
  <1>2. loop \in {"select", "flushLikes", "flushUnlikes", "wait"}
    BY <1>1 DEF TypeOK, LikeTypeOK, LoopStates, DrainInv, Handling
  <1>3. /\ sub' = [sub EXCEPT ![s] = IF sub[s] = "handle" THEN "select" ELSE "drain"]
        /\ hand' = [hand EXCEPT ![s] = NoEvent]
    BY <1>1 DEF HandlerReturn
  <1>4. TypeOK'
    <2>1. BusTypeOK'
      BY <1>1, <1>3 DEF TypeOK, BusTypeOK, SubStates
    <2>2. /\ eventCh' \in Seq(Events) /\ Len(eventCh') <= EventChCap
          /\ skipped' \subseteq Events
      <3>1. CASE HandlerForward(s)
        <4>1. eventCh' = Append(eventCh, hand[s]) /\ Len(eventCh) < EventChCap
          BY <3>1 DEF HandlerForward
        <4>2. eventCh \in Seq(Events) /\ Len(eventCh) \in Nat
          BY DEF TypeOK, LikeTypeOK
        <4>3. eventCh' \in Seq(Events) /\ Len(eventCh') = Len(eventCh) + 1
          BY <1>1, <4>1, <4>2, RangeAppend
        <4>4. QED
          BY <3>1, <4>1, <4>2, <4>3 DEF HandlerForward, TypeOK, LikeTypeOK
      <3>2. CASE HandlerCtxDone(s)
        BY <1>1, <3>2 DEF HandlerCtxDone, TypeOK, LikeTypeOK
      <3>3. QED
        BY <3>1, <3>2 DEF HandlerStep
    <2>3. QED
      BY <1>1, <2>1, <2>2 DEF TypeOK, LikeTypeOK
  <1>5. HandInv'
    BY <1>1, <1>3 DEF HandInv, Handling
  <1>6. DrainInv'
    BY <1>1, <1>2 DEF DrainInv
  <1>7. PhaseInv'
    BY <1>1, <1>3 DEF PhaseInv, InFlight, Handling
  <1>8. NoStrandedEvent'
    BY <1>1, <1>3 DEF NoStrandedEvent
  <1>9. QED
    BY <1>4, <1>5, <1>6, <1>7, <1>8

\* The flush loop: what each stage of the final drain has emptied stays empty,
\* because the subscribers, the only senders, have returned.
LEMMA LoopPreserves ==
    ASSUME IndInv, LoopStep, UNCHANGED mainVars
    PROVE  IndInv'
  <1> USE BusAssumption, LikeConsumerAssumption DEF mainVars
  <1> USE DEF IndInv
  <1>1. UNCHANGED <<busVars, mysqlClosed, skipped>>
    BY DEF LoopStep, LoopRecv, LoopTick, LoopCtxDone, SubWgWait, DrainChanRecv,
           DrainChanEmpty, FlushLikes, FlushUnlikes
  <1>2. HandInv' /\ NoStrandedEvent'
    BY <1>1 DEF busVars, HandInv, Handling, NoStrandedEvent
  <1>3. loop # "returned"
    BY DEF LoopStep, LoopRecv, LoopTick, LoopCtxDone, SubWgWait, DrainChanRecv,
           DrainChanEmpty, FlushLikes, FlushUnlikes
  <1>4. PhaseInv'
    BY <1>1, <1>3 DEF busVars, PhaseInv, InFlight
  <1>5. ASSUME TakeEvent
        PROVE  /\ eventCh' \in Seq(Events) /\ Len(eventCh') <= EventChCap
               /\ likeBuf' \in Seq(Events) /\ unlikeBuf' \in Seq(Events)
    <2>1. /\ eventCh \in Seq(Events) /\ eventCh # <<>> /\ Len(eventCh) <= EventChCap
          /\ likeBuf \in Seq(Events) /\ unlikeBuf \in Seq(Events)
      BY <1>5 DEF TakeEvent, TypeOK, LikeTypeOK
    <2>2. /\ Head(eventCh) \in Events /\ Tail(eventCh) \in Seq(Events)
          /\ Len(Tail(eventCh)) = Len(eventCh) - 1 /\ Len(eventCh) \in Nat
      BY <2>1, RangeHeadTail
    <2>3. /\ Append(likeBuf, Head(eventCh)) \in Seq(Events)
          /\ Append(unlikeBuf, Head(eventCh)) \in Seq(Events)
      BY <2>1, <2>2, RangeAppend
    <2>4. eventCh' \in Seq(Events) /\ Len(eventCh') <= EventChCap
      BY <1>5, <2>1, <2>2 DEF TakeEvent
    <2>5. likeBuf' \in Seq(Events) /\ unlikeBuf' \in Seq(Events)
      BY <1>5, <2>1, <2>3 DEF TakeEvent
    <2>6. QED
      BY <2>4, <2>5
  <1>6. ASSUME NEW batch \in Seq(Events), WriteBatch(batch)
        PROVE  stored' \in Seq(Events) /\ failed' \in Seq(Events)
    <2>1. stored \o batch \in Seq(Events) /\ failed \o batch \in Seq(Events)
      BY DEF TypeOK, LikeTypeOK
    <2>2. QED
      BY <1>6, <2>1 DEF WriteBatch, TypeOK, LikeTypeOK
  <1>7. BusTypeOK'
    BY <1>1 DEF busVars, TypeOK, BusTypeOK
  <1>8. CASE LoopRecv \/ DrainChanRecv
    <2>1. TypeOK'
      BY <1>1, <1>5, <1>7, <1>8 DEF LoopRecv, DrainChanRecv, TypeOK, LikeTypeOK, LoopStates
    <2>2. DrainInv'
      BY <1>1, <1>8 DEF LoopRecv, DrainChanRecv, DrainInv, busVars
    <2>3. QED
      BY <1>2, <1>4, <2>1, <2>2
  <1>9. CASE LoopTick \/ LoopCtxDone \/ SubWgWait \/ DrainChanEmpty
    <2>1. TypeOK'
      BY <1>1, <1>7, <1>9 DEF LoopTick, LoopCtxDone, SubWgWait, DrainChanEmpty, TypeOK,
                              LikeTypeOK, LoopStates
    <2>2. DrainInv'
      BY <1>1, <1>9 DEF LoopTick, LoopCtxDone, SubWgWait, DrainChanEmpty, Buffered,
                        DrainInv, busVars
    <2>3. QED
      BY <1>2, <1>4, <2>1, <2>2
  <1>10. CASE FlushLikes \/ FlushUnlikes
    <2>1. TypeOK'
      <3>1. likeBuf \in Seq(Events) /\ unlikeBuf \in Seq(Events)
        BY DEF TypeOK, LikeTypeOK
      <3>2. stored' \in Seq(Events) /\ failed' \in Seq(Events)
        BY <1>6, <1>10, <3>1 DEF FlushLikes, FlushUnlikes
      <3>3. likeBuf' \in Seq(Events) /\ unlikeBuf' \in Seq(Events) /\ eventCh' = eventCh
        <4>1. <<>> \in Seq(Events)
          OBVIOUS
        <4>2. \/ likeBuf' = <<>> /\ unlikeBuf' = unlikeBuf /\ eventCh' = eventCh
              \/ unlikeBuf' = <<>> /\ likeBuf' = likeBuf /\ eventCh' = eventCh
          BY <1>10 DEF FlushLikes, FlushUnlikes
        <4>3. QED
          BY <3>1, <4>1, <4>2
      <3>4. loop' \in LoopStates
        BY <1>10 DEF FlushLikes, FlushUnlikes, LoopStates
      <3>5. QED
        BY <1>1, <1>7, <3>2, <3>3, <3>4 DEF TypeOK, LikeTypeOK
    <2>2. DrainInv'
      BY <1>1, <1>10 DEF FlushLikes, FlushUnlikes, DrainInv, busVars
    <2>3. QED
      BY <1>2, <1>4, <2>1, <2>2
  <1>11. QED
    BY <1>8, <1>9, <1>10 DEF LoopStep

\* main: each phase starts only when the one before it has been waited for or
\* has timed out.
LEMMA MainPreserves ==
    ASSUME IndInv,
           \/ \E e \in Events : BeginRequest(e)
           \/ MainStep
           \/ Signal
           \/ Phase1Deadline
           \/ ManagerDeadline
    PROVE  IndInv'
  <1> USE DEF IndInv
  <1>1. CASE \E e \in Events : BeginRequest(e)
    <2>1. TypeOK'
      BY <1>1 DEF BeginRequest, likeVars, mainVars, TypeOK, BusTypeOK, LikeTypeOK, PubStates
    <2>2. HandInv' /\ DrainInv' /\ NoStrandedEvent'
      BY <1>1 DEF BeginRequest, likeVars, mainVars, HandInv, Handling, DrainInv, NoStrandedEvent
    <2>3. PhaseInv'
      BY <1>1 DEF BeginRequest, likeVars, mainVars, PhaseInv, InFlight, AfterHttp, TypeOK, BusTypeOK
    <2>4. QED
      BY <2>1, <2>2, <2>3
  <1>2. CASE Signal \/ Phase1Drained \/ Phase1Deadline \/ ManagerWaited \/ ManagerDeadline
             \/ CloseBusReturn \/ Exit
    <2> USE DEF Signal, Phase1Drained, Phase1Deadline, ManagerWaited, ManagerDeadline,
                CloseBusReturn, Exit
    <2>1. TypeOK'
      BY <1>2 DEF busVars, likeVars, TypeOK, BusTypeOK, LikeTypeOK, MainStates
    <2>2. HandInv' /\ DrainInv' /\ NoStrandedEvent'
      BY <1>2 DEF busVars, likeVars, HandInv, Handling, DrainInv, NoStrandedEvent
    <2>3. PhaseInv'
      BY <1>2 DEF busVars, likeVars, PhaseInv, InFlight, AfterHttp, AfterCancel, AfterManager
    <2>4. QED
      BY <2>1, <2>2, <2>3
  <1>3. CASE ManagerCancel
    <2>1. TypeOK'
      BY <1>3 DEF ManagerCancel, likeVars, TypeOK, BusTypeOK, LikeTypeOK, MainStates
    <2>2. HandInv' /\ DrainInv' /\ NoStrandedEvent'
      BY <1>3 DEF ManagerCancel, likeVars, HandInv, Handling, DrainInv, NoStrandedEvent
    <2>3. PhaseInv'
      BY <1>3 DEF ManagerCancel, likeVars, PhaseInv, InFlight, AfterHttp, AfterCancel, AfterManager
    <2>4. QED
      BY <2>1, <2>2, <2>3
  <1>4. CASE CloseBus \/ CloseMySQL
    <2> USE DEF CloseBus, Close, CloseMySQL
    <2>1. TypeOK'
      BY <1>4 DEF busVars, likeVars, mainVars, TypeOK, BusTypeOK, LikeTypeOK, MainStates
    <2>2. HandInv' /\ DrainInv' /\ NoStrandedEvent'
      BY <1>4 DEF busVars, likeVars, mainVars, HandInv, Handling, DrainInv, NoStrandedEvent
    <2>3. PhaseInv'
      BY <1>4 DEF busVars, likeVars, mainVars, PhaseInv, InFlight, AfterHttp, AfterCancel, AfterManager
    <2>4. QED
      BY <2>1, <2>2, <2>3
  <1>5. QED
    BY <1>1, <1>2, <1>3, <1>4 DEF MainStep

\* Every step of the server preserves the invariant.
LEMMA IndInvStep == IndInv /\ [Next]_vars => IndInv'
  <1> SUFFICES ASSUME IndInv, [Next]_vars PROVE IndInv'
    OBVIOUS
  <1>1. CASE UNCHANGED vars
    <2> USE <1>1 DEF vars, busVars, likeVars, mainVars, IndInv
    <2>1. TypeOK'
      BY DEF TypeOK, BusTypeOK, LikeTypeOK
    <2>2. HandInv' /\ DrainInv' /\ NoStrandedEvent'
      BY DEF HandInv, Handling, DrainInv, NoStrandedEvent
    <2>3. PhaseInv'
      BY DEF PhaseInv, InFlight
    <2>4. QED
      BY <2>1, <2>2, <2>3
  <1>2. CASE Next
    BY <1>1, <1>2, PublishPreserves, SubscribePreserves, HandlerPreserves,
       LoopPreserves, MainPreserves DEF Next, Terminated
  <1>3. QED
    BY <1>1, <1>2

\* The invariant holds in every reachable state of the server.
THEOREM InductiveInvariance == Spec => []IndInv
  BY IndInvInit, IndInvStep, PTL DEF Spec

\* Every variable keeps its type; in particular no channel ever holds more
\* events than its capacity, whatever the capacities are.
THEOREM TypeCorrectness == Spec => []TypeOK
  <1>1. IndInv => TypeOK
    BY DEF IndInv
  <1>2. QED
    BY <1>1, InductiveInvariance, PTL

\* When the flush loop has returned nothing is left in eventCh or in a buffer
\* and no subscriber is left that could add to them (like_consumer.go:221-242).
THEOREM DrainCompleteness == Spec => []DrainedOnReturn
  <1>1. IndInv => DrainedOnReturn
    BY DEF IndInv, DrainInv, DrainedOnReturn
  <1>2. QED
    BY <1>1, InductiveInvariance, PTL

\* Unless the HTTP phase timed out, no event is ever left in the channel of a
\* subscriber that has drained it, however the copied list of Publish and the
\* drain interleave (channel.go:48-65 against 87-98 and 124-141).
THEOREM NoStranding == Spec => []NoStrandedEvent
  <1>1. IndInv => NoStrandedEvent
    BY DEF IndInv
  <1>2. QED
    BY <1>1, InductiveInvariance, PTL

\* The bus and MySQL are closed behind the consumer and the request handlers
\* unless a deadline cut the wait short (main.go:303-353, manager.go:77-101).
THEOREM OrderOfShutdown == Spec => []ShutdownOrder
  <1>1. IndInv => ShutdownOrder
    BY DEF IndInv, PhaseInv, AfterHttp, AfterManager, ShutdownOrder
  <1>2. QED
    BY <1>1, InductiveInvariance, PTL

-----------------------------------------------------------------------------
(* No event vanishes between two stages *)

\* One step of any goroutine hands an event on to the next stage before the
\* stage it was in forgets it.
LEMMA CustodyStep == IndInv /\ NoSilentLoss /\ [Next]_vars => NoSilentLoss'
  <1> SUFFICES ASSUME IndInv, NoSilentLoss, [Next]_vars PROVE NoSilentLoss'
    OBVIOUS
  <1> DEFINE Kept(e, s) == Custody(e, s) => Custody(e, s)'
  <1>1. SUFFICES ASSUME NEW s \in Subs, NEW e \in Range(sent'[s]), e \notin Range(ch'[s])
                 PROVE  e \in Range(sent[s]) /\ Kept(e, s)
    BY DEF NoSilentLoss, Custody
  <1>2. /\ ch \in [Subs -> Seq(Events)] /\ sent \in [Subs -> Seq(Events)]
        /\ hand \in [Subs -> Events \cup {NoEvent}]
        /\ eventCh \in Seq(Events) /\ likeBuf \in Seq(Events) /\ unlikeBuf \in Seq(Events)
        /\ stored \in Seq(Events) /\ failed \in Seq(Events)
    BY DEF IndInv, TypeOK, BusTypeOK, LikeTypeOK
  <1>3. CASE UNCHANGED vars
    BY <1>1, <1>3 DEF vars, busVars, likeVars, Custody
  <1>4. CASE \E x \in Events : BeginRequest(x)
    BY <1>1, <1>4 DEF BeginRequest, likeVars, Custody
  <1>5. CASE MainStep \/ Signal \/ Phase1Deadline \/ ManagerDeadline
    <2>1. UNCHANGED <<ch, sent, hand, eventCh, likeBuf, unlikeBuf, stored, failed, skipped>>
      BY <1>5 DEF MainStep, Signal, Phase1Deadline, ManagerDeadline, Phase1Drained,
                  ManagerCancel, ManagerWaited, CloseBus, Close, CloseBusReturn,
                  CloseMySQL, Exit, busVars, likeVars
    <2>2. QED
      BY <1>1, <2>1 DEF Custody
  <1>6. ASSUME NEW x \in Events, PublishStep(x), UNCHANGED likeVars
        PROVE  e \in Range(sent[s]) /\ Kept(e, s)
    <2>1. hand' = hand
      BY <1>6 DEF PublishStep, PublishCheck, PublishSnapshot, PublishSend
    <2>2. CASE ch' = ch /\ sent' = sent
      BY <1>1, <1>6, <2>1, <2>2 DEF likeVars, Custody
    <2>3. ASSUME NEW t \in Subs, ch' = [ch EXCEPT ![t] = Append(ch[t], x)],
                 sent' = [sent EXCEPT ![t] = Append(sent[t], x)]
          PROVE  e \in Range(sent[s]) /\ Kept(e, s)
      <3>1. /\ Range(Append(ch[t], x)) = Range(ch[t]) \cup {x}
            /\ Range(Append(sent[t], x)) = Range(sent[t]) \cup {x}
        BY <1>2, RangeAppend
      <3>2. CASE s = t
        <4>1. e \in Range(sent[s]) \cup {x} /\ e # x
          BY <1>1, <1>2, <2>3, <3>1, <3>2
        <4>2. e \notin Range(ch[s])
          BY <1>1, <1>2, <2>3, <3>1, <3>2
        <4>3. QED
          BY <1>6, <2>1, <4>1, <4>2 DEF likeVars, Custody
      <3>3. CASE s # t
        <4>1. sent'[s] = sent[s] /\ ch'[s] = ch[s]
          BY <1>2, <2>3, <3>3
        <4>2. QED
          BY <1>1, <1>6, <2>1, <4>1 DEF likeVars, Custody
      <3>4. QED
        BY <3>2, <3>3
    <2>4. QED
      BY <1>6, <2>2, <2>3 DEF PublishStep, PublishCheck, PublishSnapshot, PublishSend
  <1>7. ASSUME NEW t \in Subs, SubscribeStep(t), UNCHANGED likeVars
        PROVE  e \in Range(sent[s]) /\ Kept(e, s)
    <2>1. sent' = sent
      BY <1>7 DEF SubscribeStep, SubscribeRegister, SubscribeRecv, SubscribeCtxDone,
                  DrainRecv, DrainEmpty, Unregister, Receive
    <2>2. CASE ch' = ch /\ hand' = hand
      BY <1>1, <1>7, <2>1, <2>2 DEF likeVars, Custody
    <2>3. CASE /\ ch[t] # <<>>
               /\ ch' = [ch EXCEPT ![t] = Tail(ch[t])]
               /\ hand' = [hand EXCEPT ![t] = Head(ch[t])]
               /\ ~Handling(t)
      <3>1. Range(ch[t]) = Range(Tail(ch[t])) \cup {Head(ch[t])}
        BY <1>2, <2>3, RangeHeadTail
      <3>2. CASE s = t
        <4>1. e \in Range(ch[s]) => e = hand'[s]
          BY <1>1, <1>2, <2>3, <3>1, <3>2
        <4>2. hand[s] \notin Events
          BY <2>3, <3>2 DEF IndInv, HandInv
        <4>3. e \in Events
          BY <1>1, <1>2, <2>1, RangeOfSeq
        <4>4. QED
          BY <1>1, <1>7, <2>1, <4>1, <4>2, <4>3 DEF likeVars, Custody
      <3>3. CASE s # t
        <4>1. ch'[s] = ch[s] /\ hand'[s] = hand[s]
          BY <1>2, <2>3, <3>3
        <4>2. QED
          BY <1>1, <1>7, <2>1, <4>1 DEF likeVars, Custody
      <3>4. QED
        BY <3>2, <3>3
    <2>4. QED
      BY <1>7, <2>2, <2>3 DEF SubscribeStep, SubscribeRegister, SubscribeRecv,
             SubscribeCtxDone, DrainRecv, DrainEmpty, Unregister, Receive, Handling
  <1>8. ASSUME NEW t \in Subs, HandlerStep(t)
        PROVE  e \in Range(sent[s]) /\ Kept(e, s)
    <2>1. /\ sent' = sent /\ ch' = ch /\ hand' = [hand EXCEPT ![t] = NoEvent]
          /\ UNCHANGED <<likeBuf, unlikeBuf, stored, failed>>
          /\ Handling(t)
      BY <1>8 DEF HandlerStep, HandlerForward, HandlerCtxDone, HandlerReturn
    <2>2. hand[t] \in Events
      BY <2>1 DEF IndInv, HandInv
    <2>3. Range(eventCh) \subseteq Range(eventCh') /\ skipped \subseteq skipped'
      <3>1. Range(Append(eventCh, hand[t])) = Range(eventCh) \cup {hand[t]}
        BY <1>2, <2>2, RangeAppend
      <3>2. QED
        BY <1>8, <3>1 DEF HandlerStep, HandlerForward, HandlerCtxDone
    <2>4. hand[t] \in Range(eventCh') \cup skipped'
      <3>1. Range(Append(eventCh, hand[t])) = Range(eventCh) \cup {hand[t]}
        BY <1>2, <2>2, RangeAppend
      <3>2. QED
        BY <1>8, <3>1 DEF HandlerStep, HandlerForward, HandlerCtxDone
    <2>5. e = hand[s] => e = hand'[s] \/ e \in Range(eventCh') \cup skipped'
      <3>1. CASE s = t
        BY <2>4, <3>1
      <3>2. CASE s # t
        BY <1>2, <2>1, <3>2
      <3>3. QED
        BY <3>1, <3>2
    <2>6. QED
      BY <1>1, <2>1, <2>3, <2>5 DEF Custody
  <1>9. CASE LoopStep
    <2>1. sent' = sent /\ ch' = ch /\ hand' = hand /\ skipped' = skipped
      BY <1>9 DEF LoopStep, LoopRecv, LoopTick, LoopCtxDone, SubWgWait, DrainChanRecv,
             DrainChanEmpty, FlushLikes, FlushUnlikes, busVars
    <2>2. CASE LoopTick \/ LoopCtxDone \/ SubWgWait \/ DrainChanEmpty
      BY <1>1, <2>1, <2>2 DEF LoopTick, LoopCtxDone, SubWgWait, DrainChanEmpty, Custody
    <2>3. CASE TakeEvent /\ UNCHANGED <<stored, failed>>
      <3>1. Range(eventCh) = Range(Tail(eventCh)) \cup {Head(eventCh)} /\ Head(eventCh) \in Events
        BY <1>2, <2>3, RangeHeadTail DEF TakeEvent
      <3>2. /\ Range(Append(likeBuf, Head(eventCh))) = Range(likeBuf) \cup {Head(eventCh)}
            /\ Range(Append(unlikeBuf, Head(eventCh))) = Range(unlikeBuf) \cup {Head(eventCh)}
        BY <1>2, <3>1, RangeAppend
      <3>3. /\ Range(likeBuf) \subseteq Range(likeBuf')
            /\ Range(unlikeBuf) \subseteq Range(unlikeBuf')
            /\ Head(eventCh) \in Range(likeBuf') \cup Range(unlikeBuf')
            /\ eventCh' = Tail(eventCh)
        BY <2>3, <3>2 DEF TakeEvent
      <3>4. QED
        BY <1>1, <2>1, <2>3, <3>1, <3>3 DEF Custody
    <2>4. ASSUME NEW batch \in Seq(Events), WriteBatch(batch)
          PROVE  /\ Range(stored) \subseteq Range(stored')
                 /\ Range(failed) \subseteq Range(failed')
                 /\ Range(batch) \subseteq Range(stored') \cup Range(failed')
      <3>1. /\ Range(stored \o batch) = Range(stored) \cup Range(batch)
            /\ Range(failed \o batch) = Range(failed) \cup Range(batch)
        BY <1>2, RangeConcatenation
      <3>2. QED
        BY <2>4, <3>1 DEF WriteBatch
    <2>5. CASE FlushLikes
      <3>1. /\ UNCHANGED <<eventCh, unlikeBuf>> /\ WriteBatch(likeBuf)
        BY <2>5 DEF FlushLikes
      <3>2. QED
        BY <1>1, <1>2, <2>1, <2>4, <3>1 DEF Custody
    <2>6. CASE FlushUnlikes
      <3>1. /\ UNCHANGED <<eventCh, likeBuf>> /\ WriteBatch(unlikeBuf)
        BY <2>6 DEF FlushUnlikes
      <3>2. QED
        BY <1>1, <1>2, <2>1, <2>4, <3>1 DEF Custody
    <2>7. QED
      BY <1>9, <2>2, <2>3, <2>5, <2>6 DEF LoopStep, LoopRecv, DrainChanRecv
  <1>10. QED
    BY <1>3, <1>4, <1>5, <1>6, <1>7, <1>8, <1>9 DEF Next, Terminated

\* Every event the bus put on a subscriber's channel stays accounted for: it is
\* in some stage of the pipeline, stored, or lost at one of the two places the
\* code gives events up (a failed batch, a handler at ctx.Done()).
THEOREM Accounting == Spec => []NoSilentLoss
  <1>1. Init => NoSilentLoss
    BY DEF Init, BusInit, NoSilentLoss, Range
  <1>2. QED
    BY <1>1, CustodyStep, InductiveInvariance, PTL DEF Spec

-----------------------------------------------------------------------------
(***************************************************************************)
(* The server implements EventDelivery.                                    *)
(*                                                                         *)
(* The abstract charge is a set, so a step that hands an event on must be  *)
(* invisible and a step that disposes of one must really remove it: an     *)
(* event may be in one place only.  That is what CustodyInv adds to        *)
(* IndInv.  It rests on the subscriber list Publish copies: a topic has    *)
(* one subscription, so an event is offered to one channel, once.          *)
(***************************************************************************)

\* The events the subscriber goroutine of s answers for.
Upstream(s) == Range(ch[s]) \cup ({hand[s]} \ {NoEvent})

\* The events the flush loop answers for.
Downstream == Range(eventCh) \cup Range(likeBuf) \cup Range(unlikeBuf)

\* Publish offers an event to the subscription of its topic, and an event that
\* is anywhere in the server has been offered.
OfferInv ==
    /\ \A e \in Events : \A s \in todo[e] : SubTopic[s] = TopicOf[e]
    /\ \A e \in InCharge \cup Range(stored) \cup Range(failed) \cup skipped : pub[e] = "done"

\* Events are kept apart by topic.
TopicInv ==
    /\ \A s \in Subs : \A e \in Upstream(s) : TopicOf[e] = SubTopic[s]
    /\ \A e \in Range(likeBuf) : TopicOf[e] = TopicLike
    /\ \A e \in Range(unlikeBuf) : TopicOf[e] # TopicLike

\* No event is in two places of the pipeline, nor twice in a queue.
PlaceInv ==
    /\ \A s \in Subs : IsInjective(ch[s]) /\ hand[s] \notin Range(ch[s])
    /\ IsInjective(eventCh)
    /\ \A s \in Subs : Upstream(s) \cap Downstream = {}
    /\ Range(eventCh) \cap (Range(likeBuf) \cup Range(unlikeBuf)) = {}

CustodyInv == OfferInv /\ TopicInv /\ PlaceInv

\* A queue without repetitions stays one when a new element joins it.
LEMMA InjectiveAppend ==
    ASSUME NEW S, NEW q \in Seq(S), IsInjective(q), NEW x \in S, x \notin Range(q)
    PROVE  IsInjective(Append(q, x))
  <1>1. /\ Append(q, x) \in Seq(S) /\ DOMAIN Append(q, x) = 1..Len(q) + 1
        /\ \A i \in 1..Len(q) : Append(q, x)[i] = q[i]
        /\ Append(q, x)[Len(q) + 1] = x
        /\ DOMAIN q = 1..Len(q) /\ Len(q) \in Nat
    OBVIOUS
  <1>2. \A i \in 1..Len(q) : q[i] # x
    BY <1>1, RangeEquality
  <1>3. QED
    BY <1>1, <1>2 DEF IsInjective

\* Taking the head of a queue without repetitions removes that element.
LEMMA InjectiveTail ==
    ASSUME NEW S, NEW q \in Seq(S), IsInjective(q), q # <<>>
    PROVE  IsInjective(Tail(q)) /\ Head(q) \notin Range(Tail(q))
  <1>1. /\ Tail(q) \in Seq(S) /\ DOMAIN Tail(q) = 1..Len(q) - 1 /\ Len(Tail(q)) = Len(q) - 1
        /\ \A i \in 1..Len(q) - 1 : Tail(q)[i] = q[i + 1]
        /\ Head(q) = q[1]
        /\ DOMAIN q = 1..Len(q) /\ Len(q) \in Nat \ {0}
    OBVIOUS
  <1>2. \A i, j \in 1..Len(q) : q[i] = q[j] => i = j
    BY <1>1 DEF IsInjective
  <1>3. IsInjective(Tail(q))
    <2>1. SUFFICES ASSUME NEW i \in 1..Len(q) - 1, NEW j \in 1..Len(q) - 1,
                          q[i + 1] = q[j + 1]
                   PROVE  i = j
      BY <1>1 DEF IsInjective
    <2>2. i + 1 \in 1..Len(q) /\ j + 1 \in 1..Len(q)
      BY <1>1
    <2>3. i + 1 = j + 1
      BY <1>2, <2>1, <2>2
    <2>4. QED
      BY <2>3
  <1>4. Head(q) \notin Range(Tail(q))
    <2>0. Range(Tail(q)) = {Tail(q)[i] : i \in 1..Len(q) - 1}
      BY <1>1, RangeEquality
    <2>1. SUFFICES ASSUME NEW i \in 1..Len(q) - 1, q[i + 1] = q[1] PROVE FALSE
      BY <1>1, <2>0
    <2>2. i + 1 \in 1..Len(q) /\ 1 \in 1..Len(q) /\ i + 1 # 1
      BY <1>1
    <2>3. QED
      BY <1>2, <2>1, <2>2
  <1>5. QED
    BY <1>3, <1>4

\* The charge is what the two sides of the pipeline hold, before and after a step.
LEMMA ChargeSplit ==
    /\ \A e : e \in InCharge <=> e \in Downstream \/ \E s \in Subs : e \in Upstream(s)
    /\ \A e : e \in InCharge' <=> e \in Downstream' \/ \E s \in Subs : e \in Upstream(s)'
  BY DEF InCharge, Downstream, Upstream

\* What the invariants say of the places an event can be in.
LEMMA Places ==
    ASSUME IndInv
    PROVE  /\ ch \in [Subs -> Seq(Events)]
           /\ hand \in [Subs -> Events \cup {NoEvent}]
           /\ eventCh \in Seq(Events)
           /\ likeBuf \in Seq(Events)
           /\ unlikeBuf \in Seq(Events)
           /\ stored \in Seq(Events)
           /\ failed \in Seq(Events)
           /\ pub \in [Events -> PubStates]
           /\ todo \in [Events -> SUBSET Subs]
           /\ \A s \in Subs : Range(ch[s]) \subseteq Events
           /\ InCharge \cup Range(stored) \cup Range(failed) \cup skipped \subseteq Events
  <1>1. /\ ch \in [Subs -> Seq(Events)]
        /\ hand \in [Subs -> Events \cup {NoEvent}]
        /\ eventCh \in Seq(Events) /\ likeBuf \in Seq(Events) /\ unlikeBuf \in Seq(Events)
        /\ stored \in Seq(Events) /\ failed \in Seq(Events) /\ skipped \subseteq Events
        /\ pub \in [Events -> PubStates]
        /\ todo \in [Events -> SUBSET Subs]
    BY DEF IndInv, TypeOK, BusTypeOK, LikeTypeOK
  <1>2. /\ \A s \in Subs : Range(ch[s]) \subseteq Events
        /\ Range(eventCh) \subseteq Events /\ Range(likeBuf) \subseteq Events
        /\ Range(unlikeBuf) \subseteq Events
        /\ Range(stored) \subseteq Events /\ Range(failed) \subseteq Events
    BY <1>1, RangeOfSeq
  <1>3. InCharge \subseteq Events
    BY <1>1, <1>2 DEF InCharge
  <1>4. QED
    BY <1>1, <1>2, <1>3

\* A step that touches no stage and no event in it is invisible to a publisher.
LEMMA QuietStep ==
    ASSUME CustodyInv,
           UNCHANGED <<ch, hand, eventCh, likeBuf, unlikeBuf, stored, failed, skipped>>,
           \A e \in InCharge \cup Range(stored) \cup Range(failed) \cup skipped :
              pub'[e] = pub[e],
           \A e \in Events : \A s \in todo'[e] : SubTopic[s] = TopicOf[e]
    PROVE  /\ CustodyInv'
           /\ InCharge' = InCharge
           /\ cancelled' = cancelled => UNCHANGED Delivery!vars
  <1>1. InCharge' = InCharge
    BY DEF InCharge
  <1>2. OfferInv'
    BY <1>1 DEF CustodyInv, OfferInv
  <1>3. TopicInv'
    BY DEF CustodyInv, TopicInv, Upstream
  <1>4. PlaceInv'
    BY DEF CustodyInv, PlaceInv, Upstream, Downstream
  <1>5. QED
    BY <1>1, <1>2, <1>3, <1>4 DEF CustodyInv, Delivery!vars

\* Publish: the send that finds room is the acceptance of an event nobody has
\* seen yet; every other step of a publisher is invisible.
LEMMA PublishDelivers ==
    ASSUME IndInv, CustodyInv, NEW e \in Events, PublishStep(e), UNCHANGED <<likeVars, mainVars>>
    PROVE  CustodyInv' /\ [Delivery!Next]_Delivery!vars
  <1> USE BusAssumption, LikeConsumerAssumption
  <1>1. UNCHANGED <<hand, eventCh, likeBuf, unlikeBuf, stored, failed, skipped, cancelled>>
    BY DEF PublishStep, PublishCheck, PublishSnapshot, PublishSend, likeVars
  <1>2. /\ e \notin InCharge \cup Range(stored) \cup Range(failed) \cup skipped
        /\ \A x \in Events : x # e => pub'[x] = pub[x]
        /\ \A x \in InCharge \cup Range(stored) \cup Range(failed) \cup skipped : pub'[x] = pub[x]
    <2>1. pub[e] # "done" /\ \A x \in Events : x # e => pub'[x] = pub[x]
      BY Places DEF PublishStep, PublishCheck, PublishSnapshot, PublishSend
    <2>2. QED
      BY <2>1, Places DEF CustodyInv, OfferInv
  <1>3. \A x \in Events : \A s \in todo'[x] : SubTopic[s] = TopicOf[x]
    <2>1. \A x \in Events : \A s \in todo[x] : SubTopic[s] = TopicOf[x]
      BY DEF CustodyInv, OfferInv
    <2>2. CASE PublishCheck(e)
      BY <2>1, <2>2 DEF PublishCheck
    <2>3. CASE PublishSnapshot(e)
      BY <2>1, <2>3, Places DEF PublishSnapshot
    <2>4. ASSUME NEW s \in Subs, PublishSend(e, s)
          PROVE  \A x \in Events : todo'[x] \subseteq todo[x]
      BY <2>4, Places DEF PublishSend
    <2>5. QED
      BY <2>1, <2>2, <2>3, <2>4 DEF PublishStep
  <1>4. CASE ch' = ch
    BY <1>1, <1>2, <1>3, <1>4, QuietStep
  <1>5. ASSUME NEW s \in Subs, PublishSend(e, s), ch' = [ch EXCEPT ![s] = Append(ch[s], e)]
        PROVE  CustodyInv' /\ Delivery!Accept(e)
    <2>1. ch'[s] = Append(ch[s], e) /\ \A t \in Subs : t # s => ch'[t] = ch[t]
      BY <1>5, Places
    <2>2. Range(ch'[s]) = Range(ch[s]) \cup {e}
      BY <2>1, Places, RangeAppend
    <2>3. /\ Upstream(s)' = Upstream(s) \cup {e}
          /\ \A t \in Subs : t # s => Upstream(t)' = Upstream(t)
          /\ Downstream' = Downstream
      BY <1>1, <2>1, <2>2 DEF Upstream, Downstream
    <2>4. InCharge' = InCharge \cup {e}
      BY <2>3, ChargeSplit
    <2>5. SubTopic[s] = TopicOf[e] /\ pub'[e] = "done"
      <3>1. SubTopic[s] = TopicOf[e] /\ s \in todo[e]
        BY <1>5 DEF PublishSend, CustodyInv, OfferInv
      <3>2. todo[e] = {s}
        BY <3>1, Places DEF CustodyInv, OfferInv
      <3>3. QED
        BY <1>5, <3>1, <3>2, Places DEF PublishSend
    <2>6. OfferInv'
      BY <1>1, <1>2, <1>3, <2>4, <2>5 DEF CustodyInv, OfferInv
    <2>7. TopicInv'
      BY <1>1, <2>3, <2>5 DEF CustodyInv, TopicInv
    <2>8. PlaceInv'
      <3>1. e \notin Range(ch[s]) /\ e \notin Downstream /\ hand[s] # e
        BY <1>2, ChargeSplit DEF Upstream
      <3>2. IsInjective(ch'[s]) /\ hand'[s] \notin Range(ch'[s])
        BY <1>1, <2>1, <2>2, <3>1, Places, InjectiveAppend DEF CustodyInv, PlaceInv
      <3>3. \A t \in Subs : IsInjective(ch'[t]) /\ hand'[t] \notin Range(ch'[t])
        BY <1>1, <2>1, <3>2 DEF CustodyInv, PlaceInv
      <3>4. \A t \in Subs : Upstream(t)' \cap Downstream' = {}
        BY <2>3, <3>1 DEF CustodyInv, PlaceInv
      <3>5. QED
        BY <1>1, <3>3, <3>4 DEF CustodyInv, PlaceInv
    <2>9. QED
      BY <1>1, <1>2, <2>4, <2>6, <2>7, <2>8 DEF CustodyInv, Delivery!Accept
  <1>6. QED
    BY <1>4, <1>5 DEF PublishStep, PublishCheck, PublishSnapshot, PublishSend, Delivery!Next

\* Subscribe: the event taken off the channel is in its handler's hand at once.
LEMMA SubscribeDelivers ==
    ASSUME IndInv, CustodyInv, NEW s \in Subs, SubscribeStep(s), UNCHANGED <<likeVars, mainVars>>
    PROVE  CustodyInv' /\ UNCHANGED Delivery!vars
  <1> USE BusAssumption
  <1>1. UNCHANGED <<pub, todo, eventCh, likeBuf, unlikeBuf, stored, failed, skipped, cancelled>>
    BY DEF SubscribeStep, SubscribeRegister, SubscribeRecv, SubscribeCtxDone, DrainRecv,
           DrainEmpty, Unregister, Receive, likeVars
  <1>2. CASE ch' = ch /\ hand' = hand
    BY <1>1, <1>2, QuietStep DEF CustodyInv, OfferInv
  <1>3. ASSUME ch[s] # <<>>, ~Handling(s),
               ch' = [ch EXCEPT ![s] = Tail(ch[s])], hand' = [hand EXCEPT ![s] = Head(ch[s])]
        PROVE  CustodyInv' /\ UNCHANGED Delivery!vars
    <2>1. /\ ch'[s] = Tail(ch[s]) /\ hand'[s] = Head(ch[s])
          /\ \A t \in Subs : t # s => ch'[t] = ch[t] /\ hand'[t] = hand[t]
      BY <1>3, Places
    <2>2. /\ Range(ch[s]) = Range(ch'[s]) \cup {hand'[s]} /\ hand'[s] \in Events
          /\ IsInjective(ch'[s]) /\ hand'[s] \notin Range(ch'[s])
      <3>1. ch[s] \in Seq(Events) /\ IsInjective(ch[s])
        BY Places DEF CustodyInv, PlaceInv
      <3>2. QED
        BY <1>3, <2>1, <3>1, RangeHeadTail, InjectiveTail
    <2>3. hand[s] = NoEvent
      BY <1>3, Places DEF IndInv, HandInv
    <2>4. /\ \A t \in Subs : Upstream(t)' = Upstream(t)
          /\ Downstream' = Downstream
      BY <1>1, <2>1, <2>2, <2>3 DEF Upstream, Downstream
    <2>5. InCharge' = InCharge
      BY <2>4, ChargeSplit
    <2>6. OfferInv' /\ TopicInv'
      BY <1>1, <2>4, <2>5 DEF CustodyInv, OfferInv, TopicInv
    <2>7. PlaceInv'
      BY <1>1, <2>1, <2>2, <2>4 DEF CustodyInv, PlaceInv
    <2>8. QED
      BY <1>1, <2>5, <2>6, <2>7 DEF CustodyInv, Delivery!vars
  <1>4. QED
    BY <1>2, <1>3 DEF SubscribeStep, SubscribeRegister, SubscribeRecv, SubscribeCtxDone,
                      DrainRecv, DrainEmpty, Unregister, Receive, Handling

\* The handlers: forwarding is invisible, giving up at ctx.Done() abandons.
LEMMA HandlerDelivers ==
    ASSUME IndInv, CustodyInv, NEW s \in Subs, HandlerStep(s), UNCHANGED mainVars
    PROVE  CustodyInv' /\ [Delivery!Next]_Delivery!vars
  <1> USE BusAssumption, LikeConsumerAssumption
  <1> DEFINE e == hand[s]
  <1>1. /\ UNCHANGED <<ch, pub, todo, likeBuf, unlikeBuf, stored, failed, cancelled>>
        /\ hand' = [hand EXCEPT ![s] = NoEvent]
        /\ Handling(s)
    BY DEF HandlerStep, HandlerForward, HandlerCtxDone, HandlerReturn
  <1>2. /\ e \in Events /\ hand'[s] = NoEvent
        /\ \A t \in Subs : t # s => hand'[t] = hand[t]
        /\ \A t \in Subs : NoEvent \notin Range(ch[t])
    BY <1>1, Places DEF IndInv, HandInv
  <1>3. e \in Upstream(s) /\ e \notin Range(ch[s]) /\ e \notin Downstream /\ e \in InCharge
    BY <1>2, ChargeSplit DEF Upstream, CustodyInv, PlaceInv
  <1>4. \A t \in Subs : t # s => e \notin Upstream(t)
    BY <1>3 DEF CustodyInv, TopicInv
  <1>5. /\ Upstream(s)' = Upstream(s) \ {e}
        /\ \A t \in Subs : t # s => Upstream(t)' = Upstream(t)
    BY <1>1, <1>2, <1>3 DEF Upstream
  <1>6. \A t \in Subs : IsInjective(ch'[t]) /\ hand'[t] \notin Range(ch'[t])
    BY <1>1, <1>2 DEF CustodyInv, PlaceInv
  <1>7. TopicInv'
    BY <1>1, <1>5 DEF CustodyInv, TopicInv
  <1>8. CASE HandlerForward(s)
    <2>1. eventCh' = Append(eventCh, e) /\ skipped' = skipped
      BY <1>8 DEF HandlerForward
    <2>2. Range(eventCh') = Range(eventCh) \cup {e} /\ IsInjective(eventCh')
      <3>1. e \notin Range(eventCh) /\ IsInjective(eventCh)
        BY <1>3 DEF Downstream, CustodyInv, PlaceInv
      <3>2. QED
        BY <1>2, <2>1, <3>1, Places, RangeAppend, InjectiveAppend
    <2>3. Downstream' = Downstream \cup {e}
      BY <1>1, <2>2 DEF Downstream
    <2>4. InCharge' = InCharge
      <3>1. ASSUME NEW x, x \in InCharge' PROVE x \in InCharge
        BY <1>3, <1>5, <2>3, <3>1, ChargeSplit
      <3>2. ASSUME NEW x, x \in InCharge PROVE x \in InCharge'
        BY <1>5, <2>3, <3>2, ChargeSplit
      <3>3. QED
        BY <3>1, <3>2
    <2>5. OfferInv'
      BY <1>1, <2>1, <2>4 DEF CustodyInv, OfferInv
    <2>6. \A t \in Subs : Upstream(t)' \cap Downstream' = {}
      BY <1>4, <1>5, <2>3 DEF CustodyInv, PlaceInv
    <2>7. Range(eventCh') \cap (Range(likeBuf') \cup Range(unlikeBuf')) = {}
      BY <1>1, <1>3, <2>2 DEF Downstream, CustodyInv, PlaceInv
    <2>8. PlaceInv'
      BY <1>6, <2>2, <2>6, <2>7 DEF PlaceInv
    <2>9. QED
      BY <1>1, <1>7, <2>1, <2>4, <2>5, <2>8 DEF CustodyInv, Delivery!vars
  <1>9. CASE HandlerCtxDone(s)
    <2>1. cancelled /\ skipped' = skipped \cup {e} /\ eventCh' = eventCh
      BY <1>9 DEF HandlerCtxDone
    <2>2. Downstream' = Downstream
      BY <1>1, <2>1 DEF Downstream
    <2>3. InCharge' = InCharge \ {e}
      BY <1>3, <1>4, <1>5, <2>2, ChargeSplit
    <2>4. OfferInv'
      BY <1>1, <1>3, <2>1, <2>3 DEF CustodyInv, OfferInv
    <2>5. \A t \in Subs : Upstream(t)' \cap Downstream' = {}
      BY <1>5, <2>2 DEF CustodyInv, PlaceInv
    <2>6. PlaceInv'
      BY <1>1, <1>6, <2>1, <2>5 DEF CustodyInv, PlaceInv
    <2>7. Delivery!Abandon(e)
      BY <1>1, <2>1, <2>3 DEF Delivery!Abandon
    <2>8. QED
      BY <1>3, <1>7, <2>4, <2>6, <2>7 DEF CustodyInv, Delivery!Next
  <1>10. QED
    BY <1>8, <1>9 DEF HandlerStep

\* A batch leaves the charge as a whole: stored, or refused, which a statement
\* is only when the server is stopping or MySQL fails on its own.
LEMMA BatchDelivers ==
    ASSUME IndInv, NEW batch \in Seq(Events), Range(batch) \subseteq InCharge,
           WriteBatch(batch), InCharge' = InCharge \ Range(batch),
           UNCHANGED <<skipped, cancelled>>
    PROVE  [Delivery!Next]_Delivery!vars
  <1>1. /\ Range(stored \o batch) = Range(stored) \cup Range(batch)
        /\ Range(failed \o batch) = Range(failed) \cup Range(batch)
    BY Places, RangeConcatenation
  <1>2. CASE stored' = stored \o batch /\ failed' = failed
    <2>1. Delivery!Store(Range(batch))
      BY <1>1, <1>2 DEF Delivery!Store
    <2>2. QED
      BY <2>1 DEF Delivery!Next
  <1>3. CASE failed' = failed \o batch /\ stored' = stored /\ (~FlushCtxLive \/ mysqlClosed \/ MySQLMayFail)
    <2>1. cancelled \/ MySQLMayFail
      BY <1>3 DEF FlushCtxLive, IndInv, PhaseInv, AfterCancel, AfterManager
    <2>2. Delivery!Refuse(Range(batch))
      BY <1>1, <1>3, <2>1 DEF Delivery!Refuse
    <2>3. QED
      BY <2>2 DEF Delivery!Next
  <1>4. QED
    BY <1>2, <1>3 DEF WriteBatch

\* The flush loop: moving an event to its buffer is invisible, a flush disposes
\* of its batch.
LEMMA LoopDelivers ==
    ASSUME IndInv, CustodyInv, LoopStep, UNCHANGED mainVars
    PROVE  CustodyInv' /\ [Delivery!Next]_Delivery!vars
  <1> USE BusAssumption, LikeConsumerAssumption
  <1>1. UNCHANGED <<ch, hand, pub, todo, cancelled, skipped>>
    BY DEF LoopStep, LoopRecv, LoopTick, LoopCtxDone, SubWgWait, DrainChanRecv,
           DrainChanEmpty, FlushLikes, FlushUnlikes, busVars
  <1>2. \A s \in Subs : Upstream(s)' = Upstream(s)
    BY <1>1 DEF Upstream
  <1>3. CASE LoopTick \/ LoopCtxDone \/ SubWgWait \/ DrainChanEmpty
    <2>1. UNCHANGED <<eventCh, likeBuf, unlikeBuf, stored, failed>>
      BY <1>3 DEF LoopTick, LoopCtxDone, SubWgWait, DrainChanEmpty
    <2>2. QED
      BY <1>1, <2>1, QuietStep DEF CustodyInv, OfferInv
  <1>4. CASE TakeEvent /\ UNCHANGED <<stored, failed>>
    <2> DEFINE x == Head(eventCh)
    <2>1. /\ Range(eventCh) = Range(eventCh') \cup {x} /\ x \in Events
          /\ IsInjective(eventCh') /\ x \notin Range(eventCh')
      BY <1>4, Places, RangeHeadTail, InjectiveTail DEF TakeEvent, CustodyInv, PlaceInv
    <2>2. \/ /\ TopicOf[x] = TopicLike
             /\ Range(likeBuf') = Range(likeBuf) \cup {x} /\ unlikeBuf' = unlikeBuf
          \/ /\ TopicOf[x] # TopicLike
             /\ Range(unlikeBuf') = Range(unlikeBuf) \cup {x} /\ likeBuf' = likeBuf
      <3>1. /\ Range(Append(likeBuf, x)) = Range(likeBuf) \cup {x}
            /\ Range(Append(unlikeBuf, x)) = Range(unlikeBuf) \cup {x}
        BY <2>1, Places, RangeAppend
      <3>2. QED
        BY <1>4, <3>1 DEF TakeEvent
    <2>3. Downstream' = Downstream
      BY <2>1, <2>2 DEF Downstream
    <2>4. InCharge' = InCharge
      BY <1>2, <2>3, ChargeSplit
    <2>5. OfferInv' /\ TopicInv'
      BY <1>1, <1>2, <1>4, <2>2, <2>4 DEF CustodyInv, OfferInv, TopicInv
    <2>6. Range(eventCh') \cap (Range(likeBuf') \cup Range(unlikeBuf')) = {}
      BY <2>1, <2>2 DEF CustodyInv, PlaceInv
    <2>7. PlaceInv'
      BY <1>1, <1>2, <2>1, <2>3, <2>6 DEF CustodyInv, PlaceInv
    <2>8. QED
      BY <1>1, <1>4, <2>4, <2>5, <2>7 DEF CustodyInv, Delivery!vars
  <1>5. ASSUME NEW batch \in Seq(Events), WriteBatch(batch), Range(batch) \subseteq Downstream,
               Downstream' = Downstream \ Range(batch), eventCh' = eventCh,
               Range(likeBuf') \subseteq Range(likeBuf), Range(unlikeBuf') \subseteq Range(unlikeBuf)
        PROVE  CustodyInv' /\ [Delivery!Next]_Delivery!vars
    <2>1. /\ InCharge' = InCharge \ Range(batch)
          /\ Range(batch) \subseteq InCharge
      BY <1>2, <1>5, ChargeSplit DEF CustodyInv, PlaceInv
    <2>2. Range(stored') \cup Range(failed') = Range(stored) \cup Range(failed) \cup Range(batch)
      <3>1. /\ Range(stored \o batch) = Range(stored) \cup Range(batch)
            /\ Range(failed \o batch) = Range(failed) \cup Range(batch)
        BY <1>5, Places, RangeConcatenation
      <3>2. QED
        BY <1>5, <3>1 DEF WriteBatch
    <2>3. OfferInv' /\ TopicInv'
      BY <1>1, <1>2, <1>5, <2>1, <2>2 DEF CustodyInv, OfferInv, TopicInv
    <2>4. PlaceInv'
      BY <1>1, <1>2, <1>5 DEF CustodyInv, PlaceInv
    <2>5. QED
      BY <1>1, <1>5, <2>1, <2>3, <2>4, BatchDelivers DEF CustodyInv
  <1>6. /\ likeBuf \in Seq(Events) /\ unlikeBuf \in Seq(Events)
        /\ Range(likeBuf) \cap Range(unlikeBuf) = {}
        /\ Range(likeBuf) \cap Range(eventCh) = {}
        /\ Range(unlikeBuf) \cap Range(eventCh) = {}
        /\ Range(<<>>) = {}
    <2>1. Range(<<>>) = {}
      BY EmptySeq DEF Range
    <2>2. QED
      BY <2>1, Places DEF CustodyInv, TopicInv, PlaceInv
  <1>7. CASE FlushLikes
    <2>1. WriteBatch(likeBuf) /\ likeBuf' = <<>> /\ UNCHANGED <<eventCh, unlikeBuf>>
      BY <1>7 DEF FlushLikes
    <2>2. Range(likeBuf) \subseteq Downstream /\ Downstream' = Downstream \ Range(likeBuf)
      BY <1>6, <2>1 DEF Downstream
    <2>3. QED
      BY <1>5, <1>6, <2>1, <2>2
  <1>8. CASE FlushUnlikes
    <2>1. WriteBatch(unlikeBuf) /\ unlikeBuf' = <<>> /\ UNCHANGED <<eventCh, likeBuf>>
      BY <1>8 DEF FlushUnlikes
    <2>2. Range(unlikeBuf) \subseteq Downstream /\ Downstream' = Downstream \ Range(unlikeBuf)
      BY <1>6, <2>1 DEF Downstream
    <2>3. QED
      BY <1>5, <1>6, <2>1, <2>2
  <1>9. QED
    BY <1>3, <1>4, <1>7, <1>8 DEF LoopStep, LoopRecv, DrainChanRecv

\* main: cancelling the consumers is the abstract Stop, the rest is invisible.
LEMMA MainDelivers ==
    ASSUME IndInv, CustodyInv,
           \/ \E e \in Events : BeginRequest(e)
           \/ MainStep
           \/ Signal
           \/ Phase1Deadline
           \/ ManagerDeadline
    PROVE  CustodyInv' /\ [Delivery!Next]_Delivery!vars
  <1>1. /\ UNCHANGED <<ch, hand, todo, eventCh, likeBuf, unlikeBuf, stored, failed, skipped>>
        /\ cancelled' = cancelled \/ ManagerCancel
        /\ pub' = pub \/ \E e \in Events : BeginRequest(e)
    BY DEF BeginRequest, MainStep, Signal, Phase1Deadline, ManagerDeadline, Phase1Drained,
           ManagerCancel, ManagerWaited, CloseBus, Close, CloseBusReturn, CloseMySQL, Exit,
           busVars, likeVars
  <1>2. \A e \in InCharge \cup Range(stored) \cup Range(failed) \cup skipped : pub'[e] = pub[e]
    BY <1>1, Places DEF BeginRequest, CustodyInv, OfferInv
  <1>3. CustodyInv' /\ InCharge' = InCharge /\ (cancelled' = cancelled => UNCHANGED Delivery!vars)
    BY <1>1, <1>2, QuietStep DEF CustodyInv, OfferInv
  <1>4. CASE ManagerCancel
    <2>1. ~cancelled /\ cancelled'
      BY <1>4 DEF ManagerCancel, IndInv, PhaseInv, AfterCancel, TypeOK, BusTypeOK
    <2>2. Delivery!Stop
      BY <1>1, <1>3, <1>4, <2>1 DEF Delivery!Stop, ManagerCancel
    <2>3. QED
      BY <1>3, <2>2 DEF Delivery!Next
  <1>5. QED
    BY <1>1, <1>3, <1>4

\* Every step of the server keeps each event in one place and is a step of
\* EventDelivery or invisible to it.
LEMMA DeliveryStep ==
    IndInv /\ CustodyInv /\ [Next]_vars => CustodyInv' /\ [Delivery!Next]_Delivery!vars
  <1> SUFFICES ASSUME IndInv, CustodyInv, [Next]_vars
               PROVE  CustodyInv' /\ [Delivery!Next]_Delivery!vars
    OBVIOUS
  <1>1. CASE UNCHANGED vars
    BY <1>1, QuietStep DEF vars, busVars, likeVars, CustodyInv, OfferInv
  <1>2. CASE Next
    BY <1>1, <1>2, PublishDelivers, SubscribeDelivers, HandlerDelivers, LoopDelivers,
       MainDelivers DEF Next, Terminated
  <1>3. QED
    BY <1>1, <1>2

\* Initially there are no events anywhere.
LEMMA CustodyInit == Init => CustodyInv /\ Delivery!Init
  <1>1. SUFFICES ASSUME Init PROVE CustodyInv /\ Delivery!Init
    OBVIOUS
  <1>2. /\ Range(<<>>) = {} /\ IsInjective(<<>>)
    BY EmptySeq DEF Range, IsInjective
  <1>3. InCharge = {} /\ Range(stored) = {} /\ Range(failed) = {} /\ skipped = {}
    BY <1>1, <1>2 DEF Init, BusInit, LikeInit, InCharge
  <1>4. CustodyInv
    <2>1. OfferInv
      BY <1>1, <1>3 DEF Init, BusInit, OfferInv
    <2>2. \A s \in Subs : Upstream(s) = {}
      BY <1>1, <1>2 DEF Init, BusInit, Upstream
    <2>3. Range(likeBuf) = {} /\ Range(unlikeBuf) = {} /\ Range(eventCh) = {} /\ IsInjective(eventCh)
      BY <1>1, <1>2 DEF Init, LikeInit
    <2>4. \A s \in Subs : IsInjective(ch[s]) /\ Range(ch[s]) = {}
      BY <1>1, <1>2 DEF Init, BusInit
    <2>5. QED
      BY <2>1, <2>2, <2>3, <2>4 DEF CustodyInv, TopicInv, PlaceInv
  <1>5. QED
    BY <1>1, <1>3, <1>4 DEF Delivery!Init, Init, BusInit

\* The server implements EventDelivery: whatever the interleaving of handlers,
\* bus, consumer and shutdown, an accepted event is stored, refused with its
\* batch or given up exactly once, and never while the server runs and MySQL
\* works (channel.go:48-65, like_consumer.go:176-262).
THEOREM Refinement == Spec => DeliverySpec
  BY CustodyInit, DeliveryStep, InductiveInvariance, PTL DEF Spec, DeliverySpec, Delivery!Spec

-----------------------------------------------------------------------------
(***************************************************************************)
(* The order of delivery.  Every step of the pipeline either takes events  *)
(* from the front of a stage to the end of the next one or removes them,   *)
(* so it orders no two events that were not ordered before; a send puts    *)
(* its event behind all the others, in the channel and in the history.     *)
(***************************************************************************)

\* How the order of a queue grows with it.
LEMMA BeforeAppend ==
    ASSUME NEW S, NEW q \in Seq(S), NEW x \in S, NEW a, NEW b
    PROVE  Before(Append(q, x), a, b) <=> Before(q, a, b) \/ (a \in Range(q) /\ b = x)
  <1>1. /\ DOMAIN Append(q, x) = 1..Len(q) + 1 /\ DOMAIN q = 1..Len(q) /\ Len(q) \in Nat
        /\ \A i \in 1..Len(q) : Append(q, x)[i] = q[i]
        /\ Append(q, x)[Len(q) + 1] = x
    OBVIOUS
  <1>2. PICK r : r = Append(q, x)
    OBVIOUS
  <1>3. /\ DOMAIN r = 1..Len(q) + 1 /\ DOMAIN q = 1..Len(q) /\ Len(q) \in Nat
        /\ \A i \in 1..Len(q) : r[i] = q[i]
        /\ r[Len(q) + 1] = x
    BY <1>1, <1>2
  <1>4. PICK n \in Nat : n = Len(q)
    BY <1>1
  <1>5. a \in Range(q) <=> \E i \in 1..n : q[i] = a
    BY <1>3, <1>4 DEF Range
  <1>6. ASSUME Before(r, a, b) PROVE Before(q, a, b) \/ (a \in Range(q) /\ b = x)
    <2>1. PICK i \in 1..n + 1, j \in 1..n + 1 : i < j /\ r[i] = a /\ r[j] = b
      BY <1>3, <1>4, <1>6 DEF Before
    <2>2. i \in 1..n /\ q[i] = a
      BY <1>3, <1>4, <2>1
    <2>3. CASE j = n + 1
      BY <1>3, <1>4, <1>5, <2>1, <2>2, <2>3
    <2>4. CASE j # n + 1
      <3>1. j \in 1..n /\ q[j] = b
        BY <1>3, <1>4, <2>1, <2>4
      <3>2. QED
        BY <1>3, <1>4, <2>1, <2>2, <3>1 DEF Before
    <2>5. QED
      BY <2>3, <2>4
  <1>7. ASSUME Before(q, a, b) PROVE Before(r, a, b)
    <2>1. PICK i \in 1..n, j \in 1..n : i < j /\ q[i] = a /\ q[j] = b
      BY <1>3, <1>4, <1>7 DEF Before
    <2>2. i \in 1..n + 1 /\ j \in 1..n + 1 /\ r[i] = a /\ r[j] = b
      BY <1>3, <1>4, <2>1
    <2>3. QED
      BY <1>3, <1>4, <2>1, <2>2 DEF Before
  <1>8. ASSUME a \in Range(q), b = x PROVE Before(r, a, b)
    <2>1. PICK i \in 1..n : q[i] = a
      BY <1>5, <1>8
    <2>2. i \in 1..n + 1 /\ n + 1 \in 1..n + 1 /\ i < n + 1 /\ r[i] = a /\ r[n + 1] = b
      BY <1>3, <1>4, <1>8, <2>1
    <2>3. QED
      BY <1>3, <1>4, <2>2 DEF Before
  <1>9. QED
    BY <1>2, <1>6, <1>7, <1>8

\* The head of a queue is before the rest, whose order stays.
LEMMA BeforeTail ==
    ASSUME NEW S, NEW q \in Seq(S), q # <<>>, NEW a, NEW b
    PROVE  /\ Before(Tail(q), a, b) => Before(q, a, b)
           /\ b \in Range(Tail(q)) => Before(q, Head(q), b)
  <1>0. PICK r : r = Tail(q)
    OBVIOUS
  <1>1. PICK n \in Nat : r = Tail(q) /\ n = Len(q)
    BY <1>0
  <1>2. /\ DOMAIN r = 1..n - 1 /\ DOMAIN q = 1..n /\ n > 0
        /\ \A i \in 1..n - 1 : r[i] = q[i + 1]
        /\ Head(q) = q[1]
    BY <1>1
  <1>3. \A i \in 1..n - 1 : i + 1 \in 1..n
    BY <1>1
  <1>4. ASSUME Before(r, a, b) PROVE Before(q, a, b)
    <2>1. PICK i \in 1..n - 1, j \in 1..n - 1 : i < j /\ r[i] = a /\ r[j] = b
      BY <1>2, <1>4 DEF Before
    <2>2. i + 1 < j + 1 /\ q[i + 1] = a /\ q[j + 1] = b /\ i + 1 \in 1..n /\ j + 1 \in 1..n
      BY <1>1, <1>2, <1>3, <2>1
    <2>3. QED
      BY <1>2, <2>2 DEF Before
  <1>5. ASSUME b \in Range(r) PROVE Before(q, Head(q), b)
    <2>1. PICK j \in 1..n - 1 : r[j] = b
      BY <1>2, <1>5 DEF Range
    <2>2. 1 < j + 1 /\ q[1] = Head(q) /\ q[j + 1] = b /\ 1 \in 1..n /\ j + 1 \in 1..n
      BY <1>1, <1>2, <1>3, <2>1
    <2>3. QED
      BY <1>2, <2>2 DEF Before
  <1>6. QED
    BY <1>1, <1>4, <1>5

\* What is before what in a queue that a batch has been put behind.
LEMMA BeforeConcat ==
    ASSUME NEW S, NEW q \in Seq(S), NEW t \in Seq(S), NEW a, NEW b, Before(q \o t, a, b)
    PROVE  Before(q, a, b) \/ Before(t, a, b) \/ (a \in Range(q) /\ b \in Range(t))
  <1>0. PICK r : r = q \o t
    OBVIOUS
  <1>1. PICK n \in Nat, m \in Nat : r = q \o t /\ n = Len(q) /\ m = Len(t)
    BY <1>0
  <1>2. /\ DOMAIN r = 1..n + m /\ DOMAIN q = 1..n /\ DOMAIN t = 1..m
        /\ \A i \in 1..n + m : r[i] = IF i <= n THEN q[i] ELSE t[i - n]
    BY <1>1
  <1>3. PICK i \in 1..n + m, j \in 1..n + m : i < j /\ r[i] = a /\ r[j] = b
    BY <1>1, <1>2 DEF Before
  <1>4. CASE j <= n
    <2>1. i \in 1..n /\ j \in 1..n /\ q[i] = a /\ q[j] = b
      BY <1>1, <1>2, <1>3, <1>4
    <2>2. QED
      BY <1>2, <1>3, <2>1 DEF Before
  <1>5. CASE i > n
    <2>1. i - n \in 1..m /\ j - n \in 1..m /\ i - n < j - n /\ t[i - n] = a /\ t[j - n] = b
      BY <1>1, <1>2, <1>3, <1>5
    <2>2. QED
      BY <1>2, <2>1 DEF Before
  <1>6. CASE i <= n /\ j > n
    <2>1. i \in 1..n /\ q[i] = a /\ j - n \in 1..m /\ t[j - n] = b
      BY <1>1, <1>2, <1>3, <1>6
    <2>2. QED
      BY <1>2, <2>1 DEF Range
  <1>7. QED
    BY <1>1, <1>4, <1>5, <1>6

\* A queue of one or none orders nothing.
LEMMA BeforeShort ==
    /\ \A a, b : ~Before(<<>>, a, b)
    /\ \A x, a, b : ~Before(<<x>>, a, b)
    /\ Range(<<>>) = {}
    /\ \A x : Range(<<x>>) = {x}
  <1>1. DOMAIN <<>> = {}
    OBVIOUS
  <1>2. \A x : DOMAIN <<x>> = {1} /\ <<x>>[1] = x
    OBVIOUS
  <1>3. QED
    BY <1>1, <1>2 DEF Before, Range

\* The pipeline su orders the events of E as st did, and has no others of E.
Keeps(st, su, E) ==
    /\ \A a, b \in E : Ahead(su, a, b) => Ahead(st, a, b)
    /\ \A e \in E : (\E k \in DOMAIN su : e \in Range(su[k])) => \E k \in DOMAIN st : e \in Range(st[k])

\* It does if its stages hold no more than they did, in the same order.
LEMMA ShrinkKeeps ==
    ASSUME NEW st, NEW su, NEW E, DOMAIN su = DOMAIN st,
           \A k \in DOMAIN st : \A e \in E : e \in Range(su[k]) => e \in Range(st[k]),
           \A k \in DOMAIN st : \A a, b \in E : Before(su[k], a, b) => Before(st[k], a, b)
    PROVE  Keeps(st, su, E)
  BY DEF Keeps, Ahead

\* The events of front have left the front of stage from, and are behind all of
\* stage to.
Moved(front, to, newTo, from, newFrom, E) ==
    /\ \A e \in E : e \in Range(newTo) => e \in Range(to) \/ e \in Range(front)
    /\ \A e \in E : e \in Range(front) \/ e \in Range(newFrom) => e \in Range(from)
    /\ \A a, b \in E : Before(newTo, a, b) =>
          Before(to, a, b) \/ Before(front, a, b) \/ (a \in Range(to) /\ b \in Range(front))
    /\ \A a, b \in E :
          Before(front, a, b) \/ Before(newFrom, a, b) \/ (a \in Range(front) /\ b \in Range(newFrom))
             => Before(from, a, b)

\* It does if some stage passes events on to the next.
LEMMA AdvanceKeeps ==
    ASSUME NEW st, NEW su, NEW E, NEW n \in Nat, DOMAIN st = 1..n, DOMAIN su = 1..n,
           NEW m \in 1..n, NEW m1 \in 1..n, m1 = m + 1, NEW front,
           \A k \in 1..n : k # m /\ k # m1 => su[k] = st[k],
           Moved(front, st[m], su[m], st[m1], su[m1], E)
    PROVE  Keeps(st, su, E)
  <1>0. m \in 1..n /\ m1 \in 1..n /\ m < m1
    OBVIOUS
  <1>1. ASSUME NEW e \in E, NEW k \in 1..n, e \in Range(su[k])
        PROVE  e \in Range(st[k]) \/ (k = m /\ e \in Range(front) /\ e \in Range(st[m1]))
    <2>1. CASE k = m
      BY <1>1, <2>1 DEF Moved
    <2>2. CASE k = m1
      BY <1>1, <2>2 DEF Moved
    <2>3. CASE k # m /\ k # m1
      BY <1>1, <2>3
    <2>4. QED
      BY <2>1, <2>2, <2>3
  <1>2. ASSUME NEW a \in E, NEW b \in E, NEW k \in 1..n, Before(su[k], a, b) PROVE Ahead(st, a, b)
    <2>1. CASE k = m
      <3>1. Before(st[m], a, b) \/ Before(st[m1], a, b) \/ (a \in Range(st[m]) /\ b \in Range(st[m1]))
        BY <1>0, <1>2, <2>1 DEF Moved
      <3>2. QED
        BY <1>0, <3>1 DEF Ahead
    <2>2. CASE k = m1
      <3>1. Before(st[m1], a, b)
        BY <1>2, <2>2 DEF Moved
      <3>2. QED
        BY <1>0, <3>1 DEF Ahead
    <2>3. CASE k # m /\ k # m1
      BY <1>2, <2>3 DEF Ahead
    <2>4. QED
      BY <2>1, <2>2, <2>3
  <1>3. ASSUME NEW a \in E, NEW b \in E, NEW k \in 1..n, NEW l \in 1..n, k < l,
               a \in Range(su[k]), b \in Range(su[l])
        PROVE  Ahead(st, a, b)
    <2>1. CASE a \in Range(st[k])
      <3>1. b \in Range(st[l]) \/ (l = m /\ b \in Range(st[m1]))
        BY <1>1, <1>3
      <3>2. PICK h \in 1..n : k < h /\ b \in Range(st[h])
        BY <1>0, <1>3, <3>1
      <3>3. QED
        BY <2>1, <3>2 DEF Ahead
    <2>2. CASE k = m /\ a \in Range(front) /\ a \in Range(st[m1])
      <3>1. CASE l = m1
        <4>1. Before(st[m1], a, b)
          BY <1>3, <2>2, <3>1 DEF Moved
        <4>2. QED
          BY <1>0, <4>1 DEF Ahead
      <3>2. CASE l # m1
        <4>1. m1 < l /\ b \in Range(st[l])
          BY <1>1, <1>3, <2>2, <3>2
        <4>2. QED
          BY <1>0, <2>2, <4>1 DEF Ahead
      <3>3. QED
        BY <3>1, <3>2
    <2>3. QED
      BY <1>1, <1>3, <2>1, <2>2
  <1>4. \A a, b \in E : Ahead(su, a, b) => Ahead(st, a, b)
    BY <1>2, <1>3 DEF Ahead
  <1>5. \A e \in E : (\E k \in DOMAIN su : e \in Range(su[k])) => \E k \in DOMAIN st : e \in Range(st[k])
    BY <1>0, <1>1
  <1>6. QED
    BY <1>4, <1>5 DEF Keeps
\* The stages by name.
LEMMA FiveStages ==
    ASSUME NEW p1, NEW p2, NEW p3, NEW p4, NEW p5, NEW st, st = <<p1, p2, p3, p4, p5>>
    PROVE  /\ DOMAIN st = 1..5
           /\ st[1] = p1 /\ st[2] = p2 /\ st[3] = p3 /\ st[4] = p4 /\ st[5] = p5
  OBVIOUS

\* What s has been sent was offered to it once.
SentOnce ==
    \A s \in Subs : \A e \in Range(sent[s]) : pub[e] \in {"sending", "done"} /\ s \notin todo[e]

\* What is in the pipeline of s was sent to it.
Published ==
    \A s \in Subs : \A e \in EventsOf(s) :
        (\E k \in DOMAIN Stages(s) : e \in Range(Stages(s)[k])) => e \in Range(sent[s])

OrderInv == StoredInOrder /\ SentOnce /\ Published

\* A step that sends nothing and changes no order.
LEMMA OrderKept ==
    ASSUME OrderInv, sent' = sent, SentOnce',
           \A s \in Subs : Keeps(Stages(s), Stages(s)', EventsOf(s))
    PROVE  OrderInv'
  <1>1. \A s \in Subs : EventsOf(s)' = EventsOf(s)
    BY DEF EventsOf
  <1>2. ASSUME NEW s \in Subs, NEW a \in EventsOf(s), NEW b \in EventsOf(s), Ahead(Stages(s)', a, b)
        PROVE  Before(sent[s], a, b)
    BY <1>2 DEF OrderInv, StoredInOrder, Keeps
  <1>3. StoredInOrder'
    <2>1. \A s \in Subs : IsInjective(sent[s])
      BY DEF OrderInv, StoredInOrder
    <2>2. QED
      BY <1>1, <1>2, <2>1 DEF StoredInOrder
  <1>4. ASSUME NEW s \in Subs, NEW e \in EventsOf(s), \E k \in DOMAIN Stages(s)' : e \in Range(Stages(s)'[k])
        PROVE  e \in Range(sent[s])
    BY <1>4 DEF OrderInv, Published, Keeps
  <1>5. Published'
    BY <1>1, <1>4 DEF Published
  <1>6. QED
    BY <1>3, <1>5 DEF OrderInv

\* A step that moves nothing.
LEMMA StillKeeps ==
    ASSUME NEW s \in Subs, UNCHANGED <<stored, likeBuf, unlikeBuf, eventCh, hand, ch>>
    PROVE  Keeps(Stages(s), Stages(s)', EventsOf(s))
  <1>1. Stages(s)' = Stages(s)
    BY DEF Stages
  <1>2. QED
    BY <1>1 DEF Keeps

\* The types the order of the stages rests on.
LEMMA StageTypes ==
    ASSUME IndInv
    PROVE  /\ sent \in [Subs -> Seq(Events)]
           /\ \A s \in Subs : ch[s] \in Seq(Events)
           /\ \A s \in Subs : EventsOf(s) \subseteq Events
           /\ \A s \in Subs : \A x \in Events : \A t \in Subs :
                 TopicOf[x] = SubTopic[s] /\ t # s => x \notin EventsOf(t)
  <1>1. sent \in [Subs -> Seq(Events)] /\ ch \in [Subs -> Seq(Events)]
    BY DEF IndInv, TypeOK, BusTypeOK
  <1>2. \A s \in Subs : EventsOf(s) \subseteq Events
    BY DEF EventsOf
  <1>3. QED
    BY <1>1, <1>2, LikeConsumerAssumption DEF EventsOf

\* Publish: a send puts the event behind everything sent before it.
LEMMA PublishOrders ==
    ASSUME IndInv, CustodyInv, OrderInv, NEW e \in Events, PublishStep(e),
           UNCHANGED <<likeVars, mainVars>>
    PROVE  OrderInv'
  <1>0. UNCHANGED <<stored, likeBuf, unlikeBuf, eventCh, hand>>
    BY DEF PublishStep, PublishCheck, PublishSnapshot, PublishSend, likeVars
  <1>1. /\ pub \in [Events -> PubStates] /\ todo \in [Events -> SUBSET Subs]
        /\ sent \in [Subs -> Seq(Events)] /\ ch \in [Subs -> Seq(Events)]
        /\ \A s \in Subs : Range(sent[s]) \subseteq Events
    <2>1. sent \in [Subs -> Seq(Events)]
      BY StageTypes
    <2>2. QED
      BY <2>1, Places, RangeOfSeq
  <1>2. CASE PublishCheck(e) \/ PublishSnapshot(e)
    <2>1. /\ pub[e] \in {"request", "open"} /\ UNCHANGED <<sent, ch>>
          /\ \A x \in Events : x # e => pub'[x] = pub[x] /\ todo'[x] = todo[x]
      BY <1>1, <1>2 DEF PublishCheck, PublishSnapshot
    <2>2. SentOnce'
      BY <1>1, <2>1 DEF OrderInv, SentOnce
    <2>3. \A s \in Subs : Keeps(Stages(s), Stages(s)', EventsOf(s))
      BY <1>0, <2>1, StillKeeps
    <2>4. QED
      BY <2>1, <2>2, <2>3, OrderKept
  <1>3. ASSUME NEW s \in Subs, PublishSend(e, s) PROVE OrderInv'
    <2>1. /\ pub[e] = "sending" /\ s \in todo[e]
          /\ pub'[e] \in {"sending", "done"} /\ todo'[e] = todo[e] \ {s}
          /\ \A x \in Events : x # e => pub'[x] = pub[x] /\ todo'[x] = todo[x]
      BY <1>1, <1>3 DEF PublishSend
    <2>2. CASE UNCHANGED <<ch, sent>>
      <3>1. SentOnce'
        BY <1>1, <2>1, <2>2 DEF OrderInv, SentOnce
      <3>2. \A t \in Subs : Keeps(Stages(t), Stages(t)', EventsOf(t))
        BY <1>0, <2>2, StillKeeps
      <3>3. QED
        BY <2>2, <3>1, <3>2, OrderKept
    <2>3. CASE ch' = [ch EXCEPT ![s] = Append(@, e)] /\ sent' = [sent EXCEPT ![s] = Append(@, e)]
      <3>1. /\ ch'[s] = Append(ch[s], e) /\ sent'[s] = Append(sent[s], e)
            /\ \A t \in Subs : t # s => ch'[t] = ch[t] /\ sent'[t] = sent[t]
        BY <1>1, <2>3
      <3>2. e \notin Range(sent[s])
        BY <2>1 DEF OrderInv, SentOnce
      <3>3. /\ ch[s] \in Seq(Events) /\ sent[s] \in Seq(Events)
            /\ Range(Append(sent[s], e)) = Range(sent[s]) \cup {e}
            /\ Range(Append(ch[s], e)) = Range(ch[s]) \cup {e}
        BY <1>1, RangeAppend
      <3>4. IsInjective(sent'[s])
        BY <3>1, <3>2, <3>3, InjectiveAppend DEF OrderInv, StoredInOrder
      <3>5. SentOnce'
        <4>1. ASSUME NEW t \in Subs, NEW x \in Range(sent'[t])
              PROVE  pub'[x] \in {"sending", "done"} /\ t \notin todo'[x]
          <5>1. x \in Range(sent[t]) \/ (t = s /\ x = e)
            BY <3>1, <3>3, <4>1
          <5>2. CASE x = e
            <6>1. t # s => x \in Range(sent[t])
              BY <5>1
            <6>2. QED
              BY <2>1, <5>2, <6>1 DEF OrderInv, SentOnce
          <5>3. CASE x # e
            BY <1>1, <2>1, <5>1, <5>3 DEF OrderInv, SentOnce
          <5>4. QED
            BY <5>2, <5>3
        <4>2. QED
          BY <4>1 DEF SentOnce
      <3>6. ASSUME NEW t \in Subs, t # s PROVE Stages(t)' = Stages(t) /\ sent'[t] = sent[t]
        BY <1>0, <3>1, <3>6 DEF Stages
      <3>7. PICK st, su, q : st = Stages(s) /\ su = Stages(s)' /\ q = ch[s]
        OBVIOUS
      <3>8. /\ DOMAIN st = 1..5 /\ DOMAIN su = 1..5 /\ st[5] = q /\ su[5] = Append(q, e)
            /\ \A k \in 1..5 : k # 5 => su[k] = st[k]
        <4>1. st = <<stored, IF SubTopic[s] = TopicLike THEN likeBuf ELSE unlikeBuf, eventCh,
                     IF hand[s] = NoEvent THEN <<>> ELSE <<hand[s]>>, q>>
          BY <3>7 DEF Stages
        <4>2. su = <<stored, IF SubTopic[s] = TopicLike THEN likeBuf ELSE unlikeBuf, eventCh,
                     IF hand[s] = NoEvent THEN <<>> ELSE <<hand[s]>>, Append(q, e)>>
          BY <1>0, <3>1, <3>7 DEF Stages
        <4>3. DOMAIN st = 1..5 /\ DOMAIN su = 1..5 /\ st[5] = q /\ su[5] = Append(q, e)
          BY <4>1, <4>2, FiveStages
        <4>4. st[1] = su[1] /\ st[2] = su[2] /\ st[3] = su[3] /\ st[4] = su[4]
          BY <4>1, <4>2, FiveStages
        <4>5. QED
          BY <4>3, <4>4
      <3>9. ASSUME NEW x, NEW k \in 1..5, x \in Range(su[k])
            PROVE  x \in Range(st[k]) \/ (k = 5 /\ x = e)
        BY <3>3, <3>7, <3>8, <3>9
      <3>10. ASSUME NEW a \in EventsOf(s), NEW b \in EventsOf(s), Ahead(su, a, b)
             PROVE  Before(sent'[s], a, b)
        <4>1. Ahead(st, a, b) \/ (b = e /\ \E k \in 1..5 : a \in Range(st[k]))
          <5>1. PICK k \in 1..5 :
                   \/ Before(su[k], a, b)
                   \/ a \in Range(su[k]) /\ \E l \in 1..5 : k < l /\ b \in Range(su[l])
            BY <3>8, <3>10 DEF Ahead
          <5>2. CASE Before(su[k], a, b) /\ k # 5
            BY <3>8, <5>2 DEF Ahead
          <5>3. CASE Before(su[k], a, b) /\ k = 5
            <6>1. Before(Append(q, e), a, b) /\ q \in Seq(Events)
              BY <3>3, <3>7, <3>8, <5>3
            <6>2. Before(q, a, b) \/ (a \in Range(q) /\ b = e)
              BY <6>1, BeforeAppend
            <6>3. QED
              BY <3>8, <6>2 DEF Ahead
          <5>4. ASSUME NEW l \in 1..5, k < l, a \in Range(su[k]), b \in Range(su[l])
                PROVE  Ahead(st, a, b) \/ (b = e /\ \E h \in 1..5 : a \in Range(st[h]))
            <6>1. a \in Range(st[k])
              BY <3>9, <5>4
            <6>2. b \in Range(st[l]) \/ b = e
              BY <3>9, <5>4
            <6>3. QED
              BY <3>8, <5>4, <6>1, <6>2 DEF Ahead
          <5>5. QED
            BY <5>1, <5>2, <5>3, <5>4
        <4>2. CASE Ahead(st, a, b)
          <5>1. Before(sent[s], a, b)
            BY <3>7, <4>2 DEF OrderInv, StoredInOrder
          <5>2. QED
            BY <3>1, <3>3, <5>1, BeforeAppend
        <4>3. CASE b = e /\ \E k \in 1..5 : a \in Range(st[k])
          <5>1. a \in Range(sent[s])
            BY <3>7, <3>8, <4>3 DEF OrderInv, Published
          <5>2. QED
            BY <3>1, <3>3, <4>3, <5>1, BeforeAppend
        <4>4. QED
          BY <4>1, <4>2, <4>3
      <3>11. ASSUME NEW x \in EventsOf(s), NEW k \in 1..5, x \in Range(su[k])
             PROVE  x \in Range(sent'[s])
        <4>1. x \in Range(st[k]) \/ x = e
          BY <3>9, <3>11
        <4>2. x \in Range(st[k]) => x \in Range(sent[s])
          BY <3>7, <3>8 DEF OrderInv, Published
        <4>3. QED
          BY <3>1, <3>3, <4>1, <4>2
      <3>12. \A t \in Subs : EventsOf(t)' = EventsOf(t)
        BY DEF EventsOf
      <3>13. ASSUME NEW t \in Subs
             PROVE  /\ IsInjective(sent'[t])
                    /\ \A a, b \in EventsOf(t) : Ahead(Stages(t)', a, b) => Before(sent'[t], a, b)
                    /\ \A x \in EventsOf(t) :
                          (\E k \in DOMAIN Stages(t)' : x \in Range(Stages(t)'[k])) => x \in Range(sent'[t])
        <4>1. CASE t = s
          BY <3>4, <3>7, <3>8, <3>10, <3>11, <4>1
        <4>2. CASE t # s
          BY <3>6, <4>2 DEF OrderInv, StoredInOrder, Published
        <4>3. QED
          BY <4>1, <4>2
      <3>14. StoredInOrder'
        BY <3>12, <3>13 DEF StoredInOrder
      <3>15. Published'
        BY <3>12, <3>13 DEF Published
      <3>16. QED
        BY <3>5, <3>14, <3>15 DEF OrderInv
    <2>4. QED
      BY <1>3, <2>2, <2>3 DEF PublishSend
  <1>4. QED
    BY <1>2, <1>3 DEF PublishStep

\* Receiving takes the head of the channel, behind nothing but the handler.
LEMMA SubscribeOrders ==
    ASSUME IndInv, CustodyInv, OrderInv, NEW s \in Subs, SubscribeStep(s),
           UNCHANGED <<likeVars, mainVars>>
    PROVE  OrderInv'
  <1>0. UNCHANGED <<stored, likeBuf, unlikeBuf, eventCh, pub, todo, sent>>
    BY DEF SubscribeStep, SubscribeRegister, SubscribeRecv, SubscribeCtxDone, DrainRecv, DrainEmpty,
           Unregister, Receive, likeVars
  <1>1. SentOnce'
    BY <1>0 DEF OrderInv, SentOnce
  <1>2. CASE UNCHANGED <<hand, ch>>
    <2>1. \A t \in Subs : Keeps(Stages(t), Stages(t)', EventsOf(t))
      BY <1>0, <1>2, StillKeeps
    <2>2. QED
      BY <1>0, <1>1, <2>1, OrderKept
  <1>3. ASSUME NEW from \in {"select", "drain"}, NEW to, Receive(s, from, to) PROVE OrderInv'
    <2>1. PICK q, x : q = ch[s] /\ x = Head(q)
      OBVIOUS
    <2>2. q \in Seq(Events) /\ q # <<>> /\ x \in Events
      BY <1>3, <2>1, StageTypes DEF Receive
    <2>3. ch'[s] = Tail(q) /\ hand'[s] = x /\ \A t \in Subs : t # s => ch'[t] = ch[t] /\ hand'[t] = hand[t]
      BY <1>3, <2>1, Places DEF Receive
    <2>4. hand[s] = NoEvent
      BY <1>3, Places DEF Receive, IndInv, HandInv, Handling
    <2>5. x # NoEvent
      BY <2>2, BusAssumption
    <2>6. PICK st, su : st = Stages(s) /\ su = Stages(s)'
      OBVIOUS
    <2>7. /\ DOMAIN st = 1..5 /\ DOMAIN su = 1..5
          /\ st[4] = <<>> /\ st[5] = q /\ su[4] = <<x>> /\ su[5] = Tail(q)
          /\ \A k \in 1..5 : k # 4 /\ k # 5 => su[k] = st[k]
      <3>1. st = <<stored, IF SubTopic[s] = TopicLike THEN likeBuf ELSE unlikeBuf, eventCh, <<>>, q>>
        BY <2>1, <2>4, <2>6 DEF Stages
      <3>2. su = <<stored, IF SubTopic[s] = TopicLike THEN likeBuf ELSE unlikeBuf, eventCh, <<x>>, Tail(q)>>
        BY <1>0, <2>3, <2>5, <2>6 DEF Stages
      <3>3. /\ DOMAIN st = 1..5 /\ st[4] = <<>> /\ st[5] = q
            /\ DOMAIN su = 1..5 /\ su[4] = <<x>> /\ su[5] = Tail(q)
        BY <3>1, <3>2, FiveStages
      <3>4. st[1] = su[1] /\ st[2] = su[2] /\ st[3] = su[3]
        BY <3>1, <3>2, FiveStages
      <3>5. QED
        BY <3>3, <3>4
    <2>8. Keeps(st, su, EventsOf(s))
      <3>1. /\ \A e : e \in Range(<<x>>) <=> e = x
            /\ \A a, b : ~Before(<<x>>, a, b) /\ ~Before(<<>>, a, b)
        BY BeforeShort
      <3>2. Range(q) = Range(Tail(q)) \cup {x}
        BY <2>1, <2>2, RangeHeadTail
      <3>3. \A a, b : /\ Before(Tail(q), a, b) => Before(q, a, b)
                      /\ b \in Range(Tail(q)) => Before(q, x, b)
        BY <2>1, <2>2, BeforeTail
      <3>4. Moved(<<x>>, <<>>, <<x>>, q, Tail(q), EventsOf(s))
        BY <3>1, <3>2, <3>3 DEF Moved
      <3>5. Moved(<<x>>, st[4], su[4], st[5], su[5], EventsOf(s))
        BY <2>7, <3>4
      <3>6. PICK n \in Nat, m \in 1..5, m1 \in 1..5 : n = 5 /\ m = 4 /\ m1 = 5
        OBVIOUS
      <3>7. /\ DOMAIN st = 1..n /\ DOMAIN su = 1..n /\ m \in 1..n /\ m1 \in 1..n /\ m1 = m + 1
            /\ \A k \in 1..n : k # m /\ k # m1 => su[k] = st[k]
            /\ Moved(<<x>>, st[m], su[m], st[m1], su[m1], EventsOf(s))
        <4>1. DOMAIN st = 1..n /\ DOMAIN su = 1..n /\ m \in 1..n /\ m1 \in 1..n /\ m1 = m + 1
          BY <2>7, <3>6
        <4>2. Moved(<<x>>, st[m], su[m], st[m1], su[m1], EventsOf(s))
          BY <3>5, <3>6
        <4>3. \A k \in 1..n : k # m /\ k # m1 => su[k] = st[k]
          BY <2>7, <3>6
        <4>4. QED
          BY <4>1, <4>2, <4>3
      <3>8. QED
        BY <3>7, AdvanceKeeps
    <2>9. ASSUME NEW t \in Subs, t # s PROVE Keeps(Stages(t), Stages(t)', EventsOf(t))
      <3>1. Stages(t)' = Stages(t)
        BY <1>0, <2>3, <2>9 DEF Stages
      <3>2. QED
        BY <3>1 DEF Keeps
    <2>10. QED
      BY <1>0, <1>1, <2>6, <2>8, <2>9, OrderKept
  <1>4. QED
    BY <1>2, <1>3
       DEF SubscribeStep, SubscribeRegister, SubscribeRecv, SubscribeCtxDone, DrainRecv, DrainEmpty,
           Unregister

\* The handler puts its event behind what the loop has yet to read, or gives it up.
LEMMA HandlerOrders ==
    ASSUME IndInv, CustodyInv, OrderInv, NEW s \in Subs, HandlerStep(s), UNCHANGED mainVars
    PROVE  OrderInv'
  <1>0. UNCHANGED <<stored, likeBuf, unlikeBuf, ch, pub, todo, sent>>
    BY DEF HandlerStep, HandlerForward, HandlerCtxDone
  <1>1. SentOnce'
    BY <1>0 DEF OrderInv, SentOnce
  <1>2. PICK x : x = hand[s]
    OBVIOUS
  <1>3. x \in Events /\ x # NoEvent /\ TopicOf[x] = SubTopic[s]
    <2>1. x \in Events
      BY <1>2 DEF HandlerStep, HandlerForward, HandlerCtxDone, IndInv, HandInv
    <2>2. x # NoEvent
      BY <2>1, BusAssumption
    <2>3. QED
      BY <1>2, <2>1, <2>2 DEF CustodyInv, TopicInv, Upstream
  <1>4. hand'[s] = NoEvent /\ \A t \in Subs : t # s => hand'[t] = hand[t]
    BY Places DEF HandlerStep, HandlerForward, HandlerCtxDone, HandlerReturn
  <1>5. eventCh' = eventCh \/ eventCh' = Append(eventCh, x)
    BY <1>2 DEF HandlerStep, HandlerForward, HandlerCtxDone
  <1>6. eventCh \in Seq(Events)
    BY Places
  <1>7. Range(Append(eventCh, x)) = Range(eventCh) \cup {x}
    BY <1>3, <1>6, RangeAppend
  <1>8. \A a, b : Before(Append(eventCh, x), a, b) <=> Before(eventCh, a, b) \/ (a \in Range(eventCh) /\ b = x)
    BY <1>3, <1>6, BeforeAppend
  <1>9. /\ \A a, b : ~Before(<<x>>, a, b) /\ ~Before(<<>>, a, b)
        /\ Range(<<>>) = {} /\ Range(<<x>>) = {x}
    BY BeforeShort
  <1>10. Keeps(Stages(s), Stages(s)', EventsOf(s))
    <2>1. PICK st, su, buf, q : st = Stages(s) /\ su = Stages(s)' /\ q = ch[s]
                                /\ buf = (IF SubTopic[s] = TopicLike THEN likeBuf ELSE unlikeBuf)
      OBVIOUS
    <2>2. st = <<stored, buf, eventCh, <<x>>, q>> /\ su = <<stored, buf, eventCh', <<>>, q>>
      BY <1>0, <1>2, <1>3, <1>4, <2>1 DEF Stages
    <2>3. /\ DOMAIN st = 1..5 /\ DOMAIN su = 1..5
          /\ st[3] = eventCh /\ st[4] = <<x>> /\ su[3] = eventCh' /\ su[4] = <<>>
          /\ \A k \in 1..5 : k # 3 /\ k # 4 => su[k] = st[k]
      <3>1. /\ DOMAIN st = 1..5 /\ st[1] = stored /\ st[2] = buf /\ st[3] = eventCh /\ st[4] = <<x>> /\ st[5] = q
        BY <2>2, FiveStages
      <3>2. /\ DOMAIN su = 1..5 /\ su[1] = stored /\ su[2] = buf /\ su[3] = eventCh' /\ su[4] = <<>> /\ su[5] = q
        BY <2>2, FiveStages
      <3>3. QED
        BY <3>1, <3>2
    <2>4. Moved(<<x>>, eventCh, eventCh', <<x>>, <<>>, EventsOf(s))
      <3>1. CASE eventCh' = eventCh
        BY <1>9, <3>1 DEF Moved
      <3>2. CASE eventCh' = Append(eventCh, x)
        BY <1>7, <1>8, <1>9, <3>2 DEF Moved
      <3>3. QED
        BY <1>5, <3>1, <3>2
    <2>5. Moved(<<x>>, st[3], su[3], st[4], su[4], EventsOf(s))
      BY <2>3, <2>4
    <2>6. Keeps(st, su, EventsOf(s))
      <3>1. PICK n \in Nat, m \in 1..5, m1 \in 1..5 : n = 5 /\ m = 3 /\ m1 = 4
        OBVIOUS
      <3>2. /\ DOMAIN st = 1..n /\ DOMAIN su = 1..n /\ m \in 1..n /\ m1 \in 1..n /\ m1 = m + 1
            /\ \A k \in 1..n : k # m /\ k # m1 => su[k] = st[k]
            /\ Moved(<<x>>, st[m], su[m], st[m1], su[m1], EventsOf(s))
        BY <2>3, <2>5, <3>1
      <3>3. QED
        BY <3>2, AdvanceKeeps
    <2>7. QED
      BY <2>1, <2>6
  <1>11. ASSUME NEW t \in Subs, t # s PROVE Keeps(Stages(t), Stages(t)', EventsOf(t))
    <2>1. PICK st, su, buf, q, h : /\ st = Stages(t) /\ su = Stages(t)' /\ q = ch[t]
                                   /\ buf = (IF SubTopic[t] = TopicLike THEN likeBuf ELSE unlikeBuf)
                                   /\ h = (IF hand[t] = NoEvent THEN <<>> ELSE <<hand[t]>>)
      OBVIOUS
    <2>2. st = <<stored, buf, eventCh, h, q>> /\ su = <<stored, buf, eventCh', h, q>>
      BY <1>0, <1>4, <1>11, <2>1 DEF Stages
    <2>3. /\ DOMAIN st = 1..5 /\ DOMAIN su = 1..5 /\ st[3] = eventCh /\ su[3] = eventCh'
          /\ \A k \in 1..5 : k # 3 => su[k] = st[k]
      <3>1. /\ DOMAIN st = 1..5 /\ st[1] = stored /\ st[2] = buf /\ st[3] = eventCh /\ st[4] = h /\ st[5] = q
        BY <2>2, FiveStages
      <3>2. /\ DOMAIN su = 1..5 /\ su[1] = stored /\ su[2] = buf /\ su[3] = eventCh' /\ su[4] = h /\ su[5] = q
        BY <2>2, FiveStages
      <3>3. QED
        BY <3>1, <3>2
    <2>4. x \notin EventsOf(t)
      BY <1>3, <1>11, StageTypes
    <2>5. ASSUME NEW k \in 1..5
          PROVE  /\ \A e \in EventsOf(t) : e \in Range(su[k]) => e \in Range(st[k])
                 /\ \A a, b \in EventsOf(t) : Before(su[k], a, b) => Before(st[k], a, b)
      <3>1. CASE k = 3
        BY <1>5, <1>7, <1>8, <2>3, <2>4, <3>1
      <3>2. CASE k # 3
        BY <2>3, <3>2
      <3>3. QED
        BY <3>1, <3>2
    <2>6. Keeps(st, su, EventsOf(t))
      BY <2>3, <2>5, ShrinkKeeps
    <2>7. QED
      BY <2>1, <2>6
  <1>12. \A t \in Subs : Keeps(Stages(t), Stages(t)', EventsOf(t))
    BY <1>10, <1>11
  <1>13. QED
    BY <1>0, <1>1, <1>12, OrderKept

\* The flush loop: an event moves to the end of its buffer, a batch to the end of
\* what is stored or out of the pipeline.
LEMMA LoopOrders ==
    ASSUME IndInv, CustodyInv, OrderInv, LoopStep, UNCHANGED mainVars
    PROVE  OrderInv'
  <1>0. UNCHANGED <<ch, hand, pub, todo, sent>>
    BY DEF LoopStep, LoopRecv, LoopTick, LoopCtxDone, SubWgWait, DrainChanRecv,
           DrainChanEmpty, FlushLikes, FlushUnlikes, busVars
  <1>1. SentOnce'
    BY <1>0 DEF OrderInv, SentOnce
  <1>t. /\ eventCh \in Seq(Events) /\ likeBuf \in Seq(Events) /\ unlikeBuf \in Seq(Events)
        /\ stored \in Seq(Events)
    BY Places
  <1>2. CASE UNCHANGED <<stored, likeBuf, unlikeBuf, eventCh>>
    <2>1. \A t \in Subs : Keeps(Stages(t), Stages(t)', EventsOf(t))
      BY <1>0, <1>2, StillKeeps
    <2>2. QED
      BY <1>0, <1>1, <2>1, OrderKept
  <1>3. CASE TakeEvent /\ UNCHANGED stored
    <2>1. PICK x : x = Head(eventCh)
      OBVIOUS
    <2>2. eventCh # <<>> /\ x \in Events /\ eventCh' = Tail(eventCh)
      BY <1>3, <1>t, <2>1 DEF TakeEvent
    <2>3. \/ TopicOf[x] = TopicLike /\ likeBuf' = Append(likeBuf, x) /\ unlikeBuf' = unlikeBuf
          \/ TopicOf[x] # TopicLike /\ unlikeBuf' = Append(unlikeBuf, x) /\ likeBuf' = likeBuf
      BY <1>3, <2>1 DEF TakeEvent
    <2>4. Range(eventCh) = Range(eventCh') \cup {x}
      BY <1>t, <2>1, <2>2, RangeHeadTail
    <2>5. \A a, b : /\ Before(eventCh', a, b) => Before(eventCh, a, b)
                    /\ b \in Range(eventCh') => Before(eventCh, x, b)
      BY <1>t, <2>1, <2>2, BeforeTail
    <2>6. Range(<<x>>) = {x} /\ \A a, b : ~Before(<<x>>, a, b)
      BY BeforeShort
    <2>7. ASSUME NEW t \in Subs PROVE Keeps(Stages(t), Stages(t)', EventsOf(t))
      <3>1. PICK st, su, buf, nbuf, q, h : /\ st = Stages(t) /\ su = Stages(t)' /\ q = ch[t]
                /\ buf = (IF SubTopic[t] = TopicLike THEN likeBuf ELSE unlikeBuf)
                /\ nbuf = (IF SubTopic[t] = TopicLike THEN likeBuf' ELSE unlikeBuf')
                /\ h = (IF hand[t] = NoEvent THEN <<>> ELSE <<hand[t]>>)
        OBVIOUS
      <3>2. st = <<stored, buf, eventCh, h, q>> /\ su = <<stored, nbuf, eventCh', h, q>>
        BY <1>0, <1>3, <3>1 DEF Stages
      <3>3. /\ DOMAIN st = 1..5 /\ st[1] = stored /\ st[2] = buf /\ st[3] = eventCh /\ st[4] = h /\ st[5] = q
        BY <3>2, FiveStages
      <3>4. /\ DOMAIN su = 1..5 /\ su[1] = stored /\ su[2] = nbuf /\ su[3] = eventCh' /\ su[4] = h /\ su[5] = q
        BY <3>2, FiveStages
      <3>5. buf \in Seq(Events)
        BY <1>t, <3>1
      <3>6. CASE nbuf = Append(buf, x)
        <4>1. Range(nbuf) = Range(buf) \cup {x}
          BY <2>2, <3>5, <3>6, RangeAppend
        <4>2. \A a, b : Before(nbuf, a, b) <=> Before(buf, a, b) \/ (a \in Range(buf) /\ b = x)
          BY <2>2, <3>5, <3>6, BeforeAppend
        <4>3. Moved(<<x>>, buf, nbuf, eventCh, eventCh', EventsOf(t))
          BY <2>4, <2>5, <2>6, <4>1, <4>2 DEF Moved
        <4>4. PICK n \in Nat, m \in 1..5, m1 \in 1..5 : n = 5 /\ m = 2 /\ m1 = 3
          OBVIOUS
        <4>5. /\ DOMAIN st = 1..n /\ DOMAIN su = 1..n /\ m \in 1..n /\ m1 \in 1..n /\ m1 = m + 1
              /\ \A k \in 1..n : k # m /\ k # m1 => su[k] = st[k]
              /\ Moved(<<x>>, st[m], su[m], st[m1], su[m1], EventsOf(t))
          BY <3>3, <3>4, <4>3, <4>4
        <4>6. Keeps(st, su, EventsOf(t))
          BY <4>5, AdvanceKeeps
        <4>7. QED
          BY <3>1, <4>6
      <3>7. CASE nbuf = buf
        <4>1. ASSUME NEW k \in 1..5
              PROVE  /\ \A e \in EventsOf(t) : e \in Range(su[k]) => e \in Range(st[k])
                     /\ \A a, b \in EventsOf(t) : Before(su[k], a, b) => Before(st[k], a, b)
          <5>1. CASE k = 3
            BY <2>4, <2>5, <3>3, <3>4, <5>1
          <5>2. CASE k # 3
            <6>1. su[k] = st[k]
              BY <3>3, <3>4, <3>7, <5>2
            <6>2. QED
              BY <6>1
          <5>3. QED
            BY <5>1, <5>2
        <4>2. Keeps(st, su, EventsOf(t))
          BY <3>3, <3>4, <4>1, ShrinkKeeps
        <4>3. QED
          BY <3>1, <4>2
      <3>8. QED
        BY <2>3, <3>1, <3>6, <3>7
    <2>8. QED
      BY <1>0, <1>1, <2>7, OrderKept
  <1>4. ASSUME NEW batch \in Seq(Events), NEW topic, WriteBatch(batch), eventCh' = eventCh,
               \A e \in Range(batch) : TopicOf[e] = topic,
               \A t \in Subs :
                  IF SubTopic[t] = topic
                  THEN /\ (IF SubTopic[t] = TopicLike THEN likeBuf ELSE unlikeBuf) = batch
                       /\ (IF SubTopic[t] = TopicLike THEN likeBuf' ELSE unlikeBuf') = <<>>
                  ELSE (IF SubTopic[t] = TopicLike THEN likeBuf' ELSE unlikeBuf')
                          = (IF SubTopic[t] = TopicLike THEN likeBuf ELSE unlikeBuf)
        PROVE  OrderInv'
    <2>1. stored' = stored \/ stored' = stored \o batch
      BY <1>4 DEF WriteBatch
    <2>2. Range(stored \o batch) = Range(stored) \cup Range(batch)
      BY <1>4, <1>t, RangeConcatenation
    <2>3. \A a, b : Before(stored \o batch, a, b) =>
             Before(stored, a, b) \/ Before(batch, a, b) \/ (a \in Range(stored) /\ b \in Range(batch))
      BY <1>4, <1>t, BeforeConcat
    <2>4. Range(<<>>) = {} /\ \A a, b : ~Before(<<>>, a, b)
      BY BeforeShort
    <2>5. ASSUME NEW t \in Subs PROVE Keeps(Stages(t), Stages(t)', EventsOf(t))
      <3>1. PICK st, su, buf, nbuf, q, h : /\ st = Stages(t) /\ su = Stages(t)' /\ q = ch[t]
                /\ buf = (IF SubTopic[t] = TopicLike THEN likeBuf ELSE unlikeBuf)
                /\ nbuf = (IF SubTopic[t] = TopicLike THEN likeBuf' ELSE unlikeBuf')
                /\ h = (IF hand[t] = NoEvent THEN <<>> ELSE <<hand[t]>>)
        OBVIOUS
      <3>2. st = <<stored, buf, eventCh, h, q>> /\ su = <<stored', nbuf, eventCh, h, q>>
        BY <1>0, <1>4, <3>1 DEF Stages
      <3>3. /\ DOMAIN st = 1..5 /\ st[1] = stored /\ st[2] = buf /\ st[3] = eventCh /\ st[4] = h /\ st[5] = q
        BY <3>2, FiveStages
      <3>4. /\ DOMAIN su = 1..5 /\ su[1] = stored' /\ su[2] = nbuf /\ su[3] = eventCh /\ su[4] = h /\ su[5] = q
        BY <3>2, FiveStages
      <3>5. CASE SubTopic[t] = topic
        <4>1. buf = batch /\ nbuf = <<>>
          BY <1>4, <3>1, <3>5
        <4>2. Moved(batch, stored, stored', batch, <<>>, EventsOf(t))
          <5>1. CASE stored' = stored
            BY <2>4, <5>1 DEF Moved
          <5>2. CASE stored' = stored \o batch
            BY <2>2, <2>3, <2>4, <5>2 DEF Moved
          <5>3. QED
            BY <2>1, <5>1, <5>2
        <4>3. PICK n \in Nat, m \in 1..5, m1 \in 1..5 : n = 5 /\ m = 1 /\ m1 = 2
          OBVIOUS
        <4>4. /\ DOMAIN st = 1..n /\ DOMAIN su = 1..n /\ m \in 1..n /\ m1 \in 1..n /\ m1 = m + 1
              /\ \A k \in 1..n : k # m /\ k # m1 => su[k] = st[k]
              /\ Moved(batch, st[m], su[m], st[m1], su[m1], EventsOf(t))
          BY <3>3, <3>4, <4>1, <4>2, <4>3
        <4>5. Keeps(st, su, EventsOf(t))
          BY <4>4, AdvanceKeeps
        <4>6. QED
          BY <3>1, <4>5
      <3>6. CASE SubTopic[t] # topic
        <4>1. nbuf = buf /\ \A e \in EventsOf(t) : e \notin Range(batch)
          BY <1>4, <3>1, <3>6 DEF EventsOf
        <4>2. /\ \A e \in EventsOf(t) : e \in Range(stored') => e \in Range(stored)
              /\ \A a, b \in EventsOf(t) : Before(stored', a, b) => Before(stored, a, b)
          <5>1. \A a, b : Before(batch, a, b) => a \in Range(batch)
            BY DEF Before, Range
          <5>2. QED
            BY <2>1, <2>2, <2>3, <4>1, <5>1
        <4>3. ASSUME NEW k \in 1..5
              PROVE  /\ \A e \in EventsOf(t) : e \in Range(su[k]) => e \in Range(st[k])
                     /\ \A a, b \in EventsOf(t) : Before(su[k], a, b) => Before(st[k], a, b)
          <5>1. CASE k = 1
            BY <3>3, <3>4, <4>2, <5>1
          <5>2. CASE k # 1
            <6>1. su[k] = st[k]
              BY <3>3, <3>4, <4>1, <5>2
            <6>2. QED
              BY <6>1
          <5>3. QED
            BY <5>1, <5>2
        <4>4. Keeps(st, su, EventsOf(t))
          BY <3>3, <3>4, <4>3, ShrinkKeeps
        <4>5. QED
          BY <3>1, <4>4
      <3>7. QED
        BY <3>5, <3>6
    <2>6. QED
      BY <1>0, <1>1, <2>5, OrderKept
  <1>5. \A t \in Subs : SubTopic[t] \in {TopicLike, TopicUnlike} /\ TopicLike # TopicUnlike
    BY BusAssumption, LikeConsumerAssumption
  <1>6. /\ \A e \in Range(likeBuf) : TopicOf[e] = TopicLike
        /\ \A e \in Range(unlikeBuf) : TopicOf[e] = TopicUnlike
    <2>1. \A e \in Events : TopicOf[e] \in {TopicLike, TopicUnlike}
      BY BusAssumption, LikeConsumerAssumption
    <2>2. Range(unlikeBuf) \subseteq Events
      BY <1>t, RangeOfSeq
    <2>3. QED
      BY <2>1, <2>2 DEF CustodyInv, TopicInv
  <1>7. CASE FlushLikes
    <2>1. WriteBatch(likeBuf) /\ likeBuf' = <<>> /\ UNCHANGED <<eventCh, unlikeBuf>>
      BY <1>7 DEF FlushLikes
    <2>2. QED
      BY <1>4, <1>5, <1>6, <1>t, <2>1
  <1>8. CASE FlushUnlikes
    <2>1. WriteBatch(unlikeBuf) /\ unlikeBuf' = <<>> /\ UNCHANGED <<eventCh, likeBuf>>
      BY <1>8 DEF FlushUnlikes
    <2>2. QED
      BY <1>4, <1>5, <1>6, <1>t, <2>1
  <1>9. CASE LoopTick \/ LoopCtxDone \/ SubWgWait \/ DrainChanEmpty
    BY <1>2, <1>9 DEF LoopTick, LoopCtxDone, SubWgWait, DrainChanEmpty
  <1>10. QED
    BY <1>3, <1>7, <1>8, <1>9 DEF LoopStep, LoopRecv, DrainChanRecv

\* Every step keeps the order.
LEMMA OrderStep == IndInv /\ CustodyInv /\ OrderInv /\ [Next]_vars => OrderInv'
  <1> SUFFICES ASSUME IndInv, CustodyInv, OrderInv, [Next]_vars PROVE OrderInv'
    OBVIOUS
  <1>1. ASSUME UNCHANGED <<stored, likeBuf, unlikeBuf, eventCh, hand, ch, sent, todo>>,
               \A e \in Events : pub'[e] = pub[e] \/ pub[e] = "idle"
        PROVE  OrderInv'
    <2>1. \A s \in Subs : Range(sent[s]) \subseteq Events
      <3>1. \A s \in Subs : sent[s] \in Seq(Events)
        BY StageTypes
      <3>2. QED
        BY <3>1, RangeOfSeq
    <2>2. SentOnce'
      BY <1>1, <2>1 DEF OrderInv, SentOnce
    <2>3. \A s \in Subs : Keeps(Stages(s), Stages(s)', EventsOf(s))
      BY <1>1, StillKeeps
    <2>4. QED
      BY <1>1, <2>2, <2>3, OrderKept
  <1>2. CASE UNCHANGED vars
    BY <1>1, <1>2 DEF vars, busVars, likeVars
  <1>3. ASSUME NEW e \in Events, BeginRequest(e) PROVE OrderInv'
    BY <1>1, <1>3, Places DEF BeginRequest, likeVars
  <1>4. CASE MainStep \/ Signal \/ Phase1Deadline \/ ManagerDeadline
    BY <1>1, <1>4
       DEF MainStep, Signal, Phase1Deadline, ManagerDeadline, Phase1Drained, ManagerCancel,
           ManagerWaited, CloseBus, Close, CloseBusReturn, CloseMySQL, Exit, busVars, likeVars
  <1>5. QED
    BY <1>2, <1>3, <1>4, PublishOrders, SubscribeOrders, HandlerOrders, LoopOrders
       DEF Next, Terminated

\* The consumer works through each topic in the order of publication and stores
\* nothing twice, for any number of events, any capacities and any batch size
\* (channel.go:55-65, like_consumer.go:196-262).
THEOREM PublicationOrder == Spec => []StoredInOrder
  <1>1. Init => OrderInv
    <2> SUFFICES ASSUME Init PROVE OrderInv
      OBVIOUS
    <2>1. /\ Range(<<>>) = {} /\ IsInjective(<<>>) /\ \A a, b : ~Before(<<>>, a, b)
      BY BeforeShort DEF IsInjective
    <2>2. \A s \in Subs : sent[s] = <<>> /\ Stages(s) = <<<<>>, <<>>, <<>>, <<>>, <<>>>>
      BY DEF Init, BusInit, LikeInit, Stages
    <2>3. ASSUME NEW s \in Subs, NEW k \in DOMAIN Stages(s) PROVE Stages(s)[k] = <<>>
      <3>1. PICK st : st = Stages(s)
        OBVIOUS
      <3>2. DOMAIN st = 1..5 /\ st[1] = <<>> /\ st[2] = <<>> /\ st[3] = <<>> /\ st[4] = <<>> /\ st[5] = <<>>
        BY <2>2, <3>1, FiveStages
      <3>3. QED
        BY <2>3, <3>1, <3>2
    <2>4. StoredInOrder
      BY <2>1, <2>2, <2>3 DEF StoredInOrder, Ahead
    <2>5. SentOnce /\ Published
      BY <2>1, <2>2, <2>3 DEF SentOnce, Published
    <2>6. QED
      BY <2>4, <2>5 DEF OrderInv
  <1>2. OrderInv => StoredInOrder
    BY DEF OrderInv
  <1>3. QED
    BY <1>1, <1>2, CustodyInit, DeliveryStep, OrderStep, InductiveInvariance, PTL DEF Spec

=============================================================================
