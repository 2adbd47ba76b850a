------------------------ MODULE CodexClient_proofs ------------------------
(* Proofs about the RPC client: type correctness, that no call is orphaned *)
(* by a transport failure or a Close, and that callbacks run in wire order.*)
EXTENDS CodexClient, SequenceTheorems, TLAPS

USE ClientAssumption DEF ClientAssumption, Calls, Closers, ErrEvent, Events, Messages

LEMMA InitCallInv == Init => CallInv
<1> SUFFICES ASSUME Init PROVE CallInv  OBVIOUS
<1>1. TypeOK
  <2>1. wire \in Seq(Messages) /\ eventCh \in Seq(Events \cup {ErrEvent})
    BY DEF Init
  <2>2. Len(eventCh) <= QueueCap
    BY DEF Init
  <2>3. call \in [Calls -> {"idle", "registered", "writing", "emit", "cleanup",
                          "waiting", "ok", "error"}]
    BY DEF Init
  <2>4. reply \in [RPCs -> {"empty", "ok", "error"}] /\ pending \subseteq RPCs
    BY DEF Init
  <2>5. closer \in [Closers -> {"none", "flag", "stop", "failPending", "kill", "done"}]
    BY DEF Init
  <2>6. /\ server \in {"up", "exited"} /\ waited \in BOOLEAN
        /\ requested \subseteq RPCs /\ writeMu \in Calls \cup {NoCall}
        /\ nested \in CallbackRPCs \cup {NoCall}
    BY DEF Init
  <2>7. emitted \in 0..MaxEvents /\ dispatched \in 0..MaxEvents
    BY DEF Init
  <2>8. held \in Events \cup {ErrEvent}
    BY DEF Init
  <2>9. /\ closing \in BOOLEAN /\ transportErr \in BOOLEAN /\ eventStop \in BOOLEAN
        /\ errorOnce = "idle" /\ reader = "read" /\ owner = "starting"
        /\ dispatcher = "select"
    BY DEF Init
  <2>10. QED
    BY <2>1, <2>2, <2>3, <2>4, <2>5, <2>6, <2>7, <2>8, <2>9 DEF TypeOK
<1>2. ErrorVisible /\ Answered /\ NoLateEntry /\ ReplyNeverBlocks
  BY DEF Init, ErrorVisible, Answered, NoLateEntry, ReplyNeverBlocks
<1>3. QED  BY <1>1, <1>2 DEF CallInv

(* What FailPending does to the two variables it changes. *)
LEMMA FailPendingEffect ==
  ASSUME TypeOK, FailPending
  PROVE  /\ pending' = {}
         /\ reply' \in [RPCs -> {"empty", "ok", "error"}]
         /\ \A c \in RPCs : reply[c] # "empty" => reply'[c] # "empty"
         /\ \A c \in pending : reply'[c] # "empty"
         /\ \A c \in RPCs \ pending : reply'[c] = reply[c]
BY DEF TypeOK, FailPending

LEMMA CallerStep ==
  ASSUME CallInv, NEW c \in Calls, Caller(c)
  PROVE  CallInv'
<1> USE DEF CallInv, TypeOK, ErrorVisible, Answered, NoLateEntry, ReplyNeverBlocks,
            Drained, serverVars, callVars, stateVars, readVars, dispVars, ownVars
<1>1. CASE StartCall(c)    BY <1>1 DEF StartCall, BeginCall
<1>2. CASE SendCheck(c)    BY <1>2 DEF SendCheck
<1>3. CASE SendWrite(c)    BY <1>3 DEF SendWrite
<1>4. CASE SendFails(c)    BY <1>4 DEF SendFails
<1>5. CASE SendEmitted(c)  BY <1>5 DEF SendEmitted
<1>6. CASE CallCleanup(c)  BY <1>6 DEF CallCleanup
<1>7. QED  BY <1>1, <1>2, <1>3, <1>4, <1>5, <1>6 DEF Caller

LEMMA OutcomeStep ==
  ASSUME CallInv, NEW c \in RPCs, CallerOutcome(c)
  PROVE  CallInv'
<1> USE DEF CallInv, TypeOK, ErrorVisible, Answered, NoLateEntry, ReplyNeverBlocks,
            Drained, serverVars, callVars, stateVars, readVars, dispVars, ownVars
<1>1. CASE CallReceive(c)  BY <1>1 DEF CallReceive
<1>2. CASE CallTimeout(c)  BY <1>2 DEF CallTimeout
<1>3. QED  BY <1>1, <1>2 DEF CallerOutcome

LEMMA EmitStep ==
  ASSUME CallInv, Emit
  PROVE  CallInv'
<1> USE DEF CallInv, TypeOK, ErrorVisible, Answered, NoLateEntry, ReplyNeverBlocks,
            Drained, serverVars, callVars, stateVars, readVars, dispVars, ownVars
<1>1. CASE EmitBegin        BY <1>1 DEF EmitBegin
<1>2. CASE EmitFailPending  BY <1>2, FailPendingEffect DEF EmitFailPending
<1>3. CASE EmitReport       BY <1>3 DEF EmitReport
<1>4. QED  BY <1>1, <1>2, <1>3 DEF Emit

LEMMA CloserStep ==
  ASSUME CallInv, NEW t \in Closers, Closer(t)
  PROVE  CallInv'
<1> USE DEF CallInv, TypeOK, ErrorVisible, Answered, NoLateEntry, ReplyNeverBlocks,
            Drained, serverVars, callVars, stateVars, readVars, dispVars, ownVars
<1>1. CASE CloseFlag(t)         BY <1>1 DEF CloseFlag
<1>2. CASE CloseStop(t)         BY <1>2 DEF CloseStop
<1>3. CASE CloseFailPending(t)  BY <1>3, FailPendingEffect DEF CloseFailPending
<1>4. CASE CloseKill(t)         BY <1>4 DEF CloseKill
<1>5. QED  BY <1>1, <1>2, <1>3, <1>4 DEF Closer

LEMMA OwnerStep ==
  ASSUME CallInv, Owner
  PROVE  CallInv'
<1> USE DEF CallInv, TypeOK, ErrorVisible, Answered, NoLateEntry, ReplyNeverBlocks,
            Drained, serverVars, callVars, stateVars, readVars, dispVars, ownVars
<1>1. CASE OwnerInitialize   BY <1>1 DEF OwnerInitialize, BeginCall
<1>2. CASE OwnerInitialized  BY <1>2 DEF OwnerInitialized, BeginCall
<1>3. CASE OwnerReady        BY <1>3 DEF OwnerReady
<1>4. CASE OwnerClose        BY <1>4 DEF OwnerClose
<1>5. QED  BY <1>1, <1>2, <1>3, <1>4 DEF Owner

(* enqueueEvent keeps the queue typed and within its capacity. *)
LEMMA QueueTyped ==
  ASSUME TypeOK, NEW e \in Events \cup {ErrEvent}, NEW next, EnqueueEvent(e, next)
  PROVE  eventCh' \in Seq(Events \cup {ErrEvent}) /\ Len(eventCh') <= QueueCap
<1>1. eventCh \in Seq(Events \cup {ErrEvent}) /\ Len(eventCh) <= QueueCap
  BY DEF TypeOK
<1>2. CASE eventCh' = eventCh  BY <1>1, <1>2
<1>3. CASE Len(eventCh) < QueueCap /\ eventCh' = Append(eventCh, e)
  <2>1. eventCh' \in Seq(Events \cup {ErrEvent}) /\ Len(eventCh') = Len(eventCh) + 1
    BY <1>1, <1>3, AppendProperties
  <2>2. QED  BY <1>1, <1>3, <2>1, LenProperties
<1>4. QED  BY <1>2, <1>3 DEF EnqueueEvent

LEMMA ReaderStep ==
  ASSUME CallInv, Reader
  PROVE  CallInv'
<1> USE DEF CallInv, TypeOK, ErrorVisible, Answered, NoLateEntry, ReplyNeverBlocks,
            Drained, serverVars, callVars, stateVars, readVars, dispVars, ownVars
<1>1. CASE ReadEvent
  <2>1. Head(wire) \in Messages /\ Tail(wire) \in Seq(Messages)
    BY <1>1 DEF ReadEvent
  <2>2. Head(wire).n \in Events
    BY <1>1, <2>1 DEF ReadEvent
  <2>3. EnqueueEvent(Head(wire).n, "read")
    BY <1>1 DEF ReadEvent
  <2>4. eventCh' \in Seq(Events \cup {ErrEvent}) /\ Len(eventCh') <= QueueCap
    BY <2>2, <2>3, QueueTyped
  <2>5. reader' \in {"read", "emit"}
    BY <2>3 DEF EnqueueEvent
  <2>6. QED  BY <1>1, <2>1, <2>4, <2>5 DEF ReadEvent
<1>2. CASE ReadResponse         BY <1>2 DEF ReadResponse
<1>3. CASE ReaderOverflowClose  BY <1>3 DEF ReaderOverflowClose
<1>4. CASE ReadEOF              BY <1>4 DEF ReadEOF
<1>5. CASE EOFSetError          BY <1>5 DEF EOFSetError
<1>6. CASE EOFFailPending       BY <1>6, FailPendingEffect DEF EOFFailPending
<1>7. CASE EOFEnqueue
  <2>1. EnqueueEvent(ErrEvent, "stopped")
    BY <1>7 DEF EOFEnqueue
  <2>2. eventCh' \in Seq(Events \cup {ErrEvent}) /\ Len(eventCh') <= QueueCap
    BY <2>1, QueueTyped
  <2>3. reader' \in {"stopped", "emit"}
    BY <2>1 DEF EnqueueEvent
  <2>4. QED  BY <1>7, <2>2, <2>3 DEF EOFEnqueue
<1>8. QED  BY <1>1, <1>2, <1>3, <1>4, <1>5, <1>6, <1>7 DEF Reader

LEMMA DispatcherStep ==
  ASSUME CallInv, Dispatcher \/ (\E c \in CallbackRPCs : CallbackCall(c))
  PROVE  CallInv'
<1> USE DEF CallInv, TypeOK, ErrorVisible, Answered, NoLateEntry, ReplyNeverBlocks,
            Drained, serverVars, callVars, stateVars, readVars, dispVars, ownVars
<1>1. CASE DispatchStop     BY <1>1 DEF DispatchStop
<1>2. CASE DispatchTake     BY <1>2 DEF DispatchTake
<1>3. CASE DispatchHandle   BY <1>3 DEF DispatchHandle
<1>4. CASE CallbackReturn   BY <1>4 DEF CallbackReturn
<1>5. CASE DispatchEmitted  BY <1>5 DEF DispatchEmitted
<1>6. CASE \E c \in CallbackRPCs : CallbackCall(c)
  BY <1>6 DEF CallbackCall, BeginCall
<1>7. QED  BY <1>1, <1>2, <1>3, <1>4, <1>5, <1>6 DEF Dispatcher

LEMMA ServerStep ==
  ASSUME CallInv, Server \/ WaitLoop
  PROVE  CallInv'
<1> USE DEF CallInv, TypeOK, ErrorVisible, Answered, NoLateEntry, ReplyNeverBlocks,
            Drained, serverVars, callVars, stateVars, readVars, dispVars, ownVars
<1>1. CASE ServerEvent  BY <1>1 DEF ServerEvent
<1>2. CASE ServerExit   BY <1>2 DEF ServerExit
<1>3. CASE \E c \in RPCs : ServerRespond(c)  BY <1>3 DEF ServerRespond
<1>4. CASE WaitLoop
  <2>1. PICK k \in 0..Len(wire) : wire' = SubSeq(wire, 1, k)
    BY <1>4 DEF WaitLoop
  <2>2. wire' \in Seq(Messages)
    BY <2>1, SubSeqProperties
  <2>3. QED  BY <1>4, <2>2 DEF WaitLoop
<1>5. QED  BY <1>1, <1>2, <1>3, <1>4 DEF Server

(* The invariant is inductive. *)
LEMMA CallInvStep == CallInv /\ [Next]_vars => CallInv'
<1> SUFFICES ASSUME CallInv, [Next]_vars PROVE CallInv'  OBVIOUS
<1>1. CASE UNCHANGED vars
  BY <1>1 DEF vars, CallInv, TypeOK, ErrorVisible, Answered, NoLateEntry, ReplyNeverBlocks,
            Drained, serverVars, callVars, stateVars, readVars, dispVars, ownVars
<1>2. CASE Next
  BY <1>2, CallerStep, OutcomeStep, EmitStep, CloserStep, OwnerStep, ReaderStep,
     DispatcherStep, ServerStep DEF Next
<1>3. QED  BY <1>1, <1>2

LEMMA CallInvHolds == Spec => []CallInv
BY InitCallInv, CallInvStep, PTL DEF Spec

(* Every variable of the client stays in its type; the event queue never    *)
(* holds more than QueueCap entries.                                        *)
THEOREM ClientTypeCorrect == Spec => []TypeOK
<1>1. CallInv => TypeOK  BY DEF CallInv
<1>2. QED  BY <1>1, CallInvHolds, PTL

(* For any number of callers and any queue capacity: after failPending has  *)
(* run for a write failure, an overflow, EOF or Close, no call waits without *)
(* an answer in its channel.                                                *)
THEOREM ClientNoOrphanedCall == Spec => []NoOrphanedCall
<1>1. CallInv => NoOrphanedCall
  BY DEF CallInv, Answered, NoLateEntry, NoOrphanedCall
<1>2. QED  BY <1>1, CallInvHolds, PTL

(* The reader never blocks on a full reply channel. *)
THEOREM ClientReplyNeverBlocks == Spec => []ReplyNeverBlocks
<1>1. CallInv => ReplyNeverBlocks  BY DEF CallInv
<1>2. QED  BY <1>1, CallInvHolds, PTL

-----------------------------------------------------------------------------
(* The order of events.  First what reading, writing and truncating do to   *)
(* a stream whose events are consecutive.                                   *)

(* An event at the head is the next number; the rest goes on after it. *)
LEMMA HeadIsNext ==
  ASSUME NEW s \in Seq(Messages), NEW b \in Nat, InOrder(s, b),
         s # <<>>, Head(s).kind = "event"
  PROVE  Head(s).n = b + 1 /\ InOrder(Tail(s), b + 1)
<1>1. 1 \in DOMAIN s /\ Head(s) = s[1] /\ s[1] \in Messages
  OBVIOUS
<1>2. s[1].n > b /\ s[1].n \in Nat /\ \A n \in (b + 1)..s[1].n : \E i \in 1..1 : s[i] = Event(n)
  BY <1>1 DEF InOrder
<1>3. s[1] = Event(b + 1)
  BY <1>2
<1>4. s[1].n = b + 1
  BY <1>3 DEF Event
<1>5. /\ Tail(s) \in Seq(Messages)
      /\ \A j \in DOMAIN Tail(s) : Tail(s)[j] = s[j + 1] /\ j \in Nat /\ j + 1 \in DOMAIN s
      /\ \A i \in DOMAIN s : i # 1 => i - 1 \in DOMAIN Tail(s) /\ Tail(s)[i - 1] = s[i]
  OBVIOUS
<1>6. ASSUME NEW j \in DOMAIN Tail(s), Tail(s)[j].kind = "event"
      PROVE  /\ Tail(s)[j].n > b + 1
             /\ \A n \in (b + 2)..Tail(s)[j].n : \E i \in 1..j : Tail(s)[i] = Event(n)
  <2>1. s[j + 1] = Tail(s)[j] /\ j + 1 \in DOMAIN s /\ j \in Nat \ {0} /\ s[j + 1] \in Messages
    BY <1>5
  <2>2. s[1].n < s[j + 1].n
    BY <1>1, <1>6, <2>1 DEF InOrder
  <2>3. s[j + 1].n \in Nat
    BY <1>6, <2>1
  <2>4. ASSUME NEW n \in (b + 2)..Tail(s)[j].n
        PROVE  \E i \in 1..j : Tail(s)[i] = Event(n)
    <3>1. PICK i \in 1..(j + 1) : s[i] = Event(n)
      BY <1>6, <2>1, <2>3, <2>4 DEF InOrder
    <3>2. i # 1
      BY <1>4, <2>4, <3>1 DEF Event
    <3>3. i - 1 \in 1..j /\ i \in DOMAIN s
      BY <2>1, <3>2
    <3>4. Tail(s)[i - 1] = Event(n)
      BY <1>5, <3>1, <3>2, <3>3
    <3>5. QED  BY <3>3, <3>4
  <2>5. QED  BY <1>4, <2>1, <2>2, <2>3, <2>4
<1>7. ASSUME NEW i \in DOMAIN Tail(s), NEW j \in DOMAIN Tail(s), i < j,
             Tail(s)[i].kind = "event", Tail(s)[j].kind = "event"
      PROVE  Tail(s)[i].n < Tail(s)[j].n
  <2>1. i + 1 < j + 1 /\ i + 1 \in DOMAIN s /\ j + 1 \in DOMAIN s
        /\ s[i + 1] = Tail(s)[i] /\ s[j + 1] = Tail(s)[j]
    BY <1>5, <1>7
  <2>2. QED  BY <1>7, <2>1 DEF InOrder
<1>8. InOrder(Tail(s), b + 1)
  BY <1>6, <1>7 DEF InOrder
<1>9. QED  BY <1>1, <1>4, <1>8

(* A response at the head is not part of the order. *)
LEMMA ResponseSkipped ==
  ASSUME NEW s \in Seq(Messages), NEW b \in Nat, InOrder(s, b),
         s # <<>>, Head(s).kind = "response"
  PROVE  InOrder(Tail(s), b)
<1>1. 1 \in DOMAIN s /\ Head(s) = s[1] /\ s[1] \in Messages
  OBVIOUS
<1>2. /\ Tail(s) \in Seq(Messages)
      /\ \A j \in DOMAIN Tail(s) : Tail(s)[j] = s[j + 1] /\ j \in Nat \ {0} /\ j + 1 \in DOMAIN s
      /\ \A i \in DOMAIN s : i # 1 => i - 1 \in DOMAIN Tail(s) /\ Tail(s)[i - 1] = s[i]
  OBVIOUS
<1>3. ASSUME NEW j \in DOMAIN Tail(s), Tail(s)[j].kind = "event"
      PROVE  /\ Tail(s)[j].n > b
             /\ \A n \in (b + 1)..Tail(s)[j].n : \E i \in 1..j : Tail(s)[i] = Event(n)
  <2>1. s[j + 1] = Tail(s)[j] /\ j + 1 \in DOMAIN s /\ j \in Nat \ {0}
    BY <1>2
  <2>2. s[j + 1].n > b
    BY <1>3, <2>1 DEF InOrder
  <2>3. ASSUME NEW n \in (b + 1)..Tail(s)[j].n
        PROVE  \E i \in 1..j : Tail(s)[i] = Event(n)
    <3>1. PICK i \in 1..(j + 1) : s[i] = Event(n)
      BY <1>3, <2>1, <2>3 DEF InOrder
    <3>2. i # 1
      BY <1>1, <3>1 DEF Event
    <3>3. i - 1 \in 1..j /\ i \in DOMAIN s
      BY <2>1, <3>2
    <3>4. Tail(s)[i - 1] = Event(n)
      BY <1>2, <3>1, <3>2, <3>3
    <3>5. QED  BY <3>3, <3>4
  <2>4. QED  BY <2>1, <2>2, <2>3
<1>4. ASSUME NEW i \in DOMAIN Tail(s), NEW j \in DOMAIN Tail(s), i < j,
             Tail(s)[i].kind = "event", Tail(s)[j].kind = "event"
      PROVE  Tail(s)[i].n < Tail(s)[j].n
  <2>1. i + 1 < j + 1 /\ i + 1 \in DOMAIN s /\ j + 1 \in DOMAIN s
        /\ s[i + 1] = Tail(s)[i] /\ s[j + 1] = Tail(s)[j]
    BY <1>2, <1>4
  <2>2. QED  BY <1>4, <2>1 DEF InOrder
<1>5. QED  BY <1>3, <1>4 DEF InOrder

(* What is left of a truncated stream is in order. *)
LEMMA PrefixInOrder ==
  ASSUME NEW s \in Seq(Messages), NEW b \in Nat, InOrder(s, b), NEW k \in 0..Len(s)
  PROVE  InOrder(SubSeq(s, 1, k), b)
<1> DEFINE p == SubSeq(s, 1, k)
<1>1. \A j \in DOMAIN p : p[j] = s[j] /\ j \in DOMAIN s /\ j \in Nat
  OBVIOUS
<1>2. DOMAIN p = 1..k /\ k \in Nat
  OBVIOUS
<1> HIDE DEF p
<1>3. ASSUME NEW j \in DOMAIN p, p[j].kind = "event"
      PROVE  p[j].n > b /\ \A n \in (b + 1)..p[j].n : \E i \in 1..j : p[i] = Event(n)
  <2>1. s[j].n > b /\ \A n \in (b + 1)..s[j].n : \E i \in 1..j : s[i] = Event(n)
    BY <1>1, <1>3 DEF InOrder
  <2>2. \A i \in 1..j : p[i] = s[i]
    BY <1>1, <1>2, <1>3
  <2>3. QED  BY <1>1, <2>1, <2>2
<1>4. \A i, j \in DOMAIN p :
        i < j /\ p[i].kind = "event" /\ p[j].kind = "event" => p[i].n < p[j].n
  BY <1>1 DEF InOrder
<1>5. InOrder(p, b)
  BY <1>3, <1>4 DEF InOrder
<1>6. QED  BY <1>5 DEF p

(* A running server appends the successor of what it has emitted. *)
LEMMA AppendInOrder ==
  ASSUME NEW s \in Seq(Messages), NEW b \in Nat, NEW e \in Nat, e < MaxEvents,
         InOrder(s, b), AllEmitted(s, b, e)
  PROVE  LET t == Append(s, Event(e + 1)) IN InOrder(t, b) /\ AllEmitted(t, b, e + 1)
<1> DEFINE t == Append(s, Event(e + 1))
<1>1. Event(e + 1) \in Messages
  BY DEF Event
<1>2. /\ DOMAIN t = 1..(Len(s) + 1) /\ DOMAIN s = 1..Len(s) /\ Len(s) \in Nat
      /\ t[Len(s) + 1] = Event(e + 1)
      /\ \A i \in DOMAIN s : t[i] = s[i]
  BY <1>1
<1>3. Event(e + 1).n = e + 1 /\ Event(e + 1).kind = "event"
  BY DEF Event
<1> HIDE DEF t
<1>4. ASSUME NEW j \in DOMAIN t, t[j].kind = "event"
      PROVE  t[j].n > b /\ \A n \in (b + 1)..t[j].n : \E i \in 1..j : t[i] = Event(n)
  <2>1. CASE j \in DOMAIN s
    <3>1. s[j].n > b /\ \A n \in (b + 1)..s[j].n : \E i \in 1..j : s[i] = Event(n)
      BY <1>2, <1>4, <2>1 DEF InOrder
    <3>2. \A i \in 1..j : t[i] = s[i]
      BY <1>2, <2>1
    <3>3. QED  BY <1>2, <2>1, <3>1, <3>2
  <2>2. CASE j = Len(s) + 1
    <3>1. t[j].n = e + 1 /\ e + 1 > b
      BY <1>2, <1>3, <2>2 DEF AllEmitted
    <3>2. ASSUME NEW n \in (b + 1)..(e + 1)
          PROVE  \E i \in 1..j : t[i] = Event(n)
      <4>1. CASE n = e + 1
        BY <1>2, <2>2, <4>1
      <4>2. CASE n \in (b + 1)..e
        <5>1. PICK i \in DOMAIN s : s[i] = Event(n)
          BY <4>2 DEF AllEmitted
        <5>2. QED  BY <1>2, <2>2, <5>1
      <4>3. QED  BY <4>1, <4>2
    <3>3. QED  BY <3>1, <3>2
  <2>3. QED  BY <1>2, <2>1, <2>2
<1>5. ASSUME NEW i \in DOMAIN t, NEW j \in DOMAIN t, i < j,
             t[i].kind = "event", t[j].kind = "event"
      PROVE  t[i].n < t[j].n
  <2>1. i \in DOMAIN s /\ t[i] = s[i] /\ s[i] \in Messages /\ s[i].n \in Nat
    BY <1>2, <1>5
  <2>2. CASE j \in DOMAIN s
    BY <1>2, <1>5, <2>1, <2>2 DEF InOrder
  <2>3. CASE j = Len(s) + 1
    <3>1. s[i].n <= e
      BY <1>5, <2>1 DEF AllEmitted
    <3>2. QED  BY <1>2, <1>3, <2>1, <2>3, <3>1
  <2>4. QED  BY <1>2, <2>2, <2>3
<1>6. InOrder(t, b)
  BY <1>4, <1>5 DEF InOrder
<1>7. ASSUME NEW m \in (b + 1)..(e + 1)
      PROVE  \E i \in DOMAIN t : t[i] = Event(m)
  <2>1. CASE m = e + 1
    BY <1>2, <2>1
  <2>2. CASE m \in (b + 1)..e
    <3>1. PICK i \in DOMAIN s : s[i] = Event(m)
      BY <2>2 DEF AllEmitted
    <3>2. QED  BY <1>2, <3>1
  <2>3. QED  BY <2>1, <2>2
<1>8. ASSUME NEW i \in DOMAIN t, t[i].kind = "event"
      PROVE  t[i].n <= e + 1
  <2>1. CASE i = Len(s) + 1
    BY <1>2, <1>3, <2>1
  <2>2. CASE i \in DOMAIN s
    <3>1. t[i] = s[i] /\ s[i] \in Messages /\ s[i].n \in Nat /\ s[i].n <= e
      BY <1>2, <1>8, <2>2 DEF AllEmitted
    <3>2. QED  BY <3>1
  <2>3. QED  BY <1>2, <2>1, <2>2
<1>9. b <= e + 1
  BY DEF AllEmitted
<1>10. AllEmitted(t, b, e + 1)
  BY <1>7, <1>8, <1>9 DEF AllEmitted
<1>11. QED  BY <1>6, <1>10 DEF t

(* Reading the head of the stream keeps it complete for a running server. *)
LEMMA TailEmitted ==
  ASSUME NEW s \in Seq(Messages), NEW b \in Nat, NEW e \in Nat, s # <<>>, AllEmitted(s, b, e)
  PROVE  /\ Head(s) = Event(b + 1) => AllEmitted(Tail(s), b + 1, e)
         /\ Head(s).kind = "response" => AllEmitted(Tail(s), b, e)
<1>1. 1 \in DOMAIN s /\ Head(s) = s[1]
  OBVIOUS
<1>2. /\ \A j \in DOMAIN Tail(s) : Tail(s)[j] = s[j + 1] /\ j + 1 \in DOMAIN s
      /\ \A i \in DOMAIN s : i # 1 => i - 1 \in DOMAIN Tail(s) /\ Tail(s)[i - 1] = s[i]
  OBVIOUS
<1>3. \A i \in DOMAIN Tail(s) : Tail(s)[i].kind = "event" => Tail(s)[i].n <= e
  BY <1>2 DEF AllEmitted
<1>4. ASSUME NEW m \in (b + 1)..e, Head(s) # Event(m)
      PROVE  \E i \in DOMAIN Tail(s) : Tail(s)[i] = Event(m)
  <2>1. PICK i \in DOMAIN s : s[i] = Event(m)
    BY DEF AllEmitted
  <2>2. i # 1
    BY <1>1, <1>4, <2>1
  <2>3. QED  BY <1>2, <2>1, <2>2
<1>5. CASE Head(s) = Event(b + 1)
  <2>1. Head(s).kind = "event" /\ Head(s).n = b + 1
    BY <1>5 DEF Event
  <2>2. b + 1 <= e
    BY <1>1, <2>1 DEF AllEmitted
  <2>3. ASSUME NEW m \in (b + 2)..e
        PROVE  \E i \in DOMAIN Tail(s) : Tail(s)[i] = Event(m)
    <3>1. Event(m) # Event(b + 1)
      BY DEF Event
    <3>2. QED  BY <1>4, <1>5, <3>1
  <2>4. AllEmitted(Tail(s), b + 1, e)
    BY <1>3, <2>2, <2>3 DEF AllEmitted
  <2>5. QED  BY <2>1, <2>4
<1>6. CASE Head(s).kind = "response"
  <2>1. \A m \in (b + 1)..e : Head(s) # Event(m)
    BY <1>6 DEF Event
  <2>2. AllEmitted(Tail(s), b, e)
    BY <1>3, <1>4, <2>1 DEF AllEmitted
  <2>3. Head(s) # Event(b + 1)
    BY <1>6 DEF Event
  <2>4. QED  BY <2>2, <2>3
<1>7. QED  BY <1>5, <1>6

(* The numbers that the invariant speaks of. *)
LEMMA LastTyped ==
  ASSUME TypeOK
  PROVE  LastTaken \in Nat /\ LastQueued \in Nat /\ Len(eventCh) \in Nat
BY DEF TypeOK, LastTaken, LastQueued

LEMMA InitOrder == Init => OrderInv
<1> SUFFICES ASSUME Init PROVE OrderInv  OBVIOUS
<1>1. LastTaken = 0 /\ LastQueued = 0
  BY DEF Init, LastTaken, LastQueued
<1>2. InOrder(wire, LastQueued) /\ AllEmitted(wire, LastQueued, emitted)
  BY <1>1 DEF Init, InOrder, AllEmitted
<1>3. ReaderClosed /\ HeldNext /\ QueueNext
  BY DEF Init, ReaderClosed, HeldNext, QueueNext
<1>4. QED  BY <1>2, <1>3 DEF OrderInv, WireNext

(* Steps that touch neither the stream nor the queue nor the dispatcher's   *)
(* hand.                                                                    *)
orderVars == <<wire, server, emitted, reader, eventCh, eventStop, closer, dispatcher, held, dispatched>>

LEMMA OrderUntouched ==
  ASSUME OrderInv, UNCHANGED orderVars
  PROVE  OrderInv'
BY DEF orderVars, OrderInv, ReaderClosed, HeldNext, QueueNext, WireNext, InOrder,
       AllEmitted, LastTaken, LastQueued, Event

LEMMA OrderOfCallers ==
  ASSUME OrderInv,
         \/ \E c \in Calls : Caller(c)
         \/ \E c \in RPCs : CallerOutcome(c)
         \/ \E c \in CallbackRPCs : CallbackCall(c)
         \/ Emit
  PROVE  OrderInv'
<1>1. UNCHANGED orderVars
  BY DEF Caller, StartCall, SendCheck, SendWrite, SendFails, SendEmitted, CallCleanup,
         CallerOutcome, CallReceive, CallTimeout, CallbackCall, Emit, EmitBegin,
         EmitFailPending, EmitReport, orderVars, serverVars, stateVars, readVars,
         dispVars, ownVars
<1>2. QED  BY <1>1, OrderUntouched

(* A response that is written is not part of the order. *)
LEMMA AppendResponse ==
  ASSUME NEW s \in Seq(Messages), NEW b \in Nat, NEW e \in Nat, NEW c \in RPCs,
         InOrder(s, b), AllEmitted(s, b, e)
  PROVE  LET t == Append(s, [kind |-> "response", call |-> c])
         IN  InOrder(t, b) /\ AllEmitted(t, b, e)
<1> DEFINE t == Append(s, [kind |-> "response", call |-> c])
<1>1. /\ DOMAIN t = 1..(Len(s) + 1) /\ DOMAIN s = 1..Len(s) /\ Len(s) \in Nat
      /\ t[Len(s) + 1].kind = "response"
      /\ \A i \in DOMAIN s : t[i] = s[i]
  OBVIOUS
<1> HIDE DEF t
<1>2. \A i \in DOMAIN t : t[i].kind = "event" => i \in DOMAIN s /\ i \in Nat /\ t[i] = s[i]
  BY <1>1
<1>3. ASSUME NEW j \in DOMAIN t, t[j].kind = "event"
      PROVE  t[j].n > b /\ \A n \in (b + 1)..t[j].n : \E i \in 1..j : t[i] = Event(n)
  <2>1. s[j].n > b /\ \A n \in (b + 1)..s[j].n : \E i \in 1..j : s[i] = Event(n)
    BY <1>2, <1>3 DEF InOrder
  <2>2. \A i \in 1..j : t[i] = s[i]
    BY <1>1, <1>2, <1>3
  <2>3. QED  BY <1>2, <1>3, <2>1, <2>2
<1>4. InOrder(t, b)
  BY <1>2, <1>3 DEF InOrder
<1>5. AllEmitted(t, b, e)
  BY <1>1, <1>2 DEF AllEmitted
<1>6. QED  BY <1>4, <1>5 DEF t

(* The steps of Close: once eventStop is closed nothing is asked of the     *)
(* order any more.                                                          *)
LEMMA OrderOfClosers ==
  ASSUME TypeOK, OrderInv, NEW t \in Closers, Closer(t)
  PROVE  OrderInv'
<1> USE DEF OrderInv, ReaderClosed, TypeOK, serverVars, callVars, stateVars, readVars,
            dispVars, ownVars
<1>1. CASE CloseFlag(t)
  BY <1>1 DEF CloseFlag, HeldNext, QueueNext, WireNext, LastTaken, LastQueued
<1>2. CASE CloseStop(t)         BY <1>2 DEF CloseStop
<1>3. CASE CloseFailPending(t)  BY <1>3 DEF CloseFailPending
<1>4. CASE CloseKill(t)         BY <1>4 DEF CloseKill
<1>5. QED  BY <1>1, <1>2, <1>3, <1>4 DEF Closer

LEMMA OrderOfOwner ==
  ASSUME TypeOK, OrderInv, Owner
  PROVE  OrderInv'
<1>1. /\ UNCHANGED <<wire, server, emitted, reader, eventCh, eventStop, dispatcher, held, dispatched>>
      /\ closer' = closer \/ closer' = [closer EXCEPT !["owner"] = "flag"]
  BY DEF Owner, OwnerInitialize, OwnerInitialized, OwnerReady, OwnerClose, serverVars,
         stateVars, readVars, dispVars
<1>2. ReaderClosed'
  BY <1>1 DEF OrderInv, ReaderClosed, TypeOK
<1>3. QED
  BY <1>1, <1>2 DEF OrderInv, HeldNext, QueueNext, WireNext, LastTaken, LastQueued

(* The reader moves the next number from the stream to the queue, or leaves *)
(* it out and stops reading.                                                *)
LEMMA OrderOfReadEvent ==
  ASSUME TypeOK, OrderInv, ReadEvent
  PROVE  OrderInv'
<1> DEFINE e == Head(wire).n
<1>1. /\ reader = "read" /\ wire # <<>> /\ Head(wire).kind = "event"
      /\ wire' = Tail(wire) /\ EnqueueEvent(e, "read")
      /\ UNCHANGED <<server, emitted, closer, eventStop, dispatcher, held, dispatched>>
  BY DEF ReadEvent, serverVars, stateVars, dispVars, ownVars
<1>2. LastTaken' = LastTaken /\ ReaderClosed'
  BY <1>1 DEF OrderInv, ReaderClosed, LastTaken
<1>3. CASE eventStop
  BY <1>1, <1>2, <1>3 DEF OrderInv
<1>4. CASE ~eventStop
  <2>1. HeldNext /\ QueueNext /\ InOrder(wire, LastQueued)
        /\ (server = "up" => AllEmitted(wire, LastQueued, emitted))
    BY <1>1, <1>4 DEF OrderInv, WireNext
  <2>2. wire \in Seq(Messages) /\ emitted \in Nat /\ eventCh \in Seq(Events \cup {ErrEvent})
    BY DEF TypeOK
  <2>3. e = LastQueued + 1 /\ InOrder(Tail(wire), LastQueued + 1)
    BY <1>1, <2>1, <2>2, LastTyped, HeadIsNext
  <2>4. Head(wire) = Event(LastQueued + 1)
    BY <1>1, <2>2, <2>3 DEF Event
  <2>5. server = "up" => AllEmitted(Tail(wire), LastQueued + 1, emitted)
    BY <1>1, <2>1, <2>2, <2>4, LastTyped, TailEmitted
  <2>6. HeldNext'
    BY <1>1, <2>1 DEF HeldNext
  <2>7. CASE eventCh' = Append(eventCh, e) /\ reader' = "read"
    <3>0. e \in Events
      BY <1>1, <2>2
    <3>1. /\ Len(eventCh') = Len(eventCh) + 1 /\ DOMAIN eventCh' = 1..(Len(eventCh) + 1)
          /\ eventCh'[Len(eventCh) + 1] = e /\ DOMAIN eventCh = 1..Len(eventCh)
          /\ \A i \in DOMAIN eventCh : eventCh'[i] = eventCh[i]
      BY <2>2, <2>7, <3>0
    <3>2. LastQueued' = LastQueued + 1
      BY <1>2, <3>1, LastTyped DEF LastQueued
    <3>3. \A i \in DOMAIN eventCh : eventCh[i] = LastTaken + i
      BY <1>1, <2>1 DEF QueueNext
    <3>4. e = LastTaken + (Len(eventCh) + 1)
      BY <2>3, LastTyped DEF LastQueued
    <3>5. \A i \in DOMAIN eventCh' : eventCh'[i] = LastTaken' + i
      BY <1>2, <3>1, <3>3, <3>4, LastTyped
    <3>6. QueueNext'
      BY <3>5 DEF QueueNext
    <3>7. WireNext'
      BY <1>1, <2>3, <2>5, <3>2 DEF WireNext
    <3>8. QED  BY <1>2, <2>6, <3>6, <3>7 DEF OrderInv
  <2>8. CASE eventCh' = eventCh /\ reader' = "emit"
    <3>1. QueueNext'
      BY <1>1, <1>2, <2>1, <2>8 DEF QueueNext
    <3>2. QED  BY <1>2, <2>6, <2>8, <3>1 DEF OrderInv, WireNext
  <2>9. QED  BY <1>1, <1>4, <2>7, <2>8 DEF EnqueueEvent
<1>5. QED  BY <1>3, <1>4

LEMMA OrderOfReader ==
  ASSUME TypeOK, OrderInv, Reader
  PROVE  OrderInv'
<1> USE DEF serverVars, stateVars, readVars, dispVars, ownVars
<1>1. CASE ReadEvent  BY <1>1, OrderOfReadEvent
<1>2. CASE ReadResponse
  <2>1. /\ reader = "read" /\ wire # <<>> /\ Head(wire).kind = "response" /\ wire' = Tail(wire)
        /\ UNCHANGED <<server, emitted, reader, closer, eventCh, eventStop, dispatcher, held, dispatched>>
    BY <1>2 DEF ReadResponse
  <2>2. wire \in Seq(Messages) /\ emitted \in Nat
    BY DEF TypeOK
  <2>3. LastTaken' = LastTaken /\ LastQueued' = LastQueued
    BY <2>1 DEF LastTaken, LastQueued
  <2>4. ~eventStop => WireNext'
    BY <2>1, <2>2, <2>3, LastTyped, ResponseSkipped, TailEmitted DEF OrderInv, WireNext
  <2>5. QED  BY <2>1, <2>3, <2>4 DEF OrderInv, ReaderClosed, HeldNext, QueueNext
<1>3. CASE ReaderOverflowClose
  BY <1>3 DEF ReaderOverflowClose, TypeOK, OrderInv, ReaderClosed, HeldNext, QueueNext,
     WireNext, LastTaken
<1>4. CASE ReadEOF
  BY <1>4 DEF ReadEOF, OrderInv, ReaderClosed, HeldNext, QueueNext, WireNext, LastTaken
<1>5. CASE EOFSetError
  BY <1>5 DEF EOFSetError, OrderInv, ReaderClosed, HeldNext, QueueNext, WireNext, LastTaken
<1>6. CASE EOFFailPending
  BY <1>6 DEF EOFFailPending, OrderInv, ReaderClosed, HeldNext, QueueNext, WireNext, LastTaken
<1>7. CASE EOFEnqueue
  <2>1. /\ reader = "eofEnqueue" /\ EnqueueEvent(ErrEvent, "stopped")
        /\ UNCHANGED <<wire, server, emitted, closer, eventStop, dispatcher, held, dispatched>>
    BY <1>7 DEF EOFEnqueue
  <2>2. LastTaken' = LastTaken /\ ReaderClosed' /\ (HeldNext => HeldNext') /\ WireNext'
    BY <2>1 DEF OrderInv, ReaderClosed, LastTaken, HeldNext, WireNext, EnqueueEvent
  <2>3. ASSUME ~eventStop PROVE QueueNext'
    <3>1. \A i \in DOMAIN eventCh : eventCh[i] = LastTaken + i
      BY <2>1, <2>3 DEF OrderInv, QueueNext
    <3>2. CASE eventCh' = Append(eventCh, ErrEvent) /\ reader' = "stopped"
      <4>1. eventCh \in Seq(Events \cup {ErrEvent})
        BY DEF TypeOK
      <4>2. /\ Len(eventCh') = Len(eventCh) + 1 /\ DOMAIN eventCh' = 1..(Len(eventCh) + 1)
            /\ eventCh'[Len(eventCh) + 1] = ErrEvent /\ DOMAIN eventCh = 1..Len(eventCh)
            /\ Len(eventCh) \in Nat
            /\ \A i \in DOMAIN eventCh : eventCh'[i] = eventCh[i]
        BY <3>2, <4>1
      <4>3. QED  BY <2>2, <3>1, <3>2, <4>2 DEF QueueNext
    <3>3. CASE eventCh' = eventCh
      BY <2>2, <3>1, <3>3 DEF QueueNext
    <3>4. QED  BY <2>1, <2>3, <3>2, <3>3 DEF EnqueueEvent
  <2>4. QED  BY <2>1, <2>2, <2>3 DEF OrderInv
<1>8. QED  BY <1>1, <1>2, <1>3, <1>4, <1>5, <1>6, <1>7 DEF Reader

(* The dispatcher takes the next number off the queue and hands it on.      *)
LEMMA OrderOfDispatcher ==
  ASSUME TypeOK, OrderInv, Dispatcher
  PROVE  OrderInv'
<1> USE DEF serverVars, stateVars, readVars, dispVars, ownVars
<1>1. CASE DispatchStop
  BY <1>1 DEF DispatchStop, OrderInv, ReaderClosed
<1>2. CASE DispatchTake
  <2>1. /\ dispatcher = "select" /\ eventCh # <<>> /\ dispatcher' = "check"
        /\ held' = Head(eventCh) /\ eventCh' = Tail(eventCh)
        /\ UNCHANGED <<wire, server, emitted, reader, closer, eventStop, dispatched>>
    BY <1>2 DEF DispatchTake
  <2>2. eventCh \in Seq(Events \cup {ErrEvent}) /\ dispatched \in Nat
    BY DEF TypeOK
  <2>3. /\ 1 \in DOMAIN eventCh /\ held' = eventCh[1] /\ DOMAIN eventCh = 1..Len(eventCh)
        /\ Len(eventCh) \in Nat /\ DOMAIN eventCh' = 1..(Len(eventCh) - 1)
        /\ Len(eventCh') = Len(eventCh) - 1
        /\ \A i \in DOMAIN eventCh' : eventCh'[i] = eventCh[i + 1]
    BY <2>1, <2>2
  <2>4. LastTaken = dispatched
    BY <2>1 DEF LastTaken
  <2>5. ASSUME ~eventStop PROVE HeldNext' /\ QueueNext' /\ WireNext'
    <3>0. QueueNext /\ WireNext
      BY <2>5 DEF OrderInv
    <3>1. CASE eventCh[1] = ErrEvent
      <4>1. Len(eventCh) = 1 /\ reader = "stopped"
        BY <2>2, <2>3, <2>4, <3>0, <3>1 DEF QueueNext
      <4>2. QED  BY <2>1, <2>3, <3>1, <4>1 DEF HeldNext, QueueNext, WireNext
    <3>2. CASE eventCh[1] # ErrEvent
      <4>1. held' = dispatched + 1
        BY <2>2, <2>3, <2>4, <3>0, <3>2 DEF QueueNext
      <4>2. LastTaken' = LastTaken + 1 /\ LastQueued' = LastQueued
        BY <2>1, <2>2, <2>3, <2>4, <3>2, <4>1 DEF LastTaken, LastQueued
      <4>3. QueueNext'
        <5>1. SUFFICES ASSUME NEW i \in DOMAIN eventCh'
                       PROVE  \/ eventCh'[i] = LastTaken' + i
                              \/ eventCh'[i] = ErrEvent /\ i = Len(eventCh') /\ reader' = "stopped"
          BY DEF QueueNext
        <5>2. i + 1 \in DOMAIN eventCh /\ eventCh'[i] = eventCh[i + 1] /\ i \in Nat
          BY <2>3
        <5>3. \/ eventCh[i + 1] = LastTaken + (i + 1)
              \/ eventCh[i + 1] = ErrEvent /\ i + 1 = Len(eventCh) /\ reader = "stopped"
          BY <3>0, <5>2 DEF QueueNext
        <5>4. LastTaken + (i + 1) = LastTaken' + i
          BY <2>2, <2>4, <4>2, <5>2
        <5>5. QED  BY <2>1, <2>3, <5>2, <5>3, <5>4
      <4>4. QED  BY <2>1, <3>0, <4>1, <4>2, <4>3 DEF HeldNext, WireNext
    <3>3. QED  BY <3>1, <3>2
  <2>6. QED  BY <2>1, <2>5 DEF OrderInv, ReaderClosed
<1>3. CASE DispatchHandle
  BY <1>3 DEF DispatchHandle, OrderInv, ReaderClosed, HeldNext, QueueNext, WireNext,
     LastTaken, LastQueued
<1>4. CASE CallbackReturn
  BY <1>4 DEF CallbackReturn, OrderInv, ReaderClosed, HeldNext, QueueNext, WireNext,
     LastTaken, LastQueued
<1>5. CASE DispatchEmitted
  BY <1>5 DEF DispatchEmitted, OrderInv, ReaderClosed, HeldNext, QueueNext, WireNext,
     LastTaken, LastQueued
<1>6. QED  BY <1>1, <1>2, <1>3, <1>4, <1>5 DEF Dispatcher

LEMMA OrderOfServer ==
  ASSUME TypeOK, OrderInv, Server \/ WaitLoop
  PROVE  OrderInv'
<1> USE DEF serverVars, stateVars, readVars, dispVars, ownVars
<1>0. wire \in Seq(Messages) /\ emitted \in Nat /\ LastQueued \in Nat
  BY LastTyped DEF TypeOK
<1>1. CASE ServerEvent
  <2>1. /\ server = "up" /\ emitted < MaxEvents /\ emitted' = emitted + 1
        /\ wire' = Append(wire, Event(emitted + 1))
        /\ UNCHANGED <<server, reader, closer, eventCh, eventStop, dispatcher, held, dispatched>>
    BY <1>1 DEF ServerEvent, Event
  <2>2. LastTaken' = LastTaken /\ LastQueued' = LastQueued
    BY <2>1 DEF LastTaken, LastQueued
  <2>3. ~eventStop => WireNext'
    BY <1>0, <2>1, <2>2, AppendInOrder DEF OrderInv, WireNext
  <2>4. QED  BY <2>1, <2>2, <2>3 DEF OrderInv, ReaderClosed, HeldNext, QueueNext
<1>2. CASE ServerExit
  BY <1>2 DEF ServerExit, OrderInv, ReaderClosed, HeldNext, QueueNext, WireNext,
     LastTaken, LastQueued
<1>3. CASE \E c \in RPCs : ServerRespond(c)
  <2>1. PICK c \in RPCs : ServerRespond(c)
    BY <1>3
  <2>2. /\ server = "up" /\ wire' = Append(wire, [kind |-> "response", call |-> c])
        /\ UNCHANGED <<server, emitted, reader, closer, eventCh, eventStop, dispatcher, held, dispatched>>
    BY <2>1 DEF ServerRespond
  <2>3. LastTaken' = LastTaken /\ LastQueued' = LastQueued
    BY <2>2 DEF LastTaken, LastQueued
  <2>4. ~eventStop => WireNext'
    BY <1>0, <2>2, <2>3, AppendResponse DEF OrderInv, WireNext
  <2>5. QED  BY <2>2, <2>3, <2>4 DEF OrderInv, ReaderClosed, HeldNext, QueueNext
<1>4. CASE WaitLoop
  <2>1. PICK k \in 0..Len(wire) : wire' = SubSeq(wire, 1, k)
    BY <1>4 DEF WaitLoop
  <2>2. /\ server = "exited"
        /\ UNCHANGED <<server, emitted, reader, closer, eventCh, eventStop, dispatcher, held, dispatched>>
    BY <1>4 DEF WaitLoop
  <2>3. LastTaken' = LastTaken /\ LastQueued' = LastQueued
    BY <2>2 DEF LastTaken, LastQueued
  <2>4. ~eventStop => WireNext'
    BY <1>0, <2>1, <2>2, <2>3, PrefixInOrder DEF OrderInv, WireNext
  <2>5. QED  BY <2>2, <2>3, <2>4 DEF OrderInv, ReaderClosed, HeldNext, QueueNext
<1>5. QED  BY <1>1, <1>2, <1>3, <1>4 DEF Server

LEMMA OrderInvStep == TypeOK /\ OrderInv /\ [Next]_vars => OrderInv'
<1> SUFFICES ASSUME TypeOK, OrderInv, [Next]_vars PROVE OrderInv'  OBVIOUS
<1>1. CASE UNCHANGED vars
  <2>1. UNCHANGED orderVars
    BY <1>1 DEF vars, orderVars, serverVars, stateVars, readVars, dispVars, ownVars
  <2>2. QED  BY <2>1, OrderUntouched
<1>2. CASE Next
  BY <1>2, OrderOfCallers, OrderOfClosers, OrderOfOwner, OrderOfReader,
     OrderOfDispatcher, OrderOfServer DEF Next
<1>3. QED  BY <1>1, <1>2

(* For any queue capacity and any number of events: the event that starts a *)
(* callback is the successor of the previous one, whatever the reader, the  *)
(* callers, an overflow, the end of the process and Close do in between.    *)
THEOREM ClientWireOrder == Spec => WireOrder
<1>1. TypeOK /\ OrderInv /\ [Next]_vars
        => [dispatched' # dispatched => dispatched' = dispatched + 1]_vars
  <2> SUFFICES ASSUME TypeOK, OrderInv, Next, dispatched' # dispatched
               PROVE  dispatched' = dispatched + 1
    OBVIOUS
  <2>1. DispatchHandle
    BY DEF Next, Caller, StartCall, SendCheck, SendWrite, SendFails, SendEmitted, CallCleanup,
       CallerOutcome, CallReceive, CallTimeout, CallbackCall, Emit, EmitBegin,
       EmitFailPending, EmitReport, Closer, CloseFlag, CloseStop, CloseFailPending, CloseKill,
       Owner, OwnerInitialize, OwnerInitialized, OwnerReady, OwnerClose,
       Reader, ReadEvent, ReadResponse, ReaderOverflowClose, ReadEOF, EOFSetError,
       EOFFailPending, EOFEnqueue, Dispatcher, DispatchStop, DispatchTake, CallbackReturn,
       DispatchEmitted, Server, ServerEvent, ServerExit, ServerRespond, WaitLoop, dispVars
  <2>2. ~eventStop /\ dispatcher = "check" /\ held # ErrEvent /\ dispatched' = held
    BY <2>1 DEF DispatchHandle
  <2>3. QED  BY <2>2 DEF OrderInv, HeldNext
<1>2. Spec => []OrderInv
  BY InitOrder, OrderInvStep, ClientTypeCorrect, PTL DEF Spec
<1>3. QED
  BY <1>1, <1>2, ClientTypeCorrect, PTL DEF Spec, WireOrder

=============================================================================
