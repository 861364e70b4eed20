----------------------- MODULE Pi3HatTransport_proofs -----------------------
(* With one blocking client, for any number of calls and events: the two   *)
(* threads hand requests and callbacks to each other safely, events run in *)
(* order, and as long as nobody posts one (Quiet; the robot never does)    *)
(* the transport implements CycleService.                                  *)
EXTENDS Pi3HatTransport, TLAPS

InCall == cpc \in {"locked", "wait", "asleep", "awake"}
Waiting == cpc \in {"wait", "asleep", "awake"}
InCycle == tpc \in {"unlocked", "cycle", "exchange", "store", "finish"}
InCallback == tpc \in {"lock", "done", "notify", "unlock"}
Pending == cpc = "locked" \/ (active /\ tpc \notin {"store", "finish"})

(* Who holds the callback's mutex, and whose callback exists.              *)
ClientInv ==
    /\ live = (IF InCall THEN calls ELSE 0)
    /\ InCall => calls \in Call
    /\ cpc \in {"locked", "wait"} => cbmutex = "client"
    /\ tpc \in {"done", "notify", "unlock"} => cbmutex = "child"
    /\ cpc # "thrown"
    /\ done => cpc \in {"joining", "joined"}

(* A request is pending, or its callback is being run, or the client has   *)
(* been told: whatever events make of the child's turns.                   *)
RequestInv ==
    /\ active => Waiting /\ callback = calls /\ ~cbdone /\ ~InCallback
    /\ tpc \in {"cycle", "exchange", "store", "finish"} => active
    /\ InCallback => Waiting /\ held = calls
    /\ tpc \in {"lock", "done"} => ~cbdone
    /\ tpc \in {"notify", "unlock"} => cbdone
    /\ cpc = "locked" => ~cbdone

Handed == ClientInv /\ RequestInv

(* The queue holds the events posted after the one in hand, in order.      *)
QueueInv ==
    /\ posted = ran + Len(event_queue) + (IF tpc = "run" THEN 1 ELSE 0)
    /\ \A i \in 1..Len(event_queue) : event_queue[i] = posted - Len(event_queue) + i
    /\ tpc = "run" => maybe_callback = ran + 1

(* How the child's position follows the request it serves, while nobody    *)
(* posts.                                                                  *)
ChildInv ==
    /\ active => cycle_data = calls
    /\ InCycle => active /\ view = cycle_data
    /\ tpc \in {"exchange", "store", "finish"} => work = calls
    /\ tpc # "run"

(* What has gone out and come back so far.                                 *)
ResultInv ==
    /\ \A c \in Call :
          exchanged[c] = IF c > calls \/ (c = calls /\ InCall /\ Pending) THEN 0 ELSE 1
    /\ replies = IF InCall /\ (Pending \/ tpc = "store") THEN calls - 1 ELSE calls

(* ... and the client is not kept waiting for nothing.                     *)
Live == Waiting /\ ~cbdone => active \/ tpc \in {"lock", "done"}

Safe == ChildInv /\ ResultInv /\ Live
Quiet == posted = 0
IInv == TypeOK /\ Handed /\ QueueInv /\ (Quiet /\ ~crashed => Safe)

----------------------------------------------------------------------------
(* The initial state is well typed.                                        *)
LEMMA InitType == Init => TypeOK
<1> USE BoundsAssumption DEF TypeOK, Call
<1> SUFFICES ASSUME Init PROVE TypeOK
  OBVIOUS
<1>1. 0 \in 0..MaxCalls /\ 0 \in 0..MaxPosts
  OBVIOUS
<1>2. exchanged \in [Call -> Nat] /\ event_queue \in Seq(1..MaxPosts)
  BY DEF Init
<1>3. QED
  BY <1>1, <1>2 DEF Init

(* Every variable keeps its type.                                          *)
THEOREM TypeCorrect == Spec => []TypeOK
<1> USE BoundsAssumption DEF TypeOK, Call
<1>1. Init => TypeOK
  BY InitType
<1>2. TypeOK /\ [Next]_vars => TypeOK'
  <2> SUFFICES ASSUME TypeOK, [Next]_vars PROVE TypeOK'
    OBVIOUS
  <2>0. 0 \in 0..MaxCalls /\ 1..MaxPosts \subseteq 0..MaxPosts
    OBVIOUS
  <2> USE DEF hatVars, requestVars, childVars, eventVars, callVars, blockVars
  <2>1. CASE InitMembers \/ EnterBlockingCycle \/ Cycle \/ CycleRefused
    <3>1. CASE InitMembers
      BY <3>1 DEF InitMembers
    <3>2. CASE EnterBlockingCycle
      <4>1. calls' \in 0..MaxCalls
        BY <3>2 DEF EnterBlockingCycle, FreshCallback
      <4>2. QED BY <3>2, <4>1 DEF EnterBlockingCycle, FreshCallback
    <3>3. CASE Cycle
      BY <3>3 DEF Cycle, CycleNotifies, WakeChild
    <3>4. CASE CycleRefused
      BY <3>4 DEF CycleRefused
    <3>5. QED BY <2>1, <3>1, <3>2, <3>3, <3>4
  <2>2. CASE WaitSleeps \/ WaitRelocks \/ LeaveBlockingCycle \/ Destroy \/ Join
    <3>1. CASE WaitSleeps \/ WaitRelocks
      BY <3>1 DEF WaitSleeps, WaitRelocks
    <3>2. CASE LeaveBlockingCycle
      BY <3>2 DEF LeaveBlockingCycle
    <3>3. CASE Destroy \/ Join
      BY <3>3, ZenonT(60) DEF Destroy, Join, WakeChild
    <3>4. QED BY <2>2, <3>1, <3>2, <3>3
  <2>3. CASE OpenHat \/ ChildWaits \/ ReadActive \/ TakeFrames
    BY <2>3, ZenonT(60) DEF OpenHat, ChildWaits, ReadActive, TakeFrames
  <2>4. CASE ExchangeFrames
    BY <2>4 DEF ExchangeFrames
  <2>5. CASE StoreReplies
    BY <2>5 DEF StoreReplies
  <2>6. CASE Finish \/ CallbackLocks \/ CallbackDone \/ CallbackNotifies \/ CallbackUnlocks
    <3>1. CASE Finish
      BY <2>0, <3>1, ZenonT(60) DEF Finish, NoLongerActive
    <3>2. CASE CallbackLocks \/ CallbackDone
      BY <3>2 DEF CallbackLocks, CallbackDone, StaysLocked
    <3>3. CASE CallbackNotifies
      BY <3>3 DEF CallbackNotifies
    <3>4. CASE CallbackUnlocks
      BY <2>0, <3>4 DEF CallbackUnlocks
    <3>5. QED BY <2>6, <3>1, <3>2, <3>3, <3>4
  <2>7. CASE PopEvent
    <3>1. CASE event_queue = <<>>
      BY <2>7, <3>1 DEF PopEvent, OldestEvent
    <3>2. CASE event_queue # <<>>
      <4>1. Head(event_queue) \in 1..MaxPosts /\ Tail(event_queue) \in Seq(1..MaxPosts)
        BY <3>2
      <4>2. QED BY <2>0, <2>7, <3>2, <4>1, ZenonT(60) DEF PopEvent, OldestEvent
    <3>3. QED BY <3>1, <3>2
  <2>8. CASE RunEvent
    BY <2>8 DEF RunEvent
  <2>9. CASE Post
    BY <2>9 DEF Post, WakeChild
  <2>10. CASE SpuriousWake
    BY <2>10, ZenonT(60) DEF SpuriousWake
  <2>11. CASE UNCHANGED vars
    BY <2>11 DEF vars
  <2>12. QED
    BY <2>1, <2>2, <2>3, <2>4, <2>5, <2>6, <2>7, <2>8, <2>9, <2>10, <2>11
    DEF Next, Client, Child, Over
<1>3. QED BY <1>1, <1>2, PTL DEF Spec

----------------------------------------------------------------------------
(* Each step keeps the two threads' hold on request and callback, events   *)
(* or not.                                                                 *)
LEMMA HandedStep ==
    ASSUME TypeOK, TypeOK', Handed, [Next]_vars
    PROVE  Handed'
<1> USE BoundsAssumption DEF TypeOK, Call, Handed, ClientInv, RequestInv,
      InCall, Waiting, InCallback,
      hatVars, requestVars, childVars, eventVars, callVars, blockVars
<1>1. CASE InitMembers
  BY <1>1 DEF InitMembers
<1>2. CASE EnterBlockingCycle
  BY <1>2 DEF EnterBlockingCycle, FreshCallback
<1>3. CASE Cycle
  BY <1>3 DEF Cycle, CycleNotifies, WakeChild
<1>4. CASE CycleRefused
  BY <1>4 DEF CycleRefused
<1>5. CASE WaitSleeps \/ WaitRelocks
  BY <1>5, ZenonT(60) DEF WaitSleeps, WaitRelocks
<1>6. CASE LeaveBlockingCycle
  BY <1>6 DEF LeaveBlockingCycle
<1>7. CASE Destroy
  BY <1>7 DEF Destroy, WakeChild
<1>8. CASE Join
  BY <1>8 DEF Join
<1>9. CASE OpenHat \/ ChildWaits
  BY <1>9, ZenonT(60) DEF OpenHat, ChildWaits
<1>10. CASE ReadActive \/ TakeFrames
  BY <1>10, ZenonT(60) DEF ReadActive, TakeFrames
<1>11. CASE ExchangeFrames \/ StoreReplies
  BY <1>11 DEF ExchangeFrames, StoreReplies
<1>12. CASE Finish
  BY <1>12 DEF Finish, NoLongerActive
<1>13. CASE CallbackLocks
  BY <1>13 DEF CallbackLocks
<1>14. CASE CallbackDone
  BY <1>14 DEF CallbackDone, StaysLocked
<1>15. CASE CallbackNotifies
  BY <1>15 DEF CallbackNotifies
<1>16. CASE CallbackUnlocks
  BY <1>16 DEF CallbackUnlocks
<1>17. CASE PopEvent \/ RunEvent
  BY <1>17, ZenonT(60) DEF PopEvent, RunEvent
<1>18. CASE Post
  BY <1>18 DEF Post, WakeChild
<1>19. CASE SpuriousWake
  BY <1>19, ZenonT(60) DEF SpuriousWake
<1>20. CASE UNCHANGED vars
  BY <1>20 DEF vars
<1>21. QED
  BY <1>1, <1>2, <1>3, <1>4, <1>5, <1>6, <1>7, <1>8, <1>9, <1>10, <1>11, <1>12, <1>13, <1>14,
     <1>15, <1>16, <1>17, <1>18, <1>19, <1>20
  DEF Next, Client, Child, Over

(* Only Post, PopEvent and RunEvent touch the queue and the event in hand. *)
LEMMA QueueSteps ==
    ASSUME [Next]_vars
    PROVE  \/ UNCHANGED eventVars /\ (tpc = "run" <=> tpc' = "run")
           \/ PopEvent \/ RunEvent \/ Post
<1> USE DEF hatVars, requestVars, childVars, callVars, blockVars
<1>1. CASE Client \/ SpuriousWake \/ UNCHANGED vars
  BY <1>1 DEF vars, Client, InitMembers, EnterBlockingCycle, Cycle, CycleRefused,
     CycleNotifies, WakeChild, WaitSleeps, WaitRelocks, LeaveBlockingCycle, Destroy, Join,
     SpuriousWake
<1>2. CASE Child
  BY <1>2 DEF Child, OpenHat, ChildWaits, ReadActive, TakeFrames, ExchangeFrames,
     StoreReplies, Finish, CallbackLocks, CallbackDone, CallbackNotifies, CallbackUnlocks
<1>3. QED BY <1>1, <1>2 DEF Next, Over

(* What taking from the front and adding at the end do to a sequence.      *)
LEMMA TakeFront ==
    ASSUME NEW S, NEW q \in Seq(S), q # <<>>
    PROVE  /\ Len(q) \in Nat /\ Len(Tail(q)) \in Nat /\ Len(Tail(q)) = Len(q) - 1
           /\ Head(q) = q[1] /\ Len(q) > 0
           /\ \A i \in 1..Len(Tail(q)) : Tail(q)[i] = q[i + 1]
OBVIOUS

LEMMA AddBack ==
    ASSUME NEW S, NEW q \in Seq(S), NEW e \in S
    PROVE  /\ Len(q) \in Nat /\ Len(Append(q, e)) = Len(q) + 1
           /\ Append(q, e)[Len(q) + 1] = e
           /\ \A i \in 1..Len(q) : Append(q, e)[i] = q[i]
OBVIOUS

(* Posting adds at the end, the child takes from the front.                *)
LEMMA QueueStep ==
    ASSUME TypeOK, TypeOK', QueueInv, [Next]_vars
    PROVE  QueueInv'
<1> USE DEF TypeOK, QueueInv
<1>1. CASE UNCHANGED eventVars /\ (tpc = "run" <=> tpc' = "run")
  BY <1>1 DEF eventVars
<1>2. CASE PopEvent
  <2>1. CASE event_queue = <<>>
    BY <1>2, <2>1 DEF PopEvent
  <2>2. CASE event_queue # <<>>
    <3> DEFINE queue == Tail(event_queue)
    <3>1. /\ Len(event_queue) \in Nat /\ Len(event_queue) > 0 /\ Len(queue) \in Nat
          /\ Len(queue) = Len(event_queue) - 1
          /\ \A i \in 1..Len(queue) : queue[i] = event_queue[i + 1]
          /\ Head(event_queue) = event_queue[1]
      <4>1. event_queue \in Seq(1..MaxPosts)
        OBVIOUS
      <4> HIDE DEF TypeOK, QueueInv
      <4>2. QED BY ONLY <4>1, <2>2, TakeFront
    <3>2. /\ event_queue' = queue /\ tpc = "events" /\ tpc' = "run"
          /\ maybe_callback' = Head(event_queue) /\ UNCHANGED <<posted, ran>>
      BY <1>2, <2>2 DEF PopEvent, OldestEvent
    <3>p. posted \in Nat /\ ran \in Nat
      BY BoundsAssumption DEF TypeOK
    <3>q. posted = ran + Len(event_queue)
      BY <3>2
    <3> HIDE DEF queue, TypeOK
    <3>3. \A i \in 1..Len(queue) : queue[i] = posted - Len(queue) + i
      <4> TAKE i \in 1..Len(queue)
      <4>1. i + 1 \in 1..Len(event_queue)
        BY <3>1
      <4>2. event_queue[i + 1] = posted - Len(event_queue) + (i + 1)
        BY <4>1
      <4>3. QED BY <3>1, <3>p, <4>2
    <3>4. posted' = ran' + Len(event_queue') + 1 /\ maybe_callback' = ran' + 1
      <4>1. event_queue[1] = posted - Len(event_queue) + 1
        BY <3>1
      <4>2. QED BY <3>1, <3>2, <3>p, <3>q, <4>1
    <3>5. QED BY <3>1, <3>2, <3>3, <3>4
  <2>3. QED BY <2>1, <2>2
<1>3. CASE RunEvent
  BY <1>3 DEF RunEvent
<1>4. CASE Post
  <2>1. /\ Len(event_queue') = Len(event_queue) + 1
        /\ \A i \in 1..Len(event_queue) : event_queue'[i] = event_queue[i]
        /\ event_queue'[Len(event_queue) + 1] = posted'
        /\ posted' = posted + 1 /\ UNCHANGED <<ran, maybe_callback>>
        /\ (tpc = "run" <=> tpc' = "run")
    <3>1. posted' \in 1..MaxPosts
      BY <1>4, BoundsAssumption DEF Post
    <3>2. event_queue' = Append(event_queue, posted') /\ event_queue \in Seq(1..MaxPosts)
      BY <1>4 DEF Post
    <3>3. /\ Len(event_queue') = Len(event_queue) + 1
          /\ \A i \in 1..Len(event_queue) : event_queue'[i] = event_queue[i]
          /\ event_queue'[Len(event_queue) + 1] = posted'
      BY ONLY <3>1, <3>2, AddBack
    <3>4. QED BY <1>4, <3>3 DEF Post, WakeChild
  <2>2. \A i \in 1..Len(event_queue') :
          event_queue'[i] = posted' - Len(event_queue') + i
    <3>1. posted \in Nat /\ Len(event_queue) \in Nat
      BY BoundsAssumption
    <3> HIDE DEF TypeOK
    <3> TAKE i \in 1..Len(event_queue')
    <3>2. CASE i \in 1..Len(event_queue)
      BY <2>1, <3>1, <3>2
    <3>3. CASE i = Len(event_queue) + 1
      BY <2>1, <3>1, <3>3
    <3>4. QED BY <2>1, <3>1, <3>2, <3>3, SMTT(30)
  <2>3. posted' = ran' + Len(event_queue') + (IF tpc' = "run" THEN 1 ELSE 0)
    <3>1. posted \in Nat /\ ran \in Nat /\ Len(event_queue) \in Nat
      BY BoundsAssumption
    <3> HIDE DEF TypeOK
    <3>2. QED BY <2>1, <3>1, SMTT(30)
  <2>4. QED BY <2>1, <2>2, <2>3
<1>5. QED BY <1>1, <1>2, <1>3, <1>4, QueueSteps

(* Each step that brings what a sleeper waits for wakes it as well.         *)
LEMMA WakeupStep ==
    ASSUME TypeOK, Handed, NoLostWakeup, [Next]_vars
    PROVE  NoLostWakeup'
<1> USE DEF NoLostWakeup, hatVars, requestVars, childVars, eventVars, callVars, blockVars
<1>1. CASE InitMembers \/ CycleRefused \/ LeaveBlockingCycle \/ Join
  BY <1>1 DEF InitMembers, CycleRefused, LeaveBlockingCycle, Join
<1>2. CASE EnterBlockingCycle
  BY <1>2 DEF EnterBlockingCycle, FreshCallback
<1>3. CASE Cycle
  BY <1>3 DEF Cycle, CycleNotifies, WakeChild
<1>4. CASE WaitSleeps \/ WaitRelocks
  BY <1>4 DEF WaitSleeps, WaitRelocks
<1>5. CASE Destroy
  BY <1>5 DEF Destroy, WakeChild
<1>6. CASE OpenHat \/ ReadActive \/ TakeFrames
  <2>1. tpc # "asleep" /\ tpc' # "asleep" /\ UNCHANGED <<cpc, cbdone>>
    BY <1>6, ZenonT(60) DEF OpenHat, ReadActive, TakeFrames
  <2>2. tpc # "notify" BY <1>6 DEF OpenHat, ReadActive, TakeFrames
  <2> QED BY <2>1, <2>2
<1>7. CASE ChildWaits
  BY <1>7 DEF ChildWaits, Awaited
<1>8. CASE ExchangeFrames \/ StoreReplies
  BY <1>8 DEF ExchangeFrames, StoreReplies
<1>9. CASE Finish
  BY <1>9 DEF Finish, NoLongerActive
<1>10. CASE CallbackLocks
  BY <1>10 DEF CallbackLocks
<1>11. CASE CallbackDone
  BY <1>11 DEF CallbackDone
<1>12. CASE CallbackNotifies
  BY <1>12 DEF CallbackNotifies
<1>13. CASE CallbackUnlocks
  BY <1>13 DEF CallbackUnlocks, Handed, RequestInv
<1>14. CASE PopEvent
  BY <1>14 DEF PopEvent
<1>15. CASE RunEvent
  BY <1>15 DEF RunEvent
<1>16. CASE Post
  BY <1>16 DEF Post, WakeChild
<1>17. CASE SpuriousWake
  BY <1>17 DEF SpuriousWake
<1>18. CASE UNCHANGED vars
  BY <1>18 DEF vars
<1>19. QED
  BY <1>1, <1>2, <1>3, <1>4, <1>5, <1>6, <1>7, <1>8, <1>9, <1>10, <1>11, <1>12, <1>13, <1>14,
     <1>15, <1>16, <1>17, <1>18
  DEF Next, Client, Child, Over

(* Nobody unposts an event, and only posting fills the queue.              *)
LEMMA QuietStep ==
    ASSUME TypeOK, TypeOK', QueueInv, QueueInv', [Next]_vars, Quiet'
    PROVE  Quiet /\ event_queue = <<>> /\ event_queue' = <<>>
<1>1. UNCHANGED posted
  BY QueueSteps DEF eventVars, PopEvent, RunEvent, Post, Quiet, TypeOK
<1>2. Len(event_queue) = 0 /\ Len(event_queue)' = 0
  <2>1. /\ posted \in Nat /\ ran \in Nat /\ Len(event_queue) \in Nat
        /\ ran' \in Nat /\ Len(event_queue') \in Nat
    <3>1. event_queue \in Seq(1..MaxPosts) /\ event_queue' \in Seq(1..MaxPosts)
      BY DEF TypeOK
    <3>2. posted \in 0..MaxPosts /\ ran \in 0..MaxPosts /\ ran' \in 0..MaxPosts
      BY DEF TypeOK
    <3>3. QED BY ONLY <3>1, <3>2, BoundsAssumption
  <2>2. posted = 0 /\ posted' = 0
    BY <1>1 DEF Quiet
  <2>3. /\ \/ posted = ran + Len(event_queue) \/ posted = ran + Len(event_queue) + 1
        /\ \/ posted' = ran' + Len(event_queue')
           \/ posted' = ran' + Len(event_queue') + 1
    <3>1. ran + Len(event_queue) + 0 = ran + Len(event_queue)
      BY <2>1
    <3>2. ran' + Len(event_queue') + 0 = ran' + Len(event_queue')
      BY <2>1
    <3>3. QED BY <3>1, <3>2 DEF QueueInv
  <2>4. Len(event_queue) = 0 /\ Len(event_queue') = 0
    BY ONLY <2>1, <2>2, <2>3
  <2>5. QED BY <2>4
<1>3. QED BY <1>1, <1>2 DEF TypeOK, Quiet

(* Each step of the client, of the child and of chance keeps the invariant *)
(* while nobody posts.                                                     *)
LEMMA SafeStep ==
    ASSUME Quiet', event_queue = <<>>, TypeOK, TypeOK', Handed, Handed', Safe, ~crashed,
           ~crashed', Next
    PROVE  Safe'
<1> USE BoundsAssumption DEF TypeOK, Call, Handed, Safe, ClientInv, RequestInv, ChildInv,
      ResultInv, Live,
      InCall, Waiting, InCycle, InCallback, Pending,
      hatVars, requestVars, childVars, eventVars, callVars, blockVars
<1>1. CASE InitMembers
  BY <1>1 DEF InitMembers
<1>2. CASE EnterBlockingCycle
  BY <1>2 DEF EnterBlockingCycle, FreshCallback
<1>3. CASE Cycle
  BY <1>3 DEF Cycle, CycleNotifies, WakeChild
<1>4. CASE CycleRefused
  BY <1>4 DEF CycleRefused
<1>5. CASE WaitSleeps
  BY <1>5 DEF WaitSleeps
<1>6. CASE WaitRelocks
  BY <1>6 DEF WaitRelocks
<1>7. CASE LeaveBlockingCycle
  BY <1>7 DEF LeaveBlockingCycle
<1>8. CASE Destroy
  BY <1>8 DEF Destroy, WakeChild
<1>9. CASE Join
  BY <1>9 DEF Join
<1>10. CASE OpenHat
  BY <1>10 DEF OpenHat
<1>11. CASE ChildWaits
  BY <1>11 DEF ChildWaits, Awaited
<1>12. CASE ReadActive
  BY <1>12 DEF ReadActive
<1>13. CASE TakeFrames
  BY <1>13 DEF TakeFrames
<1>14. CASE ExchangeFrames
  <2>1. work = calls /\ calls \in Call /\ hat = "open" /\ exchanged[calls] = 0
    BY <1>14 DEF ExchangeFrames
  <2>2. \A c \in Call : exchanged'[c] = IF c = calls THEN 1 ELSE exchanged[c]
    BY <1>14, <2>1 DEF ExchangeFrames
  <2>3. UNCHANGED <<cpc, requestVars, childVars, blockVars, calls, replies>> /\ tpc' = "store"
    BY <1>14 DEF ExchangeFrames
  <2>4. \A c \in Call :
          exchanged'[c] = IF c > calls' \/ (c = calls' /\ InCall' /\ Pending') THEN 0 ELSE 1
    BY <1>14, <2>1, <2>2, <2>3 DEF ExchangeFrames
  <2>5. QED
    BY <1>14, <2>1, <2>3, <2>4 DEF ExchangeFrames
<1>15. CASE StoreReplies
  BY <1>15 DEF StoreReplies
<1>16. CASE Finish
  BY <1>16 DEF Finish, NoLongerActive
<1>17. CASE CallbackLocks
  BY <1>17 DEF CallbackLocks
<1>18. CASE CallbackDone
  BY <1>18 DEF CallbackDone, StaysLocked
<1>19. CASE CallbackNotifies
  BY <1>19 DEF CallbackNotifies
<1>20. CASE CallbackUnlocks
  BY <1>20 DEF CallbackUnlocks
<1>21. CASE PopEvent
  BY <1>21 DEF PopEvent, OldestEvent
<1>22. CASE RunEvent
  BY <1>22 DEF RunEvent
<1>23. CASE SpuriousWake
  BY <1>23, ZenonT(60) DEF SpuriousWake
<1>24. CASE Post
  BY <1>24 DEF Post, Quiet
<1>25. CASE UNCHANGED vars
  BY <1>25 DEF vars
<1>26. QED
  BY <1>1, <1>2, <1>3, <1>4, <1>5, <1>6, <1>7, <1>8, <1>9, <1>10, <1>11, <1>12, <1>13, <1>14, <1>15, <1>16, <1>17, <1>18, <1>19, <1>20, <1>21, <1>22, <1>23, <1>24, <1>25
  DEF Next, Client, Child, Over

(* The strengthened invariant of client, child and events                  *)
(* (pi3hat_moteus_transport.h:89-162).                                     *)
THEOREM Invariance == Spec => []IInv
<1>1. Init => IInv
  <2> SUFFICES ASSUME Init PROVE IInv
    OBVIOUS
  <2>1. TypeOK
    BY InitType
  <2>2. Handed /\ Safe
    BY BoundsAssumption DEF Init, Handed, ClientInv, RequestInv, Safe, ChildInv, ResultInv,
       Live, InCall, Waiting, InCycle, InCallback, Pending, Call
  <2>3. QueueInv
    BY DEF Init, QueueInv
  <2>4. QED BY <2>1, <2>2, <2>3 DEF IInv
<1>2. IInv /\ TypeOK' /\ [Next]_vars => IInv'
  <2> SUFFICES ASSUME IInv, TypeOK', [Next]_vars PROVE IInv'
    OBVIOUS
  <2>1. Handed' /\ QueueInv'
    BY HandedStep, QueueStep DEF IInv
  <2> SUFFICES ASSUME Quiet', ~crashed' PROVE Safe'
    BY <2>1 DEF IInv
  <2>2. Quiet /\ event_queue = <<>> /\ event_queue' = <<>>
    BY <2>1, QuietStep DEF IInv
  <2>3. ~crashed
    BY DEF IInv, TypeOK, Next, Over, vars, hatVars
  <2>4. CASE Next
    BY <2>1, <2>2, <2>3, <2>4, SafeStep DEF IInv
  <2>5. CASE UNCHANGED vars
    BY <2>2, <2>3, <2>5 DEF IInv, Safe, vars, ChildInv, ResultInv, Live, InCall, Waiting,
       InCycle, Pending, hatVars, requestVars, childVars, eventVars, callVars, blockVars
  <2>6. QED BY <2>4, <2>5
<1>3. QED BY <1>1, <1>2, TypeCorrect, PTL DEF Spec

(* The client is never refused, however many events keep the child awake   *)
(* (pi3hat_moteus_transport.h:103-107, 145-150).                           *)
THEOREM NeverRefusedCorrect == Spec => []NeverRefused
<1>1. IInv => NeverRefused
  BY DEF IInv, Handed, ClientInv, NeverRefused
<1>2. QED BY <1>1, Invariance, PTL

(* The callback the child runs is alive until the child has let go of it   *)
(* (moteus_transport.h:70-83).                                             *)
THEOREM CallbackAliveCorrect == Spec => []CallbackAlive
<1>1. IInv => CallbackAlive
  BY DEF IInv, Handed, ClientInv, RequestInv, InCall, Waiting, InCallback, CallbackAlive
<1>2. QED BY <1>1, Invariance, PTL

(* Neither thread sleeps while what it waits for is there: no wake-up is   *)
(* lost (pi3hat_moteus_transport.h:73-80, 89-94, 117-119, 131-138;         *)
(* moteus_transport.h:70-83).                                              *)
THEOREM NobodyOversleeps == Spec => []NoLostWakeup
<1>1. Init => NoLostWakeup
  BY DEF Init, NoLostWakeup
<1>2. IInv /\ NoLostWakeup /\ [Next]_vars => NoLostWakeup'
  BY WakeupStep DEF IInv
<1>3. QED BY <1>1, <1>2, Invariance, PTL DEF Spec

(* Events run once each, in the order they were posted                     *)
(* (pi3hat_moteus_transport.h:89-94, 153-162).                             *)
THEOREM EventsRunInOrder == Spec => EventsInOrder
<1>1. IInv /\ [Next]_vars => (ran' # ran => ran' = ran + 1)
  BY QueueSteps DEF IInv, QueueInv, eventVars, PopEvent, RunEvent, Post
<1>2. QED BY <1>1, Invariance, PTL DEF Spec, EventsInOrder

----------------------------------------------------------------------------
(* What the two threads do while nobody posts is a step of the abstract    *)
(* service: each call's frames go out once, and the call returns with      *)
(* their replies.                                                          *)
LEMMA InitService == Init => Service!Init
BY DEF Init, Service!Init, Phase, Call

LEMMA ServiceStep ==
    ASSUME IInv, IInv', [Next]_vars, Quiet'
    PROVE  [Service!Next]_(Service!vars)
<1> USE DEF hatVars, requestVars, childVars, eventVars, callVars, blockVars
<1>0. TypeOK /\ Handed /\ (~crashed => Safe)
  BY QuietStep DEF IInv
<1>1. CASE UNCHANGED <<live, callVars>>
  BY <1>1 DEF Service!vars, Phase
<1>2. ASSUME ~crashed, EnterBlockingCycle PROVE Service!Call
  BY <1>0, <1>2, BoundsAssumption DEF TypeOK, Safe, Handed, ClientInv, RequestInv, ResultInv, InCall, Call,
     EnterBlockingCycle, FreshCallback, Service!Call, Phase
<1>3. ASSUME ~crashed, ExchangeFrames, hat = "open" PROVE Service!Exchange
  <2>1. /\ work = calls /\ calls \in Call /\ live = calls /\ calls # 0
        /\ exchanged[calls] = 0 /\ replies = calls - 1
    BY <1>0, <1>3, BoundsAssumption DEF ExchangeFrames, TypeOK, Safe, Handed, ClientInv, RequestInv, ChildInv,
       ResultInv, InCall, Waiting, InCycle, Pending, Call
  <2>2. exchanged' = [exchanged EXCEPT ![calls] = @ + 1]
    BY <1>3, <2>1 DEF ExchangeFrames
  <2>3. exchanged'[calls] = 1 /\ UNCHANGED <<live, calls, replies>>
    BY <1>0, <1>3, <2>1, <2>2 DEF ExchangeFrames, TypeOK
  <2>4. Phase = "called" /\ Phase' = "exchanged"
    BY <2>1, <2>3, BoundsAssumption DEF Phase, Call
  <2>5. QED BY <2>2, <2>3, <2>4 DEF Service!Exchange
<1>4. ASSUME ~crashed, StoreReplies PROVE Service!Deliver
  BY <1>0, <1>4, BoundsAssumption DEF StoreReplies, TypeOK, Safe, Handed, ClientInv, RequestInv, ChildInv,
     ResultInv, InCall, Waiting, InCycle, Pending, Call, Phase, Service!Deliver
<1>5. ASSUME ~crashed, LeaveBlockingCycle PROVE Service!Return
  BY <1>0, <1>5, BoundsAssumption DEF LeaveBlockingCycle, TypeOK, Safe, Handed, ClientInv, RequestInv, ChildInv,
     ResultInv, InCall, Waiting, InCycle, InCallback, Pending, Call, Phase, Service!Return
<1>6. ~crashed => ~CycleRefused
  BY <1>0 DEF Handed, RequestInv, CycleRefused, Waiting
<1>7. ASSUME ~crashed, ExchangeFrames, hat # "open" PROVE UNCHANGED <<live, callVars>>
  BY <1>7 DEF ExchangeFrames
<1>8. \/ UNCHANGED <<live, callVars>>
      \/ ~crashed /\ (EnterBlockingCycle \/ ExchangeFrames \/ StoreReplies
                        \/ LeaveBlockingCycle \/ CycleRefused)
  BY DEF vars, Next, Client, Child, Over, InitMembers, Cycle, WaitSleeps, WaitRelocks,
     Destroy, Join, OpenHat, ChildWaits, ReadActive, TakeFrames, Finish, CallbackLocks,
     CallbackDone, CallbackNotifies, CallbackUnlocks, PopEvent, RunEvent, Post, SpuriousWake
<1>9. QED
  BY <1>1, <1>2, <1>3, <1>4, <1>5, <1>6, <1>7, <1>8 DEF Service!Next

(* For any number of calls and of events posted later, the transport is    *)
(* the service until the first event.                                      *)
THEOREM UntilPosted == Spec => ServiceUntilPosted
<1>1. IInv /\ IInv' /\ [Next]_vars => (posted' = 0 => [Service!Next]_(Service!vars))
  BY ServiceStep DEF Quiet
<1>2. QED
  BY <1>1, InitService, Invariance, TypeCorrect, PTL DEF Spec, ServiceUntilPosted

(* A program that posts no events has the service for good.                *)
THEOREM Implements ==
    ASSUME MaxPosts = 0
    PROVE  Spec => ImplementsService
<1>1. TypeOK' => Quiet'
  BY DEF TypeOK, Quiet
<1>2. IInv /\ IInv' /\ [Next]_vars => [Service!Next]_(Service!vars)
  BY <1>1, ServiceStep DEF IInv
<1>3. QED
  BY <1>2, InitService, Invariance, TypeCorrect, PTL DEF Spec, Service!Spec, ImplementsService
=============================================================================
