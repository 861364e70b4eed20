-------------------------- MODULE Pi3HatTransport --------------------------
(***************************************************************************)
(* Pi3HatMoteusTransport: the client thread that constructs it, makes      *)
(* blocking calls on it and destroys it, the child thread that talks to    *)
(* the hat, and threads that Post events to it.                            *)
(*                                                                         *)
(* A section of code under mutex_ is one step.  A condition variable wakes *)
(* its waiter on a notification and may wake it spuriously.  The child     *)
(* reads active_ and cycle_data_ outside the mutex: it may then see        *)
(* cycle_data_ as it was when it last held the mutex (view), which makes   *)
(* a difference only when another thread has written it since.             *)
(***************************************************************************)
EXTENDS Naturals, Sequences

CONSTANTS
    MaxCalls,   \* bound: blocking calls made before the transport is destroyed
    MaxPosts    \* bound: events posted; 0 for a program that posts none

ASSUME BoundsAssumption == MaxCalls \in Nat /\ MaxPosts \in Nat

Call == 1..MaxCalls

VARIABLES
    cpc,          \* where the client stands
    tpc,          \* where the child thread stands
    hat,          \* pi3hat_: raw memory, null or an open hat
    active, done, \* active_ and done_
    cycle_data,   \* the call cycle_data_ describes; 0 before the first
    callback,     \* the call whose completion callback it holds; 0 when empty
    view,         \* cycle_data_ as the child saw it when it last held the mutex
    work,         \* the call whose frames it took
    held,         \* the callback the child has taken to run
    event_queue,  \* events waiting
    maybe_callback, \* the event popped to be run
    posted, ran,  \* events posted, and the last one run
    calls,        \* calls made so far
    exchanged,    \* how often the frames of each call went out on the bus
    replies,      \* the call whose replies the client's vector holds
    live,         \* the call whose BlockingCallback exists; 0 when none does
    cbmutex, cbdone, \* BlockingCallback::mutex_ and done_
    crashed       \* a null or wild pi3hat_ was used

hatVars == <<hat, crashed>>
requestVars == <<active, done, cycle_data, callback>>
childVars == <<view, work, held>>
eventVars == <<event_queue, maybe_callback, posted, ran>>
callVars == <<calls, exchanged, replies>>
blockVars == <<live, cbmutex, cbdone>>
vars == <<cpc, tpc, hatVars, requestVars, childVars, eventVars, callVars, blockVars>>

(* The child thread runs from the initialiser of thread_ on, when pi3hat_  *)
(* is still raw memory.                                                    *)
Init ==
    /\ cpc = "members" /\ tpc = "start"
    /\ hat = "raw" /\ crashed = FALSE
    /\ active = FALSE /\ done = FALSE /\ cycle_data = 0 /\ callback = 0
    /\ view = 0 /\ work = 0 /\ held = 0
    /\ event_queue = <<>> /\ maybe_callback = 0 /\ posted = 0 /\ ran = 0
    /\ calls = 0 /\ exchanged = [c \in Call |-> 0] /\ replies = 0
    /\ live = 0 /\ cbmutex = "free" /\ cbdone = FALSE

----------------------------------------------------------------------------
(* The client: constructor, BlockingCycle, destructor. *)

WakeChild == tpc' = IF tpc = "asleep" THEN "test" ELSE tpc

(* pi3hat_ is initialised to null, whatever the child made of it meanwhile. *)
InitMembers ==
    /\ cpc = "members"
    /\ cpc' = "ready"
    /\ hat' = "null"
    /\ UNCHANGED <<tpc, crashed, requestVars, childVars, eventVars, callVars, blockVars>>

\* Variant: a callback object is used for a second call.
ReusedCallback == UNCHANGED cbdone
FreshCallback == cbdone' = FALSE

(* BlockingCallback cbk: it is born with its mutex locked. *)
EnterBlockingCycle ==
    /\ cpc = "ready" /\ calls < MaxCalls
    /\ cpc' = "locked"
    /\ calls' = calls + 1
    /\ live' = calls' /\ cbmutex' = "client" /\ FreshCallback
    /\ UNCHANGED <<tpc, hatVars, requestVars, childVars, eventVars, exchanged, replies>>

\* Variant: the child is not notified.
CycleSilently == UNCHANGED tpc
CycleNotifies == WakeChild

Cycle ==
    /\ cpc = "locked"
    /\ ~active
    /\ cycle_data' = calls /\ callback' = calls
    /\ active' = TRUE
    /\ CycleNotifies
    /\ cpc' = "wait"
    /\ UNCHANGED <<done, hatVars, childVars, eventVars, callVars, blockVars>>

CycleRefused ==
    /\ cpc = "locked"
    /\ active
    /\ cpc' = "thrown"
    /\ live' = 0 /\ cbmutex' = "free"
    /\ UNCHANGED <<tpc, cbdone, hatVars, requestVars, childVars, eventVars, callVars>>

(* cv_.wait on the callback's own mutex. *)
WaitSleeps ==
    /\ cpc = "wait" /\ ~cbdone
    /\ cpc' = "asleep"
    /\ cbmutex' = "free"
    /\ UNCHANGED <<tpc, live, cbdone, hatVars, requestVars, childVars, eventVars, callVars>>

WaitRelocks ==
    /\ cpc = "awake" /\ cbmutex = "free"
    /\ cpc' = "wait"
    /\ cbmutex' = "client"
    /\ UNCHANGED <<tpc, live, cbdone, hatVars, requestVars, childVars, eventVars, callVars>>

(* BlockingCycle returns and destroys cbk. *)
LeaveBlockingCycle ==
    /\ cpc = "wait" /\ cbdone
    /\ cpc' = "ready"
    /\ live' = 0 /\ cbmutex' = "free"
    /\ UNCHANGED <<tpc, cbdone, hatVars, requestVars, childVars, eventVars, callVars>>

Destroy ==
    /\ cpc = "ready" /\ calls = MaxCalls
    /\ cpc' = "joining"
    /\ done' = TRUE
    /\ WakeChild
    /\ UNCHANGED <<active, cycle_data, callback, hatVars, childVars, eventVars, callVars, blockVars>>

Join ==
    /\ cpc = "joining" /\ tpc = "exited"
    /\ cpc' = "joined"
    /\ UNCHANGED <<tpc, hatVars, requestVars, childVars, eventVars, callVars, blockVars>>

Client ==
    \/ InitMembers \/ EnterBlockingCycle \/ Cycle \/ CycleRefused
    \/ WaitSleeps \/ WaitRelocks \/ LeaveBlockingCycle \/ Destroy \/ Join

----------------------------------------------------------------------------
(* The child thread. *)

(* reset() on raw memory may free a wild pointer. *)
OpenHat ==
    /\ tpc = "start"
    /\ tpc' = "test"
    /\ hat' = "open"
    /\ crashed' \in IF hat = "raw" THEN BOOLEAN ELSE {FALSE}
    /\ UNCHANGED <<cpc, requestVars, childVars, eventVars, callVars, blockVars>>

(* The wait on condition_, and the test of done_ under the same lock. *)
\* Variants: the wait overlooks the destructor; it overlooks events.
AwaitedNotDone == active \/ event_queue # <<>>
AwaitedNotEvents == done \/ active
Awaited == done \/ active \/ event_queue # <<>>

ChildWaits ==
    /\ tpc = "test"
    /\ tpc' = IF ~Awaited THEN "asleep" ELSE IF done THEN "exited" ELSE "unlocked"
    /\ view' = cycle_data
    /\ UNCHANGED <<cpc, work, held, hatVars, requestVars, eventVars, callVars, blockVars>>

ReadActive ==
    /\ tpc = "unlocked"
    /\ tpc' = IF active THEN "cycle" ELSE "events"
    /\ UNCHANGED <<cpc, hatVars, requestVars, childVars, eventVars, callVars, blockVars>>

(* CHILD_Cycle: take the frames, exchange them, store the replies. *)
TakeFrames ==
    /\ tpc = "cycle"
    /\ tpc' = "exchange"
    /\ work' \in {cycle_data, view}
    /\ UNCHANGED <<cpc, view, held, hatVars, requestVars, eventVars, callVars, blockVars>>

ExchangeFrames ==
    /\ tpc = "exchange"
    /\ tpc' = "store"
    /\ crashed' = (hat # "open")
    /\ exchanged' = IF work \in Call /\ hat = "open"
                    THEN [exchanged EXCEPT ![work] = @ + 1] ELSE exchanged
    /\ UNCHANGED <<cpc, hat, calls, replies, requestVars, childVars, eventVars, blockVars>>

StoreReplies ==
    /\ tpc = "store"
    /\ tpc' = "finish"
    /\ replies' = IF work = calls THEN work ELSE replies
    /\ UNCHANGED <<cpc, hatVars, requestVars, childVars, eventVars, calls, exchanged, blockVars>>

NoLongerActive == active' = FALSE

Finish ==
    /\ tpc = "finish"
    /\ tpc' = "lock"
    /\ NoLongerActive
    /\ held' = callback /\ callback' = 0
    /\ UNCHANGED <<cpc, done, cycle_data, view, work, hatVars, eventVars, callVars, blockVars>>

(* The completion callback, from its lock to its unlock. *)
CallbackLocks ==
    /\ tpc = "lock" /\ cbmutex = "free"
    /\ tpc' = "done"
    /\ cbmutex' = "child"
    /\ UNCHANGED <<cpc, live, cbdone, hatVars, requestVars, childVars, eventVars, callVars>>

\* Variant: the lock is released before the notification.
UnlocksEarly == cbmutex' = "free"
StaysLocked == UNCHANGED cbmutex

CallbackDone ==
    /\ tpc = "done"
    /\ tpc' = "notify"
    /\ cbdone' = TRUE
    /\ StaysLocked
    /\ UNCHANGED <<cpc, live, hatVars, requestVars, childVars, eventVars, callVars>>

CallbackNotifies ==
    /\ tpc = "notify"
    /\ tpc' = "unlock"
    /\ cpc' = IF cpc = "asleep" THEN "awake" ELSE cpc
    /\ UNCHANGED <<hatVars, requestVars, childVars, eventVars, callVars, blockVars>>

CallbackUnlocks ==
    /\ tpc = "unlock"
    /\ tpc' = "events"
    /\ held' = 0
    /\ cbmutex' = "free"
    /\ UNCHANGED <<cpc, view, work, live, cbdone, hatVars, requestVars, eventVars, callVars>>

\* Variant: the newest event is run, the oldest dropped.
NewestEvent == event_queue[Len(event_queue)]
OldestEvent == Head(event_queue)

(* At most one event per turn; popped under the lock, run outside it. *)
PopEvent ==
    /\ tpc = "events"
    /\ view' = cycle_data
    /\ IF event_queue = <<>>
       THEN tpc' = "test" /\ UNCHANGED <<event_queue, maybe_callback>>
       ELSE /\ tpc' = "run"
            /\ maybe_callback' = OldestEvent
            /\ event_queue' = Tail(event_queue)
    /\ UNCHANGED <<cpc, work, held, posted, ran, hatVars, requestVars, callVars, blockVars>>

RunEvent ==
    /\ tpc = "run"
    /\ tpc' = "test"
    /\ ran' = maybe_callback
    /\ UNCHANGED <<cpc, event_queue, maybe_callback, posted, hatVars, requestVars, childVars, callVars, blockVars>>

Child ==
    \/ OpenHat \/ ChildWaits \/ ReadActive \/ TakeFrames \/ ExchangeFrames \/ StoreReplies
    \/ Finish \/ CallbackLocks \/ CallbackDone \/ CallbackNotifies \/ CallbackUnlocks
    \/ PopEvent \/ RunEvent

----------------------------------------------------------------------------
(* Another thread posts events, while the transport exists. *)
Post ==
    /\ posted < MaxPosts
    /\ cpc \notin {"members", "joining", "joined"}
    /\ posted' = posted + 1
    /\ event_queue' = Append(event_queue, posted')
    /\ WakeChild
    /\ UNCHANGED <<cpc, maybe_callback, ran, hatVars, requestVars, childVars, callVars, blockVars>>

SpuriousWake ==
    \/ /\ tpc = "asleep" /\ tpc' = "test"
       /\ UNCHANGED <<cpc, hatVars, requestVars, childVars, eventVars, callVars, blockVars>>
    \/ /\ cpc = "asleep" /\ cpc' = "awake"
       /\ UNCHANGED <<tpc, hatVars, requestVars, childVars, eventVars, callVars, blockVars>>

Over ==
    /\ crashed \/ cpc = "joined"
    /\ UNCHANGED vars

Next == (~crashed /\ (Client \/ Child \/ Post \/ SpuriousWake)) \/ Over

Spec == Init /\ [][Next]_vars

(* Both threads are scheduled, a mutex that keeps being freed is got in the *)
(* end, and wake-ups that nobody sent are not relied on.  The client need  *)
(* not make another call or destroy the transport.                         *)
ClientProgress == Client /\ ~EnterBlockingCycle /\ ~Destroy

FairSpec ==
    /\ Spec
    /\ WF_vars(~crashed /\ ClientProgress) /\ WF_vars(~crashed /\ Child)
    /\ SF_vars(~crashed /\ CallbackLocks) /\ SF_vars(~crashed /\ WaitRelocks)

----------------------------------------------------------------------------
(* Correctness. *)

TypeOK ==
    /\ cpc \in {"members", "ready", "locked", "wait", "asleep", "awake", "thrown",
                "joining", "joined"}
    /\ tpc \in {"start", "test", "asleep", "unlocked", "cycle", "exchange", "store", "finish",
                "lock", "done", "notify", "unlock", "events", "run", "exited"}
    /\ hat \in {"raw", "null", "open"}
    /\ active \in BOOLEAN /\ done \in BOOLEAN /\ crashed \in BOOLEAN /\ cbdone \in BOOLEAN
    /\ cycle_data \in 0..MaxCalls /\ callback \in 0..MaxCalls
    /\ view \in 0..MaxCalls /\ work \in 0..MaxCalls /\ held \in 0..MaxCalls
    /\ calls \in 0..MaxCalls /\ replies \in 0..MaxCalls /\ live \in 0..MaxCalls
    /\ event_queue \in Seq(1..MaxPosts) /\ maybe_callback \in 0..MaxPosts
    /\ posted \in 0..MaxPosts /\ ran \in 0..MaxPosts
    /\ exchanged \in [Call -> Nat]
    /\ cbmutex \in {"free", "client", "child"}

(* The child never touches a BlockingCallback that BlockingCycle has       *)
(* destroyed: it notifies under the lock that the waiter needs to return   *)
(* (moteus_transport.h:70-83).                                             *)
CallbackAlive == tpc \in {"lock", "done", "notify", "unlock"} => live = held

(* A client that waits for one call before the next is never refused:      *)
(* active_ is cleared before the callback runs (pi3hat_moteus_transport.h: *)
(* 103-107, 145-150).                                                      *)
NeverRefused == cpc # "thrown"

(* Nobody sleeps through what it waits for: the child is awake when a       *)
(* request, an event or the destructor is there, and the client when its   *)
(* call is done, or is about to be told (pi3hat_moteus_transport.h:73-80,  *)
(* 89-94, 117-119, 131-138; moteus_transport.h:70-83).                     *)
NoLostWakeup ==
    /\ tpc = "asleep" => ~active /\ ~done /\ event_queue = <<>>
    /\ cpc = "asleep" /\ cbdone => tpc = "notify"

(* Every blocking call returns, unless the program dies first: no wake-up  *)
(* is lost between the two threads (pi3hat_moteus_transport.h:117-119,     *)
(* 131-151; moteus_transport.h:70-83).                                     *)
CallsReturn == cpc \in {"locked", "wait", "asleep", "awake"} ~> (cpc = "ready" \/ crashed)

(* The destructor's join ends (pi3hat_moteus_transport.h:73-80, 139).      *)
DestructorEnds == cpc = "joining" ~> (cpc = "joined" \/ crashed)

(* Events run once each, in the order they were posted, and all of them    *)
(* unless the transport is destroyed first (pi3hat_moteus_transport.h:     *)
(* 89-94, 153-162).                                                        *)
EventsInOrder == [][ran' # ran => ran' = ran + 1]_ran
EventsRun == \A e \in 1..MaxPosts : (posted >= e) ~> (ran >= e \/ done \/ crashed)

(* The service the robot relies on. *)
Phase ==
    IF live = 0 THEN "idle"
    ELSE IF replies = calls THEN "answered"
    ELSE IF exchanged[calls] > 0 THEN "exchanged"
    ELSE "called"
Service == INSTANCE CycleService WITH phase <- Phase
ImplementsService == Service!Spec

(* Until somebody posts an event, the two threads are that service: the     *)
(* frames of a call go out once, and it returns with their replies          *)
(* (pi3hat_moteus_transport.h:96-151, moteus_transport.h:113-121).          *)
ServiceUntilPosted ==
    Service!Init /\ [][posted' = 0 => [Service!Next]_(Service!vars)]_vars

(* pi3hat_moteus_transport.h:252, "All further variables are only used     *)
(* from within the child thread": nobody else overwrites pi3hat_.          *)
HatIsChilds == [][hat = "open" => hat' = "open"]_hat
=============================================================================
