---------------------------- MODULE ThreadProofs ----------------------------
(***************************************************************************)
(* Proofs about the thread object, for any watchers: the safety properties *)
(* of ThreadObj that hold of the code.                                     *)
(***************************************************************************)
EXTENDS ThreadObj, TLAPS

\* TypeOK in a form that the provers take apart easily.
Typed ==
    /\ build \in Builds /\ func \in Functions
    /\ obj \in {"none", "live", "freed"}
    /\ run \in BOOLEAN /\ ret \in BOOLEAN /\ result \in BOOLEAN
    /\ waited \in BOOLEAN /\ misjoined \in BOOLEAN /\ joined \in BOOLEAN
    /\ seenRun \in [Readers -> BOOLEAN]
    /\ seenRet \in [Readers -> BOOLEAN]
    /\ retSaid \in [Readers -> BOOLEAN]
    /\ child \in {"none", "func", "storeRun", "storeRet", "return", "exited"}
    /\ owner \in {"idle", "joining", "freeing"}
    /\ obj = "none" => child = "none"
    /\ build = "c11" /\ obj # "none" => child # "none"

\* With a function _run falls with the thread's first store, without one it
\* never does; a reader that saw it false saw its last value.
RunFalls ==
    /\ child \in {"func", "storeRun"} => run = TRUE
    /\ func = "given" => child \notin {"storeRet", "return", "exited"} \/ run = FALSE
    /\ obj # "none" => \A r \in Readers : run = TRUE => seenRun[r] = TRUE
    /\ child \in {"storeRun", "storeRet"} => func = "given"

\* _ret becomes what the function returned with the second store, not before;
\* nobody has seen or been told true while it is false.
RetRises ==
    /\ ret = TRUE => child \in {"return", "exited"}
    /\ child \in {"return", "exited"} => ret = result
    /\ child \in {"none", "func"} => result = FALSE
    /\ \A r \in Readers : seenRet[r] = TRUE \/ retSaid[r] = TRUE => ret = TRUE

\* A thread that was joined has ended and its owner has seen all of it. With a
\* function that is why no further thrd_join is called: the owner is in one
\* only before the first success, and no call was made without a thread.
JoinState ==
    /\ owner # "idle" => obj = "live"
    /\ waited = TRUE => /\ child = "exited"
                        /\ seenRet[Owner] = result
                        /\ func = "given" => seenRun[Owner] = FALSE /\ owner = "idle"
    /\ func = "given" /\ child # "none" => misjoined = FALSE
    /\ obj = "none" => misjoined = FALSE /\ waited = FALSE

ThreadInv == Typed /\ RunFalls /\ RetRises /\ JoinState

-----------------------------------------------------------------------------

\* What the test at the top of _join leaves of the owner's view.
LEMMA OwnerLooks ==
  ASSUME NEW b \in BOOLEAN, ThreadInv, RunSeen(b)
  PROVE  /\ seenRun' = [seenRun EXCEPT ![Owner] = b]
         /\ b = seenRun[Owner] \/ b = run
  BY DEF RunSeen, Load

\* The state before thread_create satisfies the invariant.
LEMMA InitInv == Init => ThreadInv
<1> SUFFICES ASSUME Init PROVE ThreadInv
  OBVIOUS
<1>1. Typed
  BY Zenon DEF Init, Typed
<1>2. RunFalls
  BY DEF Init, RunFalls
<1>3. RetRises
  BY DEF Init, RetRises
<1>4. JoinState
  BY DEF Init, JoinState
<1>5. QED
  BY <1>1, <1>2, <1>3, <1>4 DEF ThreadInv

\* The object that is handed out, with a thread or without.
LEMMA NewObjectInv ==
  ASSUME ThreadInv, NewObject,
         child' = "func" \/ (build = "pthread" /\ child' = child)
  PROVE  ThreadInv'
  BY DEF NewObject, ThreadInv, Typed, RunFalls, RetRises, JoinState, setup, ghosts

\* A call of thrd_join: with a function, it finds a thread to join.
LEMMA CallJoinFinds ==
  ASSUME ThreadInv, CallJoin, Owner \in Readers
  PROVE  /\ seenRun' = [seenRun EXCEPT ![Owner] = TRUE]
         /\ seenRun[Owner] = TRUE \/ run = TRUE
         /\ misjoined' \in BOOLEAN
         /\ func = "given" /\ child # "none" => misjoined' = FALSE /\ waited = FALSE
<1>1. seenRun' = [seenRun EXCEPT ![Owner] = TRUE] /\ (seenRun[Owner] = TRUE \/ run = TRUE)
  BY Zenon DEF CallJoin, RunSeen, Load
<1>2. misjoined' \in BOOLEAN
  BY DEF CallJoin, ThreadInv, Typed
<1>3. ASSUME func = "given", child # "none" PROVE misjoined' = FALSE /\ waited = FALSE
  <2>1. waited = FALSE
    BY <1>1, <1>3 DEF ThreadInv, Typed, RunFalls, JoinState
  <2>2. QED
    BY <1>3, <2>1 DEF CallJoin, Joinable, ThreadInv, JoinState
<1>4. QED
  BY <1>1, <1>2, <1>3

\* Every call of a reader or the owner, every outcome of thrd_join and every
\* step of the thread keeps the invariant.
LEMMA StepInv == ThreadInv /\ [Next]_vars => ThreadInv'
<1> SUFFICES ASSUME ThreadInv, [Next]_vars PROVE ThreadInv'
  OBVIOUS
<1> Owner \in Readers
  BY DEF Readers
<1>1. CASE Create
  BY <1>1, NewObjectInv DEF Create
<1>2. CASE CreateFails
  <2>1. CASE UNCHANGED vars
    BY <2>1 DEF vars, ThreadInv, Typed, RunFalls, RetRises, JoinState
  <2>2. CASE build = "pthread" /\ NewObject /\ UNCHANGED child
    BY <2>2, NewObjectInv
  <2>3. QED
    BY <1>2, <2>1, <2>2 DEF CreateFails
<1> USE DEF ThreadInv, Typed, RunFalls, RetRises, JoinState, setup, memory, views, ghosts
<1>3. ASSUME NEW r \in Readers, IsRun(r) PROVE ThreadInv'
  BY <1>3 DEF IsRun, MayCall, Load
<1>4. ASSUME NEW r \in Readers, RetVal(r) PROVE ThreadInv'
  BY <1>4 DEF RetVal, MayCall, Load
<1>5. CASE Join
  <2>1. ASSUME RunSeen(FALSE), joined' = TRUE, UNCHANGED <<owner, misjoined>> PROVE ThreadInv'
    BY <1>5, <2>1, OwnerLooks DEF Join, MayCall
  <2>2. ASSUME CallJoin, owner' = "joining", UNCHANGED joined PROVE ThreadInv'
    BY <1>5, <2>2, CallJoinFinds DEF Join, MayCall
  <2>3. QED
    BY <1>5, <2>1, <2>2 DEF Join
<1>6. CASE Free
  <2>1. ASSUME RunSeen(FALSE), obj' = "freed", UNCHANGED <<owner, misjoined>> PROVE ThreadInv'
    BY <1>6, <2>1, OwnerLooks DEF Free, MayCall
  <2>2. ASSUME CallJoin, owner' = "freeing", UNCHANGED obj PROVE ThreadInv'
    BY <1>6, <2>2, CallJoinFinds DEF Free, MayCall
  <2>3. QED
    BY <1>6, <2>1, <2>2 DEF Free
<1>7. CASE Joined
  BY <1>7 DEF Joined, Joinable, BackFromJoin
<1>8. CASE JoinFails
  BY <1>8 DEF JoinFails, BackFromJoin
<1>9. CASE JoinedNothing
  BY <1>9 DEF JoinedNothing, BackFromJoin
<1>10. CASE FuncReturns
  BY <1>10 DEF FuncReturns
<1>11. CASE NoFunc
  BY <1>11 DEF NoFunc
<1>12. CASE StoreRun
  BY <1>12 DEF StoreRun
<1>13. CASE StoreRet
  BY <1>13 DEF StoreRet
<1>14. CASE Exit
  BY <1>14 DEF Exit
<1>15. CASE UNCHANGED vars
  BY <1>15 DEF vars
<1>16. QED
  BY <1>1, <1>2, <1>3, <1>4, <1>5, <1>6, <1>7, <1>8, <1>9, <1>10, <1>11, <1>12,
     <1>13, <1>14, <1>15
     DEF Next, Thread, Finished

\* In every state the invariant holds.
LEMMA ThreadInvariance == Spec => []ThreadInv
  BY InitInv, StepInv, PTL DEF Spec

-----------------------------------------------------------------------------

\* Every variable is well typed; in the C11 build every object that was handed
\* out has a thread, whichever creation fails (thread.c:105-109).
THEOREM ThreadTypeCorrect == Spec => []TypeOK
<1>1. ThreadInv => TypeOK
  BY DEF ThreadInv, Typed, TypeOK
<1>2. QED
  BY <1>1, ThreadInvariance, PTL

\* However the owner's and the watchers' calls are mixed, and whatever
\* thrd_join returns, a thread with a function is never joined by thrd_join
\* after it was joined (thread.c:26-33).
THEOREM JoinsOnce == Spec => []JoinedOnce
<1>1. ThreadInv => JoinedOnce
  BY DEF ThreadInv, JoinState, JoinedOnce
<1>2. QED
  BY <1>1, ThreadInvariance, PTL

\* retVal tells no reader of a success that the function did not return
\* (thread.c:59).
THEOREM NoFalseSuccess == Spec => []RetValSound
<1>1. ThreadInv => RetValSound
  BY DEF ThreadInv, Typed, RetRises, RetValSound
<1>2. QED
  BY <1>1, ThreadInvariance, PTL

\* After a thrd_join that succeeded the owner sees the thread's last stores,
\* the thread is gone and, when it had a function, is seen not to run
\* (thread.c:28-43).
THEOREM JoinIsLast == Spec => []JoinSynchronises
<1>1. ThreadInv => JoinSynchronises
  BY DEF ThreadInv, JoinState, JoinSynchronises
<1>2. QED
  BY <1>1, ThreadInvariance, PTL
=============================================================================
