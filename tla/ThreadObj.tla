----------------------------- MODULE ThreadObj -----------------------------
(***************************************************************************)
(* The thread object of src/src/thread.c: an owner creates a thread, joins *)
(* it and frees the object; the owner and other threads that hold the      *)
(* object ask whether it runs and what it returned; the thread runs the    *)
(* function and reports through two atomic booleans of the object, stored  *)
(* and loaded with memory_order_relaxed.                                   *)
(*                                                                         *)
(* A relaxed load returns a value of the variable's history that is not    *)
(* older than the last one its reader saw: seenRun and seenRet are the     *)
(* readers' last views. A thrd_join that succeeds brings the owner's views *)
(* up to date.                                                             *)
(*                                                                         *)
(* thread_create takes a null function, and the two builds (C11 threads or *)
(* pthreads) treat a failing creation differently: a null function and     *)
(* failing calls are inputs of the model. thrd_join of a thread that was   *)
(* never created, or that was joined before, is undefined: it returns with *)
(* either result, or does not return. A thread whose object was freed      *)
(* under it goes on as if the memory kept its contents.                    *)
(***************************************************************************)
CONSTANTS
    Owner,       \* the thread that creates, joins and frees
    Watchers,    \* the other threads that call isRun and retVal
    Builds,      \* the builds looked at, of {"c11", "pthread"}
    Functions,   \* the functions threads are created with, of {"given", "null"}
    Failures     \* the calls that may fail, of {"create", "join"}

ASSUME OwnerAssumption == Owner \notin Watchers
ASSUME InputAssumption ==
    /\ Builds \subseteq {"c11", "pthread"}
    /\ Functions \subseteq {"given", "null"}
    /\ Failures \subseteq {"create", "join"}

Readers == {Owner} \cup Watchers

VARIABLES
    build,      \* the library the program is built with
    obj,        \* the object: "none", "live" or "freed"
    func,       \* _func: "given" or "null"
    run, ret,   \* _run and _ret
    seenRun, seenRet,
    child,      \* the thread: "none", "func", "storeRun", "storeRet",
                \* "return" or "exited"
    result,     \* what the function returned, false without one
    owner,      \* the owner: "idle", or in thrd_join, "joining" or "freeing"
    waited,     \* the thread was joined: thrd_join has returned success
    misjoined,  \* ghost: thrd_join was called without a thread to join
    joined,     \* ghost: _join has returned true
    retSaid     \* ghost: what retVal said last, of each reader

vars == <<build, obj, func, run, ret, seenRun, seenRet, child, result, owner,
          waited, misjoined, joined, retSaid>>
setup  == <<build, func>>
memory == <<run, ret>>
views  == <<seenRun, seenRet>>
ghosts == <<misjoined, joined, retSaid>>

\* What a relaxed load of a variable with this value and last view returns.
Load(seen, value) == {seen, value}

\* There is a thread that was not joined yet.
Joinable == child # "none" /\ ~waited

Init ==
    /\ build \in Builds
    /\ obj = "none"
    /\ func \in Functions
    /\ run = FALSE /\ ret = FALSE
    /\ seenRun = [r \in Readers |-> FALSE]
    /\ seenRet = [r \in Readers |-> FALSE]
    /\ child = "none"
    /\ result = FALSE
    /\ owner = "idle"
    /\ waited = FALSE /\ misjoined = FALSE /\ joined = FALSE
    /\ retSaid = [r \in Readers |-> FALSE]

-----------------------------------------------------------------------------
(* Callers of the object.                                                  *)

\* thread_create up to the creation of the thread: the stores are visible to
\* the thread and to whoever is handed the object.
NewObject ==
    /\ obj = "none"
    /\ obj' = "live"
    /\ run' = TRUE /\ seenRun' = [r \in Readers |-> TRUE]
    /\ ret' = FALSE /\ seenRet' = [r \in Readers |-> FALSE]
    /\ UNCHANGED <<setup, result, owner, waited, ghosts>>

Create == NewObject /\ child' = "func"

\* Mutant of CreateFails: the failure is not seen in the C11 build either.
CreateFailsUnseen ==
    /\ "create" \in Failures
    /\ NewObject /\ UNCHANGED child

\* A failing thrd_create frees the object and leaves nothing behind. The error
\* numbers of pthread_create are positive, so that e < 0 never sees them, and
\* the object is handed out without a thread.
CreateFails ==
    /\ "create" \in Failures
    /\ \/ build = "c11" /\ obj = "none" /\ UNCHANGED vars
       \/ build = "pthread" /\ NewObject /\ UNCHANGED child

MayCall(r) == obj = "live" /\ (r = Owner => owner = "idle")

\* _isRun.
IsRun(r) ==
    /\ MayCall(r)
    /\ \E b \in Load(seenRun[r], run) : seenRun' = [seenRun EXCEPT ![r] = b]
    /\ UNCHANGED <<setup, obj, memory, seenRet, child, result, owner, waited, ghosts>>

\* Mutant of RetVal: the answer is negated, an exit status.
RetValStatus(r) ==
    /\ MayCall(r)
    /\ \E b \in Load(seenRet[r], ret) :
        /\ seenRet' = [seenRet EXCEPT ![r] = b]
        /\ retSaid' = [retSaid EXCEPT ![r] = ~b]
    /\ UNCHANGED <<setup, obj, memory, seenRun, child, result, owner, waited, misjoined, joined>>

\* _retVal.
RetVal(r) ==
    /\ MayCall(r)
    /\ \E b \in Load(seenRet[r], ret) :
        /\ seenRet' = [seenRet EXCEPT ![r] = b]
        /\ retSaid' = [retSaid EXCEPT ![r] = b]
    /\ UNCHANGED <<setup, obj, memory, seenRun, child, result, owner, waited, misjoined, joined>>

\* The test at the top of _join: the owner sees _run as b.
RunSeen(b) ==
    /\ b \in Load(seenRun[Owner], run)
    /\ seenRun' = [seenRun EXCEPT ![Owner] = b]

\* _run is seen true, and thrd_join is called.
CallJoin ==
    /\ RunSeen(TRUE)
    /\ misjoined' = IF Joinable THEN misjoined ELSE TRUE

\* _join: when _run is seen false it returns true without thrd_join.
Join ==
    /\ MayCall(Owner)
    /\ \/ RunSeen(FALSE) /\ joined' = TRUE /\ UNCHANGED <<owner, misjoined>>
       \/ CallJoin /\ owner' = "joining" /\ UNCHANGED joined
    /\ UNCHANGED <<setup, obj, memory, seenRet, child, result, waited, retSaid>>

\* _free: the same join, then the memory is released.
Free ==
    /\ MayCall(Owner)
    /\ \/ RunSeen(FALSE) /\ obj' = "freed" /\ UNCHANGED <<owner, misjoined>>
       \/ CallJoin /\ owner' = "freeing" /\ UNCHANGED obj
    /\ UNCHANGED <<setup, memory, seenRet, child, result, waited, joined, retSaid>>

\* Back from thrd_join: free releases the object whatever join returned.
BackFromJoin ==
    /\ owner # "idle"
    /\ owner' = "idle"
    /\ obj' = IF owner = "freeing" THEN "freed" ELSE obj
    /\ UNCHANGED <<setup, memory, child, result, misjoined, retSaid>>

\* Mutant of Joined: the end of the thread is not waited for.
JoinedEarly ==
    /\ Joinable
    /\ BackFromJoin
    /\ waited' = TRUE /\ joined' = TRUE
    /\ seenRun' = [seenRun EXCEPT ![Owner] = run]
    /\ seenRet' = [seenRet EXCEPT ![Owner] = ret]

\* thrd_join succeeds: what the thread stored is visible to the owner.
Joined ==
    /\ Joinable /\ child = "exited"
    /\ BackFromJoin
    /\ waited' = TRUE /\ joined' = TRUE
    /\ seenRun' = [seenRun EXCEPT ![Owner] = run]
    /\ seenRet' = [seenRet EXCEPT ![Owner] = ret]

\* thrd_join fails, and join returns false.
JoinFails ==
    /\ "join" \in Failures \/ ~Joinable
    /\ BackFromJoin
    /\ UNCHANGED <<views, waited, joined>>

\* thrd_join without a thread to join reports success all the same.
JoinedNothing ==
    /\ ~Joinable
    /\ BackFromJoin
    /\ joined' = TRUE
    /\ UNCHANGED <<views, waited>>

-----------------------------------------------------------------------------
(* The thread: _start.                                                     *)

FuncReturns ==
    /\ child = "func" /\ func = "given"
    /\ result' \in BOOLEAN
    /\ child' = "storeRun"
    /\ UNCHANGED <<setup, obj, memory, views, owner, waited, ghosts>>

\* Without a function both stores are skipped: _run stays true.
NoFunc ==
    /\ child = "func" /\ func = "null"
    /\ child' = "return"
    /\ UNCHANGED <<setup, obj, memory, views, result, owner, waited, ghosts>>

\* Mutant of StoreRun: _run is never reset.
StoreRunNot ==
    /\ child = "storeRun"
    /\ child' = "storeRet"
    /\ UNCHANGED <<setup, obj, run, ret, views, result, owner, waited, ghosts>>

StoreRun ==
    /\ child = "storeRun"
    /\ run' = FALSE
    /\ child' = "storeRet"
    /\ UNCHANGED <<setup, obj, ret, views, result, owner, waited, ghosts>>

StoreRet ==
    /\ child = "storeRet"
    /\ ret' = result
    /\ child' = "return"
    /\ UNCHANGED <<setup, obj, run, views, result, owner, waited, ghosts>>

Exit ==
    /\ child = "return"
    /\ child' = "exited"
    /\ UNCHANGED <<setup, obj, memory, views, result, owner, waited, ghosts>>

\* The object is gone and the thread, if there was one, ended.
Finished ==
    /\ obj = "freed" /\ child \in {"none", "exited"}
    /\ UNCHANGED vars

Thread == FuncReturns \/ NoFunc \/ StoreRun \/ StoreRet \/ Exit

Next ==
    \/ Create \/ CreateFails
    \/ \E r \in Readers : IsRun(r) \/ RetVal(r)
    \/ Join
    \/ Free
    \/ Joined \/ JoinFails \/ JoinedNothing
    \/ Thread
    \/ Finished

Spec == Init /\ [][Next]_vars

-----------------------------------------------------------------------------
(* Properties.                                                             *)

\* Every variable has the type it has in struct thread_t and in its callers.
\* A thread has an object, and in the C11 build the object that is handed out
\* has a thread, whatever fails.
TypeOK ==
    /\ build \in Builds /\ func \in Functions
    /\ obj \in {"none", "live", "freed"}
    /\ {run, ret, result, waited, misjoined, joined} \subseteq BOOLEAN
    /\ {seenRun, seenRet, retSaid} \subseteq [Readers -> BOOLEAN]
    /\ child \in {"none", "func", "storeRun", "storeRet", "return", "exited"}
    /\ owner \in {"idle", "joining", "freeing"}
    /\ obj = "none" => child = "none"
    /\ build = "c11" /\ obj # "none" => child # "none"

\* However join, isRun, retVal and free are mixed, and whatever thrd_join
\* returns, it is called only while there is a thread to join: a join that
\* waited has made _run false for the owner, and the next join, or the one in
\* free, sees that. It takes a function, whose return resets _run, and a
\* thread: without them join and free call thrd_join again and again.
JoinedOnce == func = "given" /\ child # "none" => ~misjoined

\* retVal never says true unless the function returned true, whichever of the
\* two stores its caller has seen so far.
RetValSound == \A r \in Readers : retSaid[r] => result

\* After a thrd_join that succeeded the owner sees the thread's last word: its
\* result is the function's, it will not touch the object again and, when
\* there was a function, it does not run. The result is false without one.
JoinSynchronises ==
    waited => /\ child = "exited"
              /\ seenRet[Owner] = result
              /\ func = "given" => ~seenRun[Owner]

\* _join: "return true once thread exit" (thread.h:44), and _free relies on it
\* ("Ensure we are NOT running", thread.c:47): once join has returned true, or
\* the object is freed, the thread makes no further access to the object.
JoinMeansDone ==
    joined \/ obj = "freed" => child \notin {"func", "storeRun", "storeRet"}
=============================================================================
