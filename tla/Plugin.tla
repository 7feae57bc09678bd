------------------------------- MODULE Plugin -------------------------------
(***************************************************************************)
(* The plug-in's life cycle (src/foo_sbs/foo_sbs.cpp, and apply in         *)
(* preferences.cpp): the threads that own the two servers, the global      *)
(* pointers through which foobar2000's thread reaches them, and the        *)
(* registration of the playback callbacks.                                 *)
(*                                                                         *)
(* Each server is created, run and deleted by its own thread; the main     *)
(* thread uses the pointer whenever the host calls it.  A server appears   *)
(* by what is visible of it here: what its run() still waits for, and that *)
(* handlers of both servers lock the named mutex and open the shared       *)
(* memory segment.  run() returns after a stop, unless a player came in    *)
(* behind it, and by itself once an accept has failed.  The mutex and the  *)
(* segment outlive a process that is killed (Crash).                       *)
(***************************************************************************)
EXTENDS Naturals

CONSTANTS
    MaxRegistered,  \* registrations of the callbacks at one time (a bound)
    CallbacksCount, \* does the host count a callback that is added twice?
    MaxCrashes      \* how often the process is killed (a bound)

ASSUME PluginAssumption ==
    /\ MaxRegistered \in Nat \ {0}
    /\ CallbacksCount \in BOOLEAN /\ MaxCrashes \in Nat

Server == {"http", "slim"}

VARIABLES
    pointer,              \* http_server, slim_server: "null", "live", "deleted"
    worker,               \* the thread: "none", "started", "running", "waiting"
                          \* (for the mutex), "locked", "returned", "ended"
    stopping,             \* has stop been called on the running server?
    loop,                 \* what run() waits for: "accept", the next player; "failed",
                          \* an accept has failed, only the players there are; "late",
                          \* one accepted behind the stop; "closed", nothing more
    server_thread,        \* is the pointer to the thread set?
    cfg_enable,
    registered,           \* how often the callbacks are registered
    callback_registered,
    main,                 \* where the main thread is
    fault,                \* "none", or what went wrong: the call that went through
                          \* a bad pointer, or "segment", which was not there
    mutex,                \* FOO_SBS_MUTEX: "free", a server, or "lost" (its
                          \* holder was killed)
    segment,              \* does FOO_SBS_SHM_SEGMENT exist?
    crashes

processVars == <<pointer, worker, stopping, loop, server_thread, cfg_enable, registered,
                 callback_registered, main>>
sharedVars  == <<mutex, segment, crashes>>
vars == <<processVars, fault, sharedVars>>

\* g_stop_server is called by apply and by on_quit; the main thread is then at
\* a step of it, and knows what to do afterwards.
Caller == {"apply", "quit"}
At(place, caller) == [place |-> place, caller |-> caller]
Place == {"stop_slim", "join_slim", "stop_http", "join_http", "stopped"}
Idle == At("idle", "host")
Quit == At("done", "quit")

Init ==
    /\ pointer = [s \in Server |-> "null"]
    /\ worker = [s \in Server |-> "none"]
    /\ stopping = [s \in Server |-> FALSE]
    /\ loop = [s \in Server |-> "closed"]
    /\ server_thread = [s \in Server |-> FALSE]
    /\ cfg_enable \in BOOLEAN
    /\ registered = 0
    /\ callback_registered = FALSE
    /\ main = At("init", "host")
    /\ fault = "none"
    /\ mutex = "free" /\ segment = FALSE /\ crashes = 0

-----------------------------------------------------------------------------
(* g_http_server_thread_worker, g_slim_server_thread_worker. *)

WorkerGoes(s, from, to) ==
    /\ worker[s] = from
    /\ worker' = [worker EXCEPT ![s] = to]
    /\ UNCHANGED <<server_thread, cfg_enable, registered, callback_registered, main,
                   segment, crashes>>

Construct(s) ==
    /\ WorkerGoes(s, "started", "running")
    /\ pointer' = [pointer EXCEPT ![s] = "live"]
    /\ stopping' = [stopping EXCEPT ![s] = FALSE]
    /\ loop' = [loop EXCEPT ![s] = "accept"]
    /\ UNCHANGED <<fault, mutex>>

\* A handler of the server wants the client list (a HELO, a removal, the page).
WantLock(s) ==
    /\ WorkerGoes(s, "running", "waiting")
    /\ UNCHANGED <<pointer, stopping, loop, fault, mutex>>

\* It gets the mutex and opens the segment, which throws if there is none.
Lock(s) ==
    /\ mutex = "free"
    /\ mutex' = s
    /\ WorkerGoes(s, "waiting", "locked")
    /\ IF segment THEN UNCHANGED fault ELSE fault' = "segment"
    /\ UNCHANGED <<pointer, stopping, loop>>

\* scoped_lock's destructor.  Mutant: a path leaves the mutex locked.
Release_Not == UNCHANGED mutex
Release == mutex' = "free"

Unlock(s) ==
    /\ WorkerGoes(s, "locked", "running")
    /\ Release
    /\ UNCHANGED <<pointer, stopping, loop, fault>>

LoopGoes(s, to) ==
    /\ worker[s] = "running"
    /\ loop' = [loop EXCEPT ![s] = to]
    /\ UNCHANGED <<pointer, worker, stopping, server_thread, cfg_enable, registered,
                   callback_registered, main, fault, sharedVars>>

\* handle_accept with an error starts no further accept.
AcceptFails(s) == loop[s] = "accept" /\ LoopGoes(s, "failed")

\* handle_stop closes the acceptor and every connection.  An accept that was
\* completed before has its handler queued behind: its connection stays.
HandleStop(s) ==
    /\ stopping[s]
    /\ \/ loop[s] \in {"accept", "failed"} /\ LoopGoes(s, "closed")
       \/ loop[s] = "accept" /\ LoopGoes(s, "late")

\* The player that came in behind the stop leaves, or the watchdog drops it.
LateLeaves(s) == loop[s] = "late" /\ LoopGoes(s, "closed")

\* Nothing is outstanding: after the stop, or unasked once an accept has failed
\* and the last player has left.
RunReturns(s) ==
    /\ loop[s] = "closed" \/ (loop[s] = "failed" /\ ~stopping[s])
    /\ WorkerGoes(s, "running", "returned")
    /\ UNCHANGED <<pointer, stopping, loop, fault, mutex>>

\* The pointer keeps its value.
Delete(s) ==
    /\ WorkerGoes(s, "returned", "ended")
    /\ pointer' = [pointer EXCEPT ![s] = "deleted"]
    /\ UNCHANGED <<stopping, loop, fault, mutex>>

\* What the thread does without a player's help; Players, what needs one.
Worker(s) ==
    Construct(s) \/ Lock(s) \/ Unlock(s) \/ HandleStop(s) \/ RunReturns(s) \/ Delete(s)
Players(s) == WantLock(s) \/ AcceptFails(s) \/ LateLeaves(s)

-----------------------------------------------------------------------------
(* The main thread. *)

\* g_start_server: the threads are created, the servers are not there yet.
StartServer ==
    /\ worker' = [s \in Server |-> "started"]
    /\ server_thread' = [s \in Server |-> TRUE]

\* g_register_callback_sbs does not ask callback_registered.
RegisterCallback ==
    /\ registered' = CASE ~CallbacksCount -> 1
                       [] CallbacksCount /\ registered < MaxRegistered -> registered + 1
                       [] OTHER -> registered
    /\ callback_registered' = TRUE

\* g_unregister_callback_sbs.  Mutant: it does not ask.
UnregisterCallback_Again == registered' = registered - 1 /\ callback_registered' = FALSE
UnregisterCallback ==
    IF callback_registered
    THEN registered' = registered - 1 /\ callback_registered' = FALSE
    ELSE UNCHANGED <<registered, callback_registered>>

NoServerChange == UNCHANGED <<pointer, stopping, loop, fault, mutex, crashes>>

\* on_init makes the segment anew, whatever an earlier process has left.
OnInit ==
    /\ main.place = "init"
    /\ segment' = TRUE
    /\ main' = Idle
    /\ IF cfg_enable
       THEN StartServer /\ RegisterCallback
       ELSE UNCHANGED <<worker, server_thread, registered, callback_registered>>
    /\ UNCHANGED cfg_enable /\ NoServerChange

\* The host calls whenever it likes, started servers constructed or not.
HostCalls == main = Idle

\* CMyPreferences::apply with the box checked or not, up to g_stop_server.
Apply(enable) ==
    /\ HostCalls
    /\ cfg_enable' = enable
    /\ main' = At("stop_slim", "apply")
    /\ UNCHANGED <<worker, server_thread, registered, callback_registered, segment>>
    /\ NoServerChange

OnQuit ==
    /\ HostCalls
    /\ main' = At("stop_slim", "quit")
    /\ UNCHANGED <<worker, server_thread, cfg_enable, registered, callback_registered,
                   segment>>
    /\ NoServerChange

\* A call through pointer s: what it does when the server is not there is
\* undefined; the model notes it and ends.
Call(s, what) ==
    IF pointer[s] = "live" THEN UNCHANGED fault ELSE fault' = what

\* g_stop_server, one half: the other half, if any, comes next.
After(s) == IF s = "slim" THEN "stop_http" ELSE "stopped"
StopPlace(s) == IF s = "slim" THEN "stop_slim" ELSE "stop_http"
JoinPlace(s) == IF s = "slim" THEN "join_slim" ELSE "join_http"

\* Mutant: the thread is not asked for.
ThreadSet_Always(s) == TRUE
ThreadSet(s) == server_thread[s]

StopServer(s) ==
    /\ main.place = StopPlace(s)
    /\ IF ThreadSet(s)
       THEN /\ Call(s, "stop")
            /\ stopping' = [stopping EXCEPT ![s] = pointer[s] = "live"]
            /\ main' = At(JoinPlace(s), main.caller)
       ELSE /\ main' = At(After(s), main.caller)
            /\ UNCHANGED <<stopping, fault>>
    /\ UNCHANGED <<pointer, worker, loop, server_thread, cfg_enable, registered,
                   callback_registered, sharedVars>>

\* join.  Mutant: the thread is not waited for.
Joined_Now(s) == TRUE
Joined(s) == worker[s] = "ended"

Join(s) ==
    /\ main.place = JoinPlace(s)
    /\ Joined(s)
    /\ server_thread' = [server_thread EXCEPT ![s] = FALSE]
    /\ main' = At(After(s), main.caller)
    /\ UNCHANGED <<worker, cfg_enable, registered, callback_registered, segment>>
    /\ NoServerChange

\* The rest of g_apply_preferences.
ApplyEnds ==
    /\ main = At("stopped", "apply")
    /\ main' = Idle
    /\ IF cfg_enable
       THEN StartServer /\ RegisterCallback
       ELSE UnregisterCallback /\ UNCHANGED <<worker, server_thread>>
    /\ UNCHANGED <<cfg_enable, segment>> /\ NoServerChange

\* The rest of on_quit.
QuitEnds ==
    /\ main = At("stopped", "quit")
    /\ main' = Quit
    /\ UnregisterCallback
    /\ segment' = FALSE
    /\ UNCHANGED <<worker, server_thread, cfg_enable>> /\ NoServerChange

\* on_chunk and the playback callbacks: through slim_server, http_server or both.
Callback ==
    /\ HostCalls
    /\ registered > 0
    /\ \E used \in SUBSET Server :
           IF \A s \in used : pointer[s] = "live" THEN UNCHANGED fault ELSE fault' = "callback"
    /\ UNCHANGED <<processVars, sharedVars>>

Main ==
    \/ OnInit \/ ApplyEnds \/ QuitEnds \/ OnQuit \/ Callback
    \/ \E b \in BOOLEAN : Apply(b)
    \/ \E s \in Server : StopServer(s) \/ Join(s)

\* The process is killed, and started again with the settings saved last.
Crash ==
    /\ crashes < MaxCrashes
    /\ crashes' = crashes + 1
    /\ pointer' = [s \in Server |-> "null"]
    /\ worker' = [s \in Server |-> "none"]
    /\ stopping' = [s \in Server |-> FALSE]
    /\ loop' = [s \in Server |-> "closed"]
    /\ server_thread' = [s \in Server |-> FALSE]
    /\ cfg_enable' \in BOOLEAN
    /\ registered' = 0
    /\ callback_registered' = FALSE
    /\ main' = At("init", "host")
    /\ mutex' = IF mutex = "free" THEN "free" ELSE "lost"
    /\ UNCHANGED <<fault, segment>>

Next ==
    /\ fault = "none"
    /\ Main \/ Crash \/ \E s \in Server : Worker(s) \/ Players(s)

Spec == Init /\ [][Next]_vars

\* The threads are scheduled; a mutex that is freed again and again is given to
\* every thread that waits, and a thread that comes back to its loop again and
\* again finds the stop that was posted, and then that nothing is left to wait
\* for; g_stop_server goes on.  No accept need fail and no player need leave.
Fairness ==
    /\ \A s \in Server : /\ WF_vars(fault = "none" /\ (Construct(s) \/ Unlock(s) \/ Delete(s)))
                         /\ SF_vars(fault = "none" /\ Lock(s))
    /\ SF_vars(fault = "none" /\ \E s \in Server :
                    HandleStop(s) \/ (loop[s] = "closed" /\ RunReturns(s)))
    /\ WF_vars(fault = "none" /\ (OnInit \/ ApplyEnds \/ QuitEnds))
    /\ WF_vars(fault = "none" /\ \E s \in Server : StopServer(s) \/ Join(s))

-----------------------------------------------------------------------------

TypeOK ==
    /\ pointer \in [Server -> {"null", "live", "deleted"}]
    /\ worker \in [Server -> {"none", "started", "running", "waiting", "locked",
                         "returned", "ended"}]
    /\ stopping \in [Server -> BOOLEAN]
    /\ loop \in [Server -> {"accept", "failed", "late", "closed"}]
    /\ server_thread \in [Server -> BOOLEAN]
    /\ cfg_enable \in BOOLEAN /\ callback_registered \in BOOLEAN
    /\ registered \in 0..MaxRegistered
    /\ main \in [place : Place, caller : Caller] \cup {Idle, Quit, At("init", "host")}
    /\ fault \in {"none", "stop", "callback", "segment"}
    /\ mutex \in Server \cup {"free", "lost"}
    /\ segment \in BOOLEAN
    /\ crashes \in 0..MaxCrashes

\* Started, and its thread has not constructed it; and one whose run() returned
\* although nobody had stopped it.
NotYet(s) == worker[s] = "started"
EndedAlone(s) == server_thread[s] /\ worker[s] = "ended" /\ loop[s] = "failed"

\* Nothing that is used is missing, but a server that is not there yet or that
\* ended by itself: g_stop_server stops no server that it has stopped already or
\* that was never started, no callback reaches one after the plug-in was
\* disabled, and the segment outlives every handler that opens it, because
\* on_quit removes it after the threads were joined.
NothingElseMissing ==
    /\ fault # "segment"
    /\ fault = "stop" => \E s \in Server : main.place = JoinPlace(s) /\ (NotYet(s) \/ EndedAlone(s))
    /\ fault = "callback" => main = Idle /\ \E s \in Server : NotYet(s) \/ EndedAlone(s)

\* A server goes only when it is told to: "While the server is running, there is
\* always at least one asynchronous operation outstanding: the asynchronous
\* accept call waiting for new incoming connections" (slim_server/server.cpp:49).
\* Not so: a failed accept is not started again, run() returns with the last
\* player, and the thread deletes the server under the host.
GoesWhenTold == \A s \in Server : pointer[s] = "deleted" /\ server_thread[s] => stopping[s]

\* However often the settings were applied, when the plug-in is unloaded the
\* host holds none of its callbacks and none of its threads runs.
QuitClean ==
    main = Quit => registered = 0 /\ \A s \in Server : worker[s] \in {"none", "ended"}

\* Applying the settings and unloading end: the main thread is not left in
\* join for ever.  But for three cases: a process was killed with the mutex
\* locked, and the next handler that wants it never returns; a player was
\* accepted behind the stop, and run() waits as long as it stays; stop went
\* through a pointer to no server.
HostGetsBack ==
    main.place \in Place ~>
        \/ main.place \notin Place
        \/ mutex = "lost"
        \/ \E s \in Server : loop[s] = "late"
        \/ fault # "none"
=============================================================================
