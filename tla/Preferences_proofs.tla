-------------------------- MODULE Preferences_proofs --------------------------
(***************************************************************************)
(* Proofs about Plugin and about Preferences, which implements it: for any *)
(* number of crashes and any ports, and for hosts that count callbacks or  *)
(* not, as each theorem says.                                              *)
(***************************************************************************)
EXTENDS Preferences, TLAPS

\* TypeOK alone is not inductive: one registration is taken back at a time.
TypeInv == TypeOK /\ (callback_registered => registered > 0)

\* The servers whose run has not returned, and those that are there.
Live == {"running", "waiting", "locked", "returned"}

\* The servers that may still ask for the client list or return.
Busy == {"running", "waiting", "locked"}

\* What a thread, the pointer to its server and the pointer to the thread have
\* to do with each other, who has asked a server to stop, and what brings one
\* to its end: the stop, or an accept that failed.
ThreadInv ==
    \A s \in Server :
        /\ pointer[s] = "live" <=> worker[s] \in Live
        /\ IF server_thread[s] THEN worker[s] # "none" ELSE worker[s] \in {"none", "ended"}
        /\ worker[s] \in {"returned", "ended"} /\ server_thread[s] =>
               main.place = JoinPlace(s) \/ loop[s] = "failed"
        /\ worker[s] \in Busy /\ stopping[s] => main.place = JoinPlace(s)
        /\ worker[s] \in Busy /\ loop[s] \in {"closed", "late"} => main.place = JoinPlace(s)

\* Where the main thread is, and what it has done by then.
PlaceInv ==
    /\ main = Idle => \A s \in Server : server_thread[s] <=> cfg_enable
    /\ main.place \in {"stop_http", "join_http"} => ~server_thread["slim"]
    /\ main.place \in {"init", "stopped", "done"} => \A s \in Server : ~server_thread[s]
    /\ main.place \notin {"init", "done"} => segment
    /\ main.place \in {"init", "done"} => ~callback_registered

\* A host that does not count has one registration or none; its callbacks come
\* while the plug-in is enabled.
CountInv ==
    /\ registered = IF callback_registered THEN 1 ELSE 0
    /\ main = Idle => (callback_registered <=> cfg_enable)

PlugInv == TypeInv /\ ThreadInv /\ PlaceInv

\* The page and the settings: what the host was told, what the servers took.
PageInv ==
    /\ cfg \in Settings /\ box \in Box /\ shown \in BOOLEAN /\ told \in BOOLEAN
    /\ bound \in [Server -> Ports]
    /\ main.place = "init" => ~shown
    /\ shown /\ main = Idle => (told <=> HasChanged)
    /\ main = Idle => \A s \in Server : Up(s) => bound[s] = PortOf(s)
-----------------------------------------------------------------------------

\* The places of the main thread.
Mains == [place : Place, caller : Caller] \cup {Idle, Quit, At("init", "host")}

\* Every step leaves the main thread at one of them.
LEMMA MainStep == TypeOK /\ [Next]_vars => main' \in Mains
<1> SUFFICES ASSUME TypeOK, [Next]_vars PROVE main' \in Mains
    OBVIOUS
<1> USE DEF Mains, Place, Caller, Idle, Quit, At
<1>1. main \in Mains
  BY DEF TypeOK
<1>2. CASE OnInit \/ OnQuit \/ ApplyEnds \/ QuitEnds \/ Callback \/ Crash
  BY <1>1, <1>2 DEF OnInit, OnQuit, ApplyEnds, QuitEnds, Callback, Crash, processVars
<1>3. ASSUME NEW b \in BOOLEAN, Apply(b) PROVE main' \in Mains
  BY <1>3 DEF Apply
<1>4. ASSUME NEW s \in Server, StopServer(s) \/ Join(s) PROVE main' \in Mains
  <2>1. main.place \in Place => main.caller \in Caller
    BY <1>1
  <2>2. main.place \in Place
    BY <1>4 DEF StopServer, Join, StopPlace, JoinPlace
  <2>3. main' \in {At(JoinPlace(s), main.caller), At(After(s), main.caller)}
    BY <1>4 DEF StopServer, Join
  <2> QED BY <2>1, <2>2, <2>3 DEF JoinPlace, After
<1>5. ASSUME NEW s \in Server, Worker(s) \/ Players(s) PROVE main' \in Mains
  BY <1>1, <1>5 DEF Worker, Players, WantLock, Construct, Lock, Unlock, RunReturns, Delete, WorkerGoes,
                    AcceptFails, HandleStop, LateLeaves, LoopGoes
<1>6. CASE UNCHANGED vars
  BY <1>1, <1>6 DEF vars, processVars
<1> QED BY <1>2, <1>3, <1>4, <1>5, <1>6 DEF Next, Main

\* The parts of TypeInv: the threads, the registrations, and the others but the
\* main thread's place.
Threads ==
    /\ pointer \in [Server -> {"null", "live", "deleted"}]
    /\ worker \in [Server -> {"none", "started", "running", "waiting", "locked",
                         "returned", "ended"}]
    /\ stopping \in [Server -> BOOLEAN]
    /\ loop \in [Server -> {"accept", "failed", "late", "closed"}]
    /\ server_thread \in [Server -> BOOLEAN]
Registered ==
    /\ registered \in 0..MaxRegistered /\ callback_registered \in BOOLEAN
    /\ callback_registered => registered > 0
Rest ==
    /\ cfg_enable \in BOOLEAN
    /\ fault \in {"none", "stop", "callback", "segment"}
    /\ mutex \in Server \cup {"free", "lost"}
    /\ segment \in BOOLEAN
    /\ crashes \in 0..MaxCrashes

LEMMA Parts == TypeInv <=> Threads /\ Registered /\ Rest /\ main \in Mains
BY DEF TypeInv, TypeOK, Threads, Registered, Rest, Mains
LEMMA PartsNext == Threads' /\ Registered' /\ Rest' /\ main' \in Mains => TypeInv'
BY DEF TypeInv, TypeOK, Threads, Registered, Rest, Mains

\* A registration more, or one less, or none.
LEMMA Registers ==
    ASSUME Registered
    PROVE  /\ RegisterCallback => Registered'
           /\ UnregisterCallback => Registered'
           /\ UNCHANGED <<registered, callback_registered>> => Registered'
<1> USE PluginAssumption DEF Registered
<1>1. RegisterCallback => Registered'
  BY DEF RegisterCallback
<1>2. ASSUME UnregisterCallback PROVE Registered'
  <2>1. CASE callback_registered
    <3>1. registered \in 1..MaxRegistered
      BY <2>1
    <3>2. registered - 1 \in 0..MaxRegistered
      BY <3>1
    <3> QED BY <1>2, <2>1, <3>2 DEF UnregisterCallback
  <2>2. CASE ~callback_registered
    BY <1>2, <2>2 DEF UnregisterCallback
  <2> QED BY <2>1, <2>2
<1>3. UNCHANGED <<registered, callback_registered>> => Registered'
  OBVIOUS
<1> QED BY <1>1, <1>2, <1>3

\* Every step keeps every variable in its type.
LEMMA TypeStep == TypeInv /\ [Next]_vars => TypeInv'
<1> SUFFICES ASSUME TypeInv, [Next]_vars PROVE TypeInv'
    OBVIOUS
<1>a. main' \in Mains
  BY MainStep DEF TypeInv
<1>b. Threads /\ Registered /\ Rest
  BY Parts
<1>c. SUFFICES Threads' /\ Registered' /\ Rest'
  BY <1>a, PartsNext
<1> USE <1>b DEF processVars, sharedVars
<1>1. CASE OnInit
  <2>1. Threads'
    BY <1>1 DEF OnInit, StartServer, NoServerChange, Threads
  <2>2. Registered'
    BY <1>1, Registers DEF OnInit
  <2>3. Rest'
    BY <1>1 DEF OnInit, NoServerChange, Rest
  <2> QED BY <2>1, <2>2, <2>3
<1>2. CASE ApplyEnds
  <2>1. Threads'
    BY <1>2 DEF ApplyEnds, StartServer, NoServerChange, Threads
  <2>2. Registered'
    BY <1>2, Registers DEF ApplyEnds
  <2>3. Rest'
    BY <1>2 DEF ApplyEnds, NoServerChange, Rest
  <2> QED BY <2>1, <2>2, <2>3
<1>3. CASE QuitEnds
  <2>1. Threads'
    BY <1>3 DEF QuitEnds, NoServerChange, Threads
  <2>2. Registered'
    BY <1>3, Registers DEF QuitEnds
  <2>3. Rest'
    BY <1>3 DEF QuitEnds, NoServerChange, Rest
  <2> QED BY <2>1, <2>2, <2>3
<1>4. CASE OnQuit
  <2>1. Threads'
    BY <1>4 DEF OnQuit, NoServerChange, Threads
  <2>2. Registered'
    BY <1>4, Registers DEF OnQuit
  <2>3. Rest'
    BY <1>4 DEF OnQuit, NoServerChange, Rest
  <2> QED BY <2>1, <2>2, <2>3
<1>5. CASE Callback
  <2>1. Threads'
    BY <1>5 DEF Callback, Threads
  <2>2. Registered'
    BY <1>5, Registers DEF Callback
  <2>3. Rest'
    BY <1>5 DEF Callback, Rest
  <2> QED BY <2>1, <2>2, <2>3
<1>6. ASSUME NEW b \in BOOLEAN, Apply(b) PROVE Threads' /\ Registered' /\ Rest'
  <2>1. Threads'
    BY <1>6 DEF Apply, NoServerChange, Threads
  <2>2. Registered'
    BY <1>6, Registers DEF Apply
  <2>3. Rest'
    BY <1>6 DEF Apply, NoServerChange, Rest
  <2> QED BY <2>1, <2>2, <2>3
<1>7. ASSUME NEW s \in Server, StopServer(s) PROVE Threads' /\ Registered' /\ Rest'
  <2>1. Threads'
    BY <1>7 DEF StopServer, Threads
  <2>2. Registered'
    BY <1>7, Registers DEF StopServer
  <2>3. Rest'
    BY <1>7 DEF StopServer, Call, Rest
  <2> QED BY <2>1, <2>2, <2>3
<1>8. ASSUME NEW s \in Server, Join(s) PROVE Threads' /\ Registered' /\ Rest'
  <2>1. Threads'
    BY <1>8 DEF Join, NoServerChange, Threads
  <2>2. Registered'
    BY <1>8, Registers DEF Join
  <2>3. Rest'
    BY <1>8 DEF Join, NoServerChange, Rest
  <2> QED BY <2>1, <2>2, <2>3
<1>9. CASE Crash
  <2>1. Threads'
    BY <1>9, SMT DEF Crash, Threads
  <2>2. Registered'
    <3>1. registered' \in 0..MaxRegistered
      BY <1>9, PluginAssumption DEF Crash
    <3>2. callback_registered' \in BOOLEAN /\ ~callback_registered'
      BY <1>9, Zenon DEF Crash
    <3> QED BY <3>1, <3>2 DEF Registered
  <2>3. Rest'
    <3>1. crashes' \in 0..MaxCrashes
      BY <1>9, PluginAssumption DEF Crash, Rest
    <3>2. fault' = fault /\ segment' = segment /\ cfg_enable' \in BOOLEAN
      BY <1>9, Zenon DEF Crash
    <3>3. mutex' \in Server \cup {"free", "lost"}
      BY <1>9 DEF Crash
    <3> QED BY <3>1, <3>2, <3>3, Zenon DEF Rest
  <2> QED BY <2>1, <2>2, <2>3
<1>10. ASSUME NEW s \in Server, Construct(s) PROVE Threads' /\ Registered' /\ Rest'
  <2>1. Threads'
    BY <1>10 DEF Construct, WorkerGoes, Threads
  <2>2. Registered'
    BY <1>10, Registers DEF Construct, WorkerGoes
  <2>3. Rest'
    BY <1>10 DEF Construct, WorkerGoes, Rest
  <2> QED BY <2>1, <2>2, <2>3
<1>11. ASSUME NEW s \in Server, Lock(s) PROVE Threads' /\ Registered' /\ Rest'
  <2>1. Threads'
    BY <1>11 DEF Lock, WorkerGoes, Threads
  <2>2. Registered'
    BY <1>11, Registers DEF Lock, WorkerGoes
  <2>3. Rest'
    BY <1>11 DEF Lock, WorkerGoes, Rest
  <2> QED BY <2>1, <2>2, <2>3
<1>12. ASSUME NEW s \in Server, Unlock(s) PROVE Threads' /\ Registered' /\ Rest'
  <2>1. Threads'
    BY <1>12 DEF Unlock, WorkerGoes, Threads
  <2>2. Registered'
    BY <1>12, Registers DEF Unlock, WorkerGoes
  <2>3. Rest'
    BY <1>12 DEF Unlock, WorkerGoes, Release, Rest
  <2> QED BY <2>1, <2>2, <2>3
<1>13. ASSUME NEW s \in Server, RunReturns(s) PROVE Threads' /\ Registered' /\ Rest'
  <2>1. Threads'
    BY <1>13 DEF RunReturns, WorkerGoes, Threads
  <2>2. Registered'
    BY <1>13, Registers DEF RunReturns, WorkerGoes
  <2>3. Rest'
    BY <1>13 DEF RunReturns, WorkerGoes, Rest
  <2> QED BY <2>1, <2>2, <2>3
<1>14. ASSUME NEW s \in Server, Delete(s) PROVE Threads' /\ Registered' /\ Rest'
  <2>1. Threads'
    BY <1>14 DEF Delete, WorkerGoes, Threads
  <2>2. Registered'
    BY <1>14, Registers DEF Delete, WorkerGoes
  <2>3. Rest'
    BY <1>14 DEF Delete, WorkerGoes, Rest
  <2> QED BY <2>1, <2>2, <2>3
<1>15. ASSUME NEW s \in Server, WantLock(s) PROVE Threads' /\ Registered' /\ Rest'
  <2>1. Threads'
    BY <1>15 DEF WantLock, WorkerGoes, Threads
  <2>2. Registered'
    BY <1>15, Registers DEF WantLock, WorkerGoes
  <2>3. Rest'
    BY <1>15 DEF WantLock, WorkerGoes, Rest
  <2> QED BY <2>1, <2>2, <2>3
<1>16. CASE UNCHANGED vars
  BY <1>16 DEF vars, Threads, Registered, Rest
<1>17. ASSUME NEW s \in Server, AcceptFails(s) \/ HandleStop(s) \/ LateLeaves(s)
       PROVE  Threads' /\ Registered' /\ Rest'
  <2>1. PICK to \in {"failed", "late", "closed"} : LoopGoes(s, to)
    BY <1>17 DEF AcceptFails, HandleStop, LateLeaves
  <2>2. Threads'
    BY <2>1 DEF LoopGoes, Threads
  <2>3. Registered'
    BY <2>1, Registers DEF LoopGoes
  <2>4. Rest'
    BY <2>1 DEF LoopGoes, Rest
  <2> QED BY <2>2, <2>3, <2>4
<1> QED
  BY <1>1, <1>2, <1>3, <1>4, <1>5, <1>6, <1>7, <1>8, <1>9, <1>10, <1>11, <1>12, <1>13, <1>14, <1>15, <1>16, <1>17
     DEF Next, Main, Worker, Players

\* Every step keeps the threads, the pointers and the main thread in step.
LEMMA PlugStep == PlugInv /\ [Next]_vars => PlugInv'
<1> SUFFICES ASSUME PlugInv, [Next]_vars PROVE PlugInv'
    OBVIOUS
<1>0. TypeInv'
  BY TypeStep DEF PlugInv
<1> USE <1>0 DEF PlugInv, TypeInv, TypeOK, Server, Idle, Quit, At, Live, Busy, processVars, sharedVars
<1>1. CASE OnInit
  <2>1. ThreadInv'
    <3>1. \A s \in Server : worker[s] \in {"none", "ended"} /\ ~server_thread[s] /\ pointer[s] # "live"
      BY <1>1 DEF OnInit, ThreadInv, PlaceInv
    <3>2. CASE cfg_enable
      BY <1>1, <3>1, <3>2 DEF OnInit, StartServer, NoServerChange, ThreadInv
    <3>3. CASE ~cfg_enable
      BY <1>1, <3>1, <3>3 DEF OnInit, NoServerChange, ThreadInv
    <3> QED BY <3>2, <3>3
  <2>2. PlaceInv'
    BY <1>1 DEF OnInit, StartServer, RegisterCallback, NoServerChange, JoinPlace, PlaceInv
  <2> QED BY <2>1, <2>2
<1>2. CASE ApplyEnds
  <2>1. ThreadInv'
    <3>1. \A s \in Server : worker[s] \in {"none", "ended"} /\ ~server_thread[s] /\ pointer[s] # "live"
      BY <1>2 DEF ApplyEnds, ThreadInv, PlaceInv
    <3>2. CASE cfg_enable
      BY <1>2, <3>1, <3>2 DEF ApplyEnds, StartServer, NoServerChange, ThreadInv
    <3>3. CASE ~cfg_enable
      BY <1>2, <3>1, <3>3 DEF ApplyEnds, NoServerChange, ThreadInv
    <3> QED BY <3>2, <3>3
  <2>2. PlaceInv'
    BY <1>2 DEF ApplyEnds, StartServer, RegisterCallback, UnregisterCallback, NoServerChange, JoinPlace, PlaceInv
  <2> QED BY <2>1, <2>2
<1>3. CASE QuitEnds
  <2>1. ThreadInv'
    BY <1>3 DEF QuitEnds, UnregisterCallback, NoServerChange, JoinPlace, ThreadInv
  <2>2. PlaceInv'
    BY <1>3 DEF QuitEnds, UnregisterCallback, NoServerChange, JoinPlace, PlaceInv
  <2> QED BY <2>1, <2>2
<1>4. CASE OnQuit
  <2>1. ThreadInv'
    BY <1>4 DEF OnQuit, HostCalls, NoServerChange, JoinPlace, ThreadInv
  <2>2. PlaceInv'
    BY <1>4 DEF OnQuit, HostCalls, NoServerChange, JoinPlace, PlaceInv
  <2> QED BY <2>1, <2>2
<1>5. CASE Callback
  <2>1. ThreadInv'
    BY <1>5 DEF Callback, HostCalls, JoinPlace, ThreadInv
  <2>2. PlaceInv'
    BY <1>5 DEF Callback, HostCalls, JoinPlace, PlaceInv
  <2> QED BY <2>1, <2>2
<1>6. ASSUME NEW b \in BOOLEAN, Apply(b) PROVE PlugInv'
  <2>1. ThreadInv'
    BY <1>6 DEF Apply, HostCalls, NoServerChange, JoinPlace, ThreadInv
  <2>2. PlaceInv'
    BY <1>6 DEF Apply, HostCalls, NoServerChange, JoinPlace, PlaceInv
  <2> QED BY <2>1, <2>2
<1>7. ASSUME NEW s \in Server, StopServer(s) PROVE PlugInv'
  <2>1. ThreadInv'
    BY <1>7 DEF StopServer, ThreadSet, Call, After, StopPlace, JoinPlace, ThreadInv
  <2>2. PlaceInv'
    BY <1>7 DEF StopServer, ThreadSet, Call, After, StopPlace, JoinPlace, PlaceInv
  <2> QED BY <2>1, <2>2
<1>8. ASSUME NEW s \in Server, Join(s) PROVE PlugInv'
  <2>1. ThreadInv'
    BY <1>8 DEF Join, Joined, After, JoinPlace, NoServerChange, ThreadInv
  <2>2. PlaceInv'
    BY <1>8 DEF Join, Joined, After, JoinPlace, NoServerChange, PlaceInv
  <2> QED BY <2>1, <2>2
<1>9. CASE Crash
  <2>1. ThreadInv'
    BY <1>9 DEF Crash, JoinPlace, ThreadInv
  <2>2. PlaceInv'
    BY <1>9 DEF Crash, JoinPlace, PlaceInv
  <2> QED BY <2>1, <2>2
<1>10. ASSUME NEW s \in Server, Construct(s) PROVE PlugInv'
  <2>1. ThreadInv'
    BY <1>10 DEF Construct, WorkerGoes, JoinPlace, ThreadInv
  <2>2. PlaceInv'
    BY <1>10 DEF Construct, WorkerGoes, JoinPlace, PlaceInv
  <2> QED BY <2>1, <2>2
<1>11. ASSUME NEW s \in Server, Lock(s) PROVE PlugInv'
  <2>1. ThreadInv'
    BY <1>11 DEF Lock, WorkerGoes, JoinPlace, ThreadInv
  <2>2. PlaceInv'
    BY <1>11 DEF Lock, WorkerGoes, JoinPlace, PlaceInv
  <2> QED BY <2>1, <2>2
<1>12. ASSUME NEW s \in Server, Unlock(s) PROVE PlugInv'
  <2>1. ThreadInv'
    BY <1>12 DEF Unlock, WorkerGoes, Release, JoinPlace, ThreadInv
  <2>2. PlaceInv'
    BY <1>12 DEF Unlock, WorkerGoes, Release, JoinPlace, PlaceInv
  <2> QED BY <2>1, <2>2
<1>13. ASSUME NEW s \in Server, RunReturns(s) PROVE PlugInv'
  <2>1. ThreadInv'
    BY <1>13 DEF RunReturns, WorkerGoes, JoinPlace, ThreadInv
  <2>2. PlaceInv'
    BY <1>13 DEF RunReturns, WorkerGoes, JoinPlace, PlaceInv
  <2> QED BY <2>1, <2>2
<1>14. ASSUME NEW s \in Server, Delete(s) PROVE PlugInv'
  <2>1. ThreadInv'
    BY <1>14 DEF Delete, WorkerGoes, JoinPlace, ThreadInv
  <2>2. PlaceInv'
    BY <1>14 DEF Delete, WorkerGoes, JoinPlace, PlaceInv
  <2> QED BY <2>1, <2>2
<1>15. ASSUME NEW s \in Server, WantLock(s) PROVE PlugInv'
  <2>1. ThreadInv'
    BY <1>15 DEF WantLock, WorkerGoes, JoinPlace, ThreadInv
  <2>2. PlaceInv'
    BY <1>15 DEF WantLock, WorkerGoes, JoinPlace, PlaceInv
  <2> QED BY <2>1, <2>2
<1>16. CASE UNCHANGED vars
  BY <1>16 DEF vars, JoinPlace, ThreadInv, PlaceInv
<1>17. ASSUME NEW s \in Server, AcceptFails(s) PROVE PlugInv'
  <2>1. ThreadInv'
    BY <1>17 DEF AcceptFails, LoopGoes, JoinPlace, ThreadInv
  <2>2. PlaceInv'
    BY <1>17 DEF AcceptFails, LoopGoes, JoinPlace, PlaceInv
  <2> QED BY <2>1, <2>2
<1>18. ASSUME NEW s \in Server, HandleStop(s) \/ LateLeaves(s) PROVE PlugInv'
  <2>1. PICK to \in {"late", "closed"} : LoopGoes(s, to)
    BY <1>18 DEF HandleStop, LateLeaves
  <2>2. main.place = JoinPlace(s)
    BY <1>18, <2>1 DEF HandleStop, LateLeaves, LoopGoes, ThreadInv
  <2>3. ThreadInv'
    BY <2>1, <2>2 DEF LoopGoes, JoinPlace, ThreadInv
  <2>4. PlaceInv'
    BY <2>1 DEF LoopGoes, JoinPlace, PlaceInv
  <2> QED BY <2>3, <2>4
<1> QED
  BY <1>1, <1>2, <1>3, <1>4, <1>5, <1>6, <1>7, <1>8, <1>9, <1>10, <1>11, <1>12, <1>13, <1>14, <1>15, <1>16,
     <1>17, <1>18 DEF Next, Main, Worker, Players

LEMMA PlugInit == Init => PlugInv
<1> SUFFICES ASSUME Init PROVE PlugInv
    OBVIOUS
<1> USE DEF Init, At, Idle, Quit
<1>1. TypeInv
  <2>1. Threads
    BY DEF Threads
  <2>2. registered \in 0..MaxRegistered /\ crashes \in 0..MaxCrashes
    BY PluginAssumption
  <2>3. Registered
    BY <2>2, Zenon DEF Registered
  <2>4. Rest
    BY <2>2, Zenon DEF Rest
  <2>5. main \in Mains
    BY DEF Mains
  <2> QED BY <2>1, <2>3, <2>4, <2>5, Parts
<1>2. ThreadInv /\ PlaceInv
  BY DEF ThreadInv, PlaceInv, Live, Busy, JoinPlace
<1> QED BY <1>1, <1>2 DEF PlugInv

LEMMA Threaded == Spec => []PlugInv
BY PlugInit, PlugStep, PTL DEF Spec

\* Every variable keeps to its type: for any number of crashes and hosts that
\* count callbacks or do not.
THEOREM TypeCorrect == Spec => []TypeOK
<1>1. PlugInv => TypeOK
  BY DEF PlugInv, TypeInv
<1> QED BY <1>1, Threaded, PTL

-----------------------------------------------------------------------------
(* A host that does not count its callbacks. *)

LEMMA CountStep == ~CallbacksCount /\ PlugInv /\ CountInv /\ [Next]_vars => CountInv'
<1> SUFFICES ASSUME ~CallbacksCount, PlugInv, CountInv, [Next]_vars PROVE CountInv'
    OBVIOUS
<1> USE DEF Idle, Quit, At, CountInv
<1>1. registered \in Nat /\ callback_registered \in BOOLEAN /\ cfg_enable \in BOOLEAN
  BY DEF PlugInv, TypeInv, TypeOK
<1>2. RegisterCallback => registered' = 1 /\ callback_registered' = TRUE
  BY DEF RegisterCallback
<1>3. UnregisterCallback => registered' = 0 /\ callback_registered' = FALSE
  BY <1>1 DEF UnregisterCallback
<1>4. CASE OnInit
  BY <1>1, <1>2, <1>4 DEF OnInit, PlugInv, PlaceInv
<1>5. CASE ApplyEnds
  BY <1>1, <1>2, <1>3, <1>5 DEF ApplyEnds
<1>6. CASE QuitEnds
  BY <1>3, <1>6 DEF QuitEnds
<1>7. CASE OnQuit
  BY <1>7 DEF OnQuit
<1>8. ASSUME NEW b \in BOOLEAN, Apply(b) PROVE CountInv'
  BY <1>8 DEF Apply
<1>9. ASSUME NEW s \in Server, StopServer(s) \/ Join(s) PROVE CountInv'
  BY <1>9 DEF StopServer, Join, JoinPlace, After
<1>10. CASE Crash
  BY <1>10 DEF Crash
<1>11. ASSUME NEW s \in Server, Worker(s) \/ Players(s) PROVE CountInv'
  BY <1>11 DEF Worker, Players, WantLock, Construct, Lock, Unlock, RunReturns, Delete, WorkerGoes,
               AcceptFails, HandleStop, LateLeaves, LoopGoes
<1>12. CASE Callback \/ UNCHANGED vars
  BY <1>12 DEF Callback, vars, processVars
<1> QED BY <1>4, <1>5, <1>6, <1>7, <1>8, <1>9, <1>10, <1>11, <1>12 DEF Next, Main

LEMMA Counted == ASSUME ~CallbacksCount PROVE Spec => []CountInv
<1>1. Init => CountInv
  BY DEF Init, CountInv, At, Idle
<1> QED BY <1>1, CountStep, Threaded, PTL DEF Spec

\* When the plug-in is unloaded the host holds none of its callbacks and none
\* of its threads runs, however often the settings were applied before.  A host that counts a callback
\* twice is left with one when the settings were applied twice.
THEOREM QuitCleanAlways ==
    ASSUME ~CallbacksCount PROVE Spec => []QuitClean
<1>1. PlugInv /\ CountInv => QuitClean
  BY DEF PlugInv, TypeInv, TypeOK, ThreadInv, PlaceInv, CountInv, QuitClean, Quit, At
<1> QED BY <1>1, Threaded, Counted, PTL

-----------------------------------------------------------------------------
(* What a call through a pointer finds, and what a handler finds. *)

\* A server that has its thread and is not there: not yet, or by its own doing.
LEMMA Gone ==
    ASSUME PlugInv, NEW s \in Server, server_thread[s], pointer[s] # "live",
           main.place # JoinPlace(s)
    PROVE  NotYet(s) \/ EndedAlone(s)
<1>1. worker[s] \in {"none", "started", "running", "waiting", "locked", "returned", "ended"}
  BY DEF PlugInv, TypeInv, TypeOK
<1>2. worker[s] # "none" /\ worker[s] \notin Live
  BY DEF PlugInv, ThreadInv
<1>3. worker[s] = "ended" => loop[s] = "failed"
  BY DEF PlugInv, ThreadInv
<1> QED BY <1>1, <1>2, <1>3 DEF Live, NotYet, EndedAlone

\* A call through a pointer finds its server unless it is one of these, and a
\* handler finds its segment.
LEMMA FaultStep ==
    PlugInv /\ CountInv /\ NothingElseMissing /\ [Next]_vars => NothingElseMissing'
<1> SUFFICES ASSUME PlugInv, CountInv, NothingElseMissing, [Next]_vars
             PROVE  NothingElseMissing'
    OBVIOUS
<1> USE DEF Idle, At, Server
<1>1. worker \in [Server -> {"none", "started", "running", "waiting", "locked", "returned", "ended"}]
      /\ server_thread \in [Server -> BOOLEAN]
      /\ registered \in Nat /\ callback_registered \in BOOLEAN
  BY DEF PlugInv, TypeInv, TypeOK
<1>a. fault' = "none" => NothingElseMissing'
  BY DEF NothingElseMissing
<1>b. CASE UNCHANGED vars
  BY <1>b DEF vars, processVars, NothingElseMissing, NotYet, EndedAlone
<1>c. CASE Next
  <2>0. fault = "none"
    BY <1>c DEF Next
  <2>1. ASSUME NEW s \in Server, StopServer(s) PROVE NothingElseMissing'
    <3>1. CASE server_thread[s] /\ pointer[s] # "live"
      <4>1. main.place # JoinPlace(s)
        BY <2>1 DEF StopServer, StopPlace, JoinPlace
      <4>2. NotYet(s) \/ EndedAlone(s)
        BY <3>1, <4>1, Gone
      <4>3. fault' = "stop" /\ main'.place = JoinPlace(s) /\ UNCHANGED <<worker, server_thread, loop>>
        BY <2>1, <3>1 DEF StopServer, ThreadSet, Call
      <4> QED BY <4>2, <4>3 DEF NothingElseMissing, NotYet, EndedAlone, JoinPlace
    <3>2. CASE ~(server_thread[s] /\ pointer[s] # "live")
      BY <1>a, <2>0, <2>1, <3>2 DEF StopServer, ThreadSet, Call
    <3> QED BY <3>1, <3>2
  <2>2. ASSUME Callback PROVE NothingElseMissing'
    <3>1. PICK used \in SUBSET Server :
              IF \A s \in used : pointer[s] = "live" THEN UNCHANGED fault ELSE fault' = "callback"
      BY <2>2 DEF Callback
    <3>2. CASE \A s \in used : pointer[s] = "live"
      BY <1>a, <2>0, <3>1, <3>2
    <3>3. CASE \E s \in used : pointer[s] # "live"
      <4>1. PICK s \in Server : pointer[s] # "live"
        BY <3>1, <3>3
      <4>2. main = Idle
        BY <2>2 DEF Callback, HostCalls
      <4>3. server_thread[s]
        BY <1>1, <2>2, <4>2 DEF Callback, CountInv, PlugInv, PlaceInv
      <4>4. NotYet(s) \/ EndedAlone(s)
        BY <4>1, <4>2, <4>3, Gone DEF JoinPlace
      <4>5. fault' = "callback" /\ UNCHANGED <<main, worker, server_thread, loop>>
        BY <2>2, <3>1, <3>3 DEF Callback, processVars
      <4> QED BY <4>2, <4>4, <4>5 DEF NothingElseMissing, NotYet, EndedAlone
    <3> QED BY <3>2, <3>3
  <2>3. ASSUME NEW s \in Server, Lock(s) PROVE fault' = "none"
    <3>1. server_thread[s]
      BY <1>1, <2>3 DEF Lock, WorkerGoes, PlugInv, ThreadInv
    <3>2. segment
      BY <3>1 DEF PlugInv, PlaceInv
    <3> QED BY <2>0, <2>3, <3>2 DEF Lock
  <2>4. CASE OnInit \/ ApplyEnds \/ QuitEnds \/ OnQuit \/ Crash
    BY <1>a, <2>0, <2>4 DEF OnInit, ApplyEnds, QuitEnds, OnQuit, Crash, NoServerChange
  <2>5. ASSUME NEW b \in BOOLEAN, Apply(b) PROVE fault' = "none"
    BY <2>0, <2>5 DEF Apply, NoServerChange
  <2>6. ASSUME NEW s \in Server, Join(s) PROVE fault' = "none"
    BY <2>0, <2>6 DEF Join, NoServerChange
  <2>7. ASSUME NEW s \in Server,
               \/ Construct(s) \/ Unlock(s) \/ RunReturns(s) \/ Delete(s) \/ WantLock(s)
               \/ AcceptFails(s) \/ HandleStop(s) \/ LateLeaves(s)
        PROVE  fault' = "none"
    BY <2>0, <2>7 DEF Construct, Unlock, RunReturns, Delete, WantLock, AcceptFails, HandleStop,
                      LateLeaves, LoopGoes
  <2> QED BY <1>a, <1>c, <2>1, <2>2, <2>3, <2>4, <2>5, <2>6, <2>7 DEF Next, Main, Worker, Players
<1> QED BY <1>b, <1>c

\* With a host that does not count, a call of g_stop_server or of a callback
\* misses its server only before it is constructed or after it has ended by
\* itself, and every handler that locks the client list finds the segment:
\* through any sequence of settings applied, callbacks, failed accepts, crashes
\* and restarts.
THEOREM NothingElseMissingAlways ==
    ASSUME ~CallbacksCount PROVE Spec => []NothingElseMissing
<1>1. Init => NothingElseMissing
  BY DEF Init, NothingElseMissing
<1>2. PlugInv /\ CountInv /\ NothingElseMissing /\ [Next]_vars => NothingElseMissing'
  BY FaultStep
<1> QED BY <1>1, <1>2, Threaded, Counted, PTL DEF Spec

-----------------------------------------------------------------------------
(* The page. *)

\* The page adds to what the plug-in does and takes nothing away.
LEMMA PageImplements == PageInv /\ [PrefNext]_prefVars => [Next]_vars
<1> SUFFICES ASSUME PageInv, [PrefNext]_prefVars PROVE [Next]_vars
    OBVIOUS
<1>1. PageApply => \E b \in BOOLEAN : Apply(b)
  BY DEF PageApply, PageInv, Box
<1>2. PageApplied \/ PageCrash => ApplyEnds \/ Crash
  BY DEF PageApplied, PageCrash
<1>3. \A s \in Server : PageConstruct(s) => Construct(s)
  BY DEF PageConstruct
<1>4. OnInitDialog \/ PageClosed \/ OnEdit \/ PageReset => UNCHANGED vars
  BY DEF OnInitDialog, PageClosed, OnEdit, PageReset, PageCalled
<1>5. UNCHANGED prefVars => UNCHANGED vars
  BY DEF prefVars
<1>6. Others => Main \/ \E s \in Server : Worker(s) \/ Players(s)
  BY DEF Others, Main, Worker
<1> QED BY <1>1, <1>2, <1>3, <1>4, <1>5, <1>6 DEF PrefNext, Next, Main, Worker

\* The page starts from values of the settings, and the servers from one of the ports.
LEMMA Starts == Defaults \in Box /\ Unbound \in [Server -> Ports]
BY PortAssumption DEF Defaults, Box, Unbound

\* At the start there is no page and no server.
LEMMA PageInit == PrefInit => PageInv
<1> SUFFICES ASSUME PrefInit PROVE PageInv
    OBVIOUS
<1>1. cfg_enable \in BOOLEAN /\ main = At("init", "host")
  BY DEF PrefInit, Init
<1>2. box \in Box
  BY Starts DEF PrefInit
<1>3. bound \in [Server -> Ports]
  BY Starts DEF PrefInit
<1> QED BY <1>1, <1>2, <1>3 DEF PrefInit, PageInv, At, Idle

\* Every step keeps what the page was told, and the ports the servers took.
LEMMA PageStep == PlugInv /\ PageInv /\ [PrefNext]_prefVars => PageInv'
<1> SUFFICES ASSUME PlugInv, PageInv, [PrefNext]_prefVars PROVE PageInv'
    OBVIOUS
<1> USE DEF Idle, At
<1>1. /\ cfg \in Settings /\ box \in Box /\ shown \in BOOLEAN /\ told \in BOOLEAN
      /\ bound \in [Server -> Ports] /\ cfg_enable \in BOOLEAN
      /\ pointer \in [Server -> {"null", "live", "deleted"}]
  BY DEF PageInv, PlugInv, TypeInv, TypeOK
<1>2. CASE PageApply
  <2>1. cfg' \in Settings
    BY <1>1, <1>2 DEF PageApply, SettingsOf, Settings, Box
  <2> QED BY <1>1, <1>2, <2>1 DEF PageApply, Apply, PageInv
<1>3. CASE PageApplied
  <2>1. \A s \in Server : pointer'[s] # "live"
    BY <1>3 DEF PageApplied, ApplyEnds, NoServerChange, PlugInv, ThreadInv, PlaceInv, Live
  <2> QED BY <1>1, <1>3, <2>1 DEF PageApplied, ApplyEnds, OnChanged, HasChanged, PageInv, Up
<1>4. CASE PageCrash
  BY <1>1, <1>4, Starts DEF PageCrash, PageGone, Crash, PageInv
<1>5. ASSUME NEW s \in Server, PageConstruct(s) PROVE PageInv'
  <2>1. bound' \in [Server -> Ports]
    BY <1>1, <1>5 DEF PageConstruct, PortOf, Settings
  <2>2. main' = main /\ cfg' = cfg /\ cfg_enable' = cfg_enable /\ UNCHANGED <<shown, box, told>>
    BY <1>5 DEF PageConstruct, Construct, WorkerGoes
  <2>3. main = Idle => \A t \in Server : pointer'[t] = "live" => bound'[t] = PortOf(t)
    BY <1>1, <1>5 DEF PageConstruct, Construct, PageInv, Up
  <2> QED BY <1>1, <2>1, <2>2, <2>3 DEF PageInv, HasChanged, Up, PortOf
<1>6. CASE Others /\ UNCHANGED pageVars
  <2>1. UNCHANGED <<cfg, shown, box, told, bound>>
    BY <1>6 DEF pageVars
  <2>2. CASE OnInit
    <3>1. \A s \in Server : pointer'[s] # "live"
      BY <2>2 DEF OnInit, NoServerChange, PlugInv, ThreadInv, PlaceInv, Live
    <3> QED BY <1>1, <2>1, <2>2, <3>1 DEF OnInit, PageInv, Up
  <2>3. CASE QuitEnds \/ OnQuit
    BY <1>1, <2>1, <2>3 DEF QuitEnds, OnQuit, Quit, PageInv
  <2>4. ASSUME NEW s \in Server, StopServer(s) \/ Join(s) PROVE PageInv'
    <3>1. main'.place # "init" /\ main' # Idle
      BY <2>4 DEF StopServer, Join, JoinPlace, After
    <3> QED BY <1>1, <2>1, <3>1 DEF PageInv
  <2>5. CASE Callback
    BY <1>1, <2>1, <2>5 DEF Callback, processVars, PageInv, HasChanged, Up, PortOf
  <2>6. ASSUME NEW s \in Server,
               Lock(s) \/ Unlock(s) \/ HandleStop(s) \/ RunReturns(s) \/ Delete(s) \/ Players(s)
        PROVE  PageInv'
    <3>1. main' = main /\ cfg_enable' = cfg_enable
      BY <2>6 DEF Lock, Unlock, HandleStop, RunReturns, Delete, Players, WantLock, AcceptFails,
                  LateLeaves, WorkerGoes, LoopGoes
    <3>2. \A t \in Server : pointer'[t] = "live" => pointer[t] = "live"
      BY <1>1, <2>6 DEF Lock, Unlock, HandleStop, RunReturns, Delete, Players, WantLock, AcceptFails,
                        LateLeaves, LoopGoes
    <3> QED BY <1>1, <2>1, <3>1, <3>2 DEF PageInv, HasChanged, Up, PortOf
  <2> QED BY <1>6, <2>2, <2>3, <2>4, <2>5, <2>6 DEF Others
<1>7. CASE OnInitDialog
  BY <1>1, <1>7 DEF OnInitDialog, PageCalled, vars, processVars, OnChanged, HasChanged, Controls,
                    Settings, Box, PageInv, Up, PortOf
<1>8. CASE PageClosed
  BY <1>1, <1>8, Starts DEF PageClosed, PageGone, PageCalled, vars, processVars, PageInv, Up, PortOf
<1>9. CASE OnEdit
  <2>1. box' \in Box
    <3> USE <1>1 DEF Box
    <3>1. ASSUME NEW p \in Ports, box' \in {[box EXCEPT !.slim_port = p], [box EXCEPT !.http_port = p]}
          PROVE  box' \in Box
      BY <3>1
    <3>2. ASSUME box' = [box EXCEPT !.bps = 1 - @] PROVE box' \in Box
      <4>1. 1 - box.bps \in {0, 1}
        OBVIOUS
      <4> QED BY <3>2, <4>1
    <3>3. ASSUME box' = [box EXCEPT !.enable = ~@] PROVE box' \in Box
      <4>1. (~box.enable) \in BOOLEAN
        OBVIOUS
      <4> QED BY <3>3, <4>1
    <3> QED BY <1>9, <3>1, <3>2, <3>3 DEF OnEdit
  <2> QED BY <1>1, <1>9, <2>1 DEF OnEdit, PageCalled, vars, processVars, OnChanged, HasChanged,
                                  PageInv, Up, PortOf
<1>10. CASE PageReset
  <2>1. box' \in Box
    BY <1>1, <1>10, PortAssumption DEF PageReset, Defaults, Box
  <2> QED BY <1>1, <1>10, <2>1 DEF PageReset, PageCalled, vars, processVars, OnChanged, HasChanged,
                                   PageInv, Up, PortOf
<1>11. CASE UNCHANGED prefVars
  BY <1>1, <1>11 DEF prefVars, pageVars, vars, processVars, PageInv, HasChanged, Up, PortOf
<1> QED BY <1>2, <1>3, <1>4, <1>5, <1>6, <1>7, <1>8, <1>9, <1>10, <1>11 DEF PrefNext

LEMMA Paged == PrefSpec => []PlugInv /\ []PageInv
<1>1. PrefInit => PlugInv /\ PageInv
  BY PlugInit, PageInit DEF PrefInit
<1>2. PlugInv /\ PageInv /\ [PrefNext]_prefVars => PlugInv' /\ PageInv'
  BY PageImplements, PlugStep, PageStep
<1> QED BY <1>1, <1>2, PTL DEF PrefSpec

\* The plug-in with its settings page is the plug-in: what was proved of Plugin
\* holds behind the page as well.
THEOREM PageIsPlugin == PrefSpec => Spec
<1>1. PrefInit => Init
  BY DEF PrefInit
<1> QED BY <1>1, PageImplements, Paged, PTL DEF PrefSpec, Spec

\* The page does not disturb the types of the plug-in.
THEOREM PageTypeCorrect == PrefSpec => []TypeOK
BY PageIsPlugin, TypeCorrect, PTL

\* Behind the page too, a host that does not count misses nothing but a server
\* that is not there yet or that ended by itself.
THEOREM PageNothingElseMissing ==
    ASSUME ~CallbacksCount PROVE PrefSpec => []NothingElseMissing
BY PageIsPlugin, NothingElseMissingAlways, PTL

\* Behind the page too, unloading leaves no callback and no thread.
THEOREM PageQuitClean ==
    ASSUME ~CallbacksCount PROVE PrefSpec => []QuitClean
BY PageIsPlugin, QuitCleanAlways, PTL

\* When the host has nothing to apply and the threads have constructed their
\* servers, the page shows what runs: both servers or none, on the ports in its
\* controls, but for a server that ended by itself after a failed accept;
\* whatever the host's manners and however often the process died.
THEOREM ShownRunsAlways == PrefSpec => []ShownRuns
<1>1. PlugInv /\ PageInv => ShownRuns
  <2> SUFFICES ASSUME PlugInv, PageInv, shown, ~told, main = Idle,
                      \A s \in Server : ~NotYet(s), NEW s \in Server
               PROVE  /\ Up(s) => box.enable
                      /\ box.enable => Up(s) \/ EndedAlone(s)
                      /\ Up(s) => bound[s] = IF s = "slim" THEN box.slim_port ELSE box.http_port
      BY DEF ShownRuns
  <2>1. box = Controls(cfg, cfg_enable)
    BY DEF PageInv, HasChanged
  <2>2. box.enable = cfg_enable /\ box.slim_port = cfg.slim_port /\ box.http_port = cfg.http_port
    BY <2>1 DEF Controls
  <2>3. server_thread[s] <=> cfg_enable
    BY DEF PlugInv, PlaceInv
  <2>4. Up(s) => cfg_enable
    BY <2>3 DEF PlugInv, ThreadInv, Up, Live
  <2>5. cfg_enable => Up(s) \/ EndedAlone(s)
    BY <2>3, Gone DEF Up, JoinPlace, Idle, At
  <2>6. Up(s) => bound[s] = PortOf(s)
    BY DEF PageInv
  <2> QED BY <2>2, <2>4, <2>5, <2>6 DEF PortOf
<1> QED BY <1>1, Paged, PTL
=============================================================================
