------------------------ MODULE ServerSessionsProofs ------------------------
(***************************************************************************)
(* Proofs of the safety properties of ServerSessions, for any number of    *)
(* clients, services and sessions.                                         *)
(***************************************************************************)
EXTENDS ServerSessions, TLAPS

-----------------------------------------------------------------------------
(* The inductive invariant: TypeOK and the conjuncts below.                *)

\* A session has a client from the moment it enters runSession, and is
\* registered only between replaceSession and removeSession.
OwnerInv ==
  /\ \A s \in Session : pc[s] # "idle" => clientID[s] \in Client
  /\ \A c \in Client : sessions[c] # None =>
       clientID[sessions[c]] = c /\ pc[sessions[c]] \in Registered

\* What replaceSession returned is an earlier session of the same client, and
\* no two sessions replace the same one.
OldInv ==
  /\ \A s \in Session : old[s] # None =>
       /\ pc[s] \notin {"idle", "replace"}
       /\ pc[old[s]] \notin {"idle", "replace"}
       /\ clientID[old[s]] = clientID[s]
  /\ \A s \in Session : pc[s] \in ShuttingDown => old[s] # None
  /\ \A s, t \in Session : old[s] # None /\ old[s] = old[t] => s = t

\* The registered session of a client is the one registered session that no
\* other session has replaced.
CurrentInv ==
  /\ \A c \in Client, t \in Session : sessions[c] # None => old[t] # sessions[c]
  /\ \A s \in Session :
       pc[s] \in Registered /\ (\A t \in Session : old[t] # s) => sessions[clientID[s]] = s

\* How far a session has got in shutting the one it replaced down.
ShutdownInv ==
  \A s \in Session : old[s] # None =>
    /\ pc[s] # "cancelOld" => cancelled[old[s]]
    /\ pc[s] \notin ShuttingDown => yam[old[s]] = "closed"

\* No service is listened on twice: what is left to do, in hand and appended
\* are disjoint.
SetupInv ==
  \A s \in Session :
    /\ pc[s] \in {"idle", "replace"} => listeners[s] = {}
    /\ todo[s] \cap listeners[s] = {}
    /\ pc[s] = "append" => binding[s] \notin todo[s] \cup listeners[s]

\* An open listener is in sess.listeners, or about to be appended to it.
ListenerInv ==
  /\ \A s \in Session : pc[s] = "append" =>
       binding[s] \in Service /\ ln[s][binding[s]] = "open"
  /\ \A s \in Session, svc \in Service : ln[s][svc] = "open" =>
       /\ pc[s] \in Registered
       /\ svc \in listeners[s] \/ (pc[s] = "append" /\ binding[s] = svc)

IInv ==
  /\ TypeOK
  /\ OwnerInv
  /\ OldInv
  /\ CurrentInv
  /\ ShutdownInv
  /\ SetupInv
  /\ ListenerInv
  /\ LiveListenersStay

\* The invariant holds before any connection.
LEMMA InitInv == Init => IInv
<1> SUFFICES ASSUME Init  PROVE IInv
  OBVIOUS
<1> USE NoneAssumption DEF Init
<1>1. TypeOK
  BY Zenon DEF TypeOK
<1>2. OwnerInv /\ OldInv /\ CurrentInv /\ ShutdownInv
  BY DEF OwnerInv, OldInv, CurrentInv, ShutdownInv, Registered, ShuttingDown, Setup
<1>3. SetupInv /\ ListenerInv
  BY DEF SetupInv, ListenerInv
<1>4. LiveListenersStay
  BY DEF LiveListenersStay
<1> QED  BY <1>1, <1>2, <1>3, <1>4 DEF IInv

\* replaceSession: what it returns was current, so nobody had replaced it.
LEMMA ReplaceSessionInv ==
  ASSUME IInv, NEW s \in Session, ReplaceSession(s)
  PROVE  IInv'
<1> USE NoneAssumption DEF IInv
<1>1. PICK c \in Client : c = clientID[s]
  BY DEF ReplaceSession, Goto, OwnerInv
<1>2. /\ pc[s] = "replace"
      /\ pc' = [pc EXCEPT ![s] = AfterReplace(s)]
      /\ old' = [old EXCEPT ![s] = sessions[c]]
      /\ sessions' = [sessions EXCEPT ![c] = s]
      /\ UNCHANGED <<setupVars, mu, cancelled, lnVars, yam, procVars>>
  BY <1>1 DEF ReplaceSession, Goto
<1>3. AfterReplace(s) = IF sessions[c] = None THEN "listen" ELSE "cancelOld"
  BY <1>1 DEF AfterReplace
<1>4. old[s] = None /\ sessions[c] \in (Session \ {s}) \cup {None}
  BY <1>2, Zenon DEF TypeOK, OwnerInv, OldInv, Registered, ShuttingDown, Setup
<1>5. \A t \in Session : sessions[c] # None => old[t] # sessions[c]
  BY DEF CurrentInv
<1>6. TypeOK'
  BY <1>2, <1>3, <1>4 DEF TypeOK, Registered, ShuttingDown, Setup, setupVars, lnVars, procVars
<1>7. OwnerInv'
  BY <1>1, <1>2, <1>3 DEF TypeOK, OwnerInv, Registered, ShuttingDown, Setup, setupVars
<1>8. OldInv'
  <2>1. \A r \in Session : old'[r] # None =>
          /\ pc'[r] \notin {"idle", "replace"}
          /\ pc'[old'[r]] \notin {"idle", "replace"}
          /\ clientID'[old'[r]] = clientID'[r]
    <3> TAKE r \in Session
    <3>1. CASE r = s
      BY <3>1, <1>1, <1>2, <1>3, <1>4, ZenonT(60) DEF TypeOK, OwnerInv, Registered, ShuttingDown, Setup, setupVars
    <3>2. CASE r # s
      BY <3>2, <1>2, <1>3 DEF TypeOK, OldInv, setupVars
    <3> QED  BY <3>1, <3>2
  <2>2. \A r \in Session : pc'[r] \in ShuttingDown => old'[r] # None
    BY <1>2, <1>3, <1>4 DEF TypeOK, OldInv, ShuttingDown
  <2>3. \A r, t \in Session : old'[r] # None /\ old'[r] = old'[t] => r = t
    BY <1>2, <1>4, <1>5 DEF TypeOK, OldInv
  <2> QED  BY <2>1, <2>2, <2>3 DEF OldInv
<1>9. CurrentInv'
  BY <1>1, <1>2, <1>3, <1>4, <1>5 DEF TypeOK, OwnerInv, OldInv, CurrentInv, Registered,
     ShuttingDown, Setup, setupVars
<1>10. ShutdownInv'
  BY <1>2, <1>3, <1>4 DEF TypeOK, OldInv, ShutdownInv, ShuttingDown
<1>11. SetupInv' /\ ListenerInv'
  BY <1>2, <1>3 DEF TypeOK, SetupInv, ListenerInv, Registered, ShuttingDown, Setup, setupVars, lnVars
<1>12. LiveListenersStay'
  BY <1>2, <1>3 DEF TypeOK, SetupInv, LiveListenersStay, ContextDone, Registered, ShuttingDown,
     Setup, lnVars, procVars
<1> QED  BY <1>6, <1>7, <1>8, <1>9, <1>10, <1>11, <1>12

\* shutdown closes listeners of the old session only after cancelling it.
LEMMA ShutdownListenersInv ==
  ASSUME IInv, NEW s \in Session, ShutdownListeners(s)
  PROVE  IInv'
<1> USE NoneAssumption DEF IInv
<1>1. /\ pc[s] = "closeOld" /\ old[s] \in Session /\ cancelled[old[s]]
      /\ pc' = [pc EXCEPT ![s] = "closingOld"]
      /\ ln' = [ln EXCEPT ![old[s]] = [svc \in Service |->
                  IF svc \in OpenListeners(old[s]) THEN "closing" ELSE ln[old[s]][svc]]]
      /\ closing' = [closing EXCEPT ![s] = OpenListeners(old[s])]
      /\ UNCHANGED <<setupVars, mapVars, cancelled, listeners, yam, procVars>>
  BY DEF ShutdownListeners, CloseListeners, Goto, TypeOK, OldInv, ShutdownInv, ShuttingDown
<1>2. OpenListeners(old[s]) \subseteq Service
  BY <1>1 DEF OpenListeners, TypeOK
<1>3. TypeOK'
  BY <1>1, <1>2 DEF TypeOK, Registered, ShuttingDown, setupVars, mapVars, procVars
<1>4. OwnerInv' /\ OldInv' /\ CurrentInv' /\ ShutdownInv'
  BY <1>1 DEF TypeOK, OwnerInv, OldInv, CurrentInv, ShutdownInv, Registered, ShuttingDown, Setup, setupVars, mapVars
<1>5. SetupInv' /\ ListenerInv'
  BY <1>1, <1>2 DEF TypeOK, SetupInv, ListenerInv, OpenListeners, Registered, ShuttingDown, Setup, setupVars
<1>6. LiveListenersStay'
  BY <1>1 DEF TypeOK, LiveListenersStay, ContextDone, Registered, ShuttingDown, Setup, procVars
<1> QED  BY <1>3, <1>4, <1>5, <1>6

\* The watcher closes a listener only when the session's context is done.
LEMMA WatcherClosesInv ==
  ASSUME IInv, NEW s \in Session, NEW svc \in Service, WatcherCloses(s, svc)
  PROVE  IInv'
<1> USE NoneAssumption DEF IInv
<1>1. /\ ContextDone(s) /\ svc \in listeners[s] /\ ln[s][svc] = "open"
      /\ ln' = [ln EXCEPT ![s][svc] = "closing"]
      /\ UNCHANGED <<pc, setupVars, mapVars, cancelled, listeners, closing, yam, procVars>>
  BY DEF WatcherCloses, OpenListeners
<1>2. TypeOK' /\ OwnerInv' /\ OldInv' /\ CurrentInv' /\ ShutdownInv'
  BY <1>1 DEF TypeOK, OwnerInv, OldInv, CurrentInv, ShutdownInv, setupVars, mapVars, procVars
<1>3. SetupInv' /\ ListenerInv'
  BY <1>1 DEF TypeOK, SetupInv, ListenerInv, setupVars
<1>4. LiveListenersStay'
  BY <1>1 DEF TypeOK, LiveListenersStay, ContextDone, procVars
<1> QED  BY <1>2, <1>3, <1>4

\* Every other step of the goroutine of a session.
LEMMA RunSessionInv ==
  ASSUME IInv, NEW s \in Session, RunSession(s)
  PROVE  IInv'
<1> USE NoneAssumption DEF IInv, TypeOK, OwnerInv, OldInv, CurrentInv, ShutdownInv, SetupInv,
      ListenerInv, LiveListenersStay, ContextDone, Registered, ShuttingDown, Setup, Teardown,
      Goto, setupVars, mapVars, lnVars, procVars
<1>1. CASE ReplaceSession(s)
  BY ONLY IInv, <1>1, ReplaceSessionInv
<1>2. CASE ShutdownCancel(s)
  BY <1>2 DEF ShutdownCancel
<1>3. CASE ShutdownListeners(s)
  BY ONLY IInv, <1>3, ShutdownListenersInv
<1>4. CASE ShutdownPanics(s)
  BY <1>4 DEF ShutdownPanics
<1>5. CASE ShutdownListenersClosed(s)
  BY <1>5 DEF ShutdownListenersClosed, CloseReturned
<1>6. CASE ShutdownYam(s)
  BY <1>6 DEF ShutdownYam, BeginYamClose
<1>7. CASE ShutdownReturns(s)
  BY <1>7 DEF ShutdownReturns
<1>8. CASE Listen(s)
  BY <1>8 DEF Listen
<1>9. CASE ListenFails(s)
  BY <1>9 DEF ListenFails
<1>10. CASE AppendListener(s)
  BY <1>10 DEF AppendListener
<1>11. CASE SetupDone(s)
  BY <1>11 DEF SetupDone
<1>12. CASE SessionClosed(s)
  BY <1>12 DEF SessionClosed
<1>13. CASE RemoveSession(s)
  BY <1>13 DEF RemoveSession, Unregistered, CloseListeners, OpenListeners
<1>14. CASE RemoveReturns(s)
  BY <1>14 DEF RemoveReturns, CloseReturned
<1>15. CASE DeferredYamClose(s)
  BY <1>15 DEF DeferredYamClose, BeginYamClose
<1>16. CASE DeferredYamReturns(s)
  BY <1>16 DEF DeferredYamReturns
<1>17. CASE DeferredCancel(s)
  BY <1>17 DEF DeferredCancel
<1> QED
  BY ONLY RunSession(s), <1>1, <1>2, <1>3, <1>4, <1>5, <1>6, <1>7, <1>8, <1>9, <1>10, <1>11, <1>12, <1>13, <1>14, <1>15, <1>16, <1>17, Zenon DEF RunSession

\* Every step of the system preserves the invariant.
LEMMA NextInv == IInv /\ [Next]_vars => IInv'
<1> SUFFICES ASSUME IInv, [Next]_vars  PROVE IInv'
  OBVIOUS
<1>1. CASE \E s \in Session : RunSession(s)
  BY <1>1, RunSessionInv
<1>2. CASE \E s \in Session, svc \in Service : WatcherCloses(s, svc)
  BY <1>2, WatcherClosesInv
<1>3. ASSUME NEW s \in Session, NEW svc \in Service, ListenerReleased(s, svc)
      PROVE  IInv'
  BY <1>3 DEF ListenerReleased, IInv, TypeOK, OwnerInv, OldInv, CurrentInv,
     ShutdownInv, SetupInv, ListenerInv, LiveListenersStay, ContextDone, Registered, ShuttingDown,
     Setup, Teardown, setupVars, mapVars, lnVars, procVars
<1>4. ASSUME NEW s \in Session, YamClosed(s)
      PROVE  IInv'
  BY <1>4 DEF YamClosed, IInv, TypeOK, OwnerInv, OldInv, CurrentInv,
     ShutdownInv, SetupInv, ListenerInv, LiveListenersStay, ContextDone, Registered, ShuttingDown,
     Setup, Teardown, setupVars, mapVars, lnVars, procVars
<1>5. ASSUME NEW s \in Session, YamFails(s)
      PROVE  IInv'
  BY <1>5 DEF YamFails, BeginYamClose, IInv, TypeOK, OwnerInv, OldInv, CurrentInv,
     ShutdownInv, SetupInv, ListenerInv, LiveListenersStay, ContextDone, Registered, ShuttingDown,
     Setup, Teardown, setupVars, mapVars, lnVars, procVars
<1>6. ASSUME NEW s \in Session, NEW c \in Client, NEW req \in Requests(c), Establish(s, c, req)
      PROVE  IInv'
  BY <1>6, NoneAssumption, AllowedAssumption DEF Establish, Goto, Requests, IInv, TypeOK, OwnerInv, OldInv, CurrentInv,
     ShutdownInv, SetupInv, ListenerInv, LiveListenersStay, ContextDone, Registered, ShuttingDown,
     Setup, Teardown, setupVars, mapVars, lnVars, procVars
<1>7. CASE Stop
  BY <1>7 DEF Stop, IInv, TypeOK, OwnerInv, OldInv, CurrentInv,
     ShutdownInv, SetupInv, ListenerInv, LiveListenersStay, ContextDone, Registered, ShuttingDown,
     Setup, Teardown, setupVars, mapVars, lnVars, procVars
<1>8. CASE UNCHANGED vars
  BY <1>8 DEF vars, IInv, TypeOK, OwnerInv, OldInv, CurrentInv,
     ShutdownInv, SetupInv, ListenerInv, LiveListenersStay, ContextDone, Registered, ShuttingDown,
     Setup, Teardown, setupVars, mapVars, lnVars, procVars
<1> QED
  BY <1>1, <1>2, <1>3, <1>4, <1>5, <1>6, <1>7, <1>8 DEF Next, Server, Environment

\* IInv holds in every reachable state.
THEOREM Invariance == SafeSpec => []IInv
BY InitInv, NextInv, PTL DEF SafeSpec

-----------------------------------------------------------------------------
(* What follows from the invariant.                                        *)

\* Type correctness.
THEOREM TypeCorrect == SafeSpec => []TypeOK
<1>1. IInv => TypeOK
  BY DEF IInv
<1> QED  BY <1>1, Invariance, PTL

\* s.sessions names exactly the live, unreplaced sessions.
THEOREM RegistryIsExact == SafeSpec => []RegistryExact
<1>1. IInv => RegistryExact
  BY NoneAssumption DEF IInv, TypeOK, OwnerInv, CurrentInv, RegistryExact, Superseded,
     Registered, ShuttingDown, Setup, Teardown
<1> QED  BY <1>1, Invariance, PTL

\* A session listens only after the one it replaced has been shut down.
THEOREM PredecessorIsDead == SafeSpec => []PredecessorDead
<1>1. IInv => PredecessorDead
  BY DEF IInv, ShutdownInv, PredecessorDead, ShuttingDown
<1> QED  BY <1>1, Invariance, PTL

\* Two working sessions of one client mean a shutdown in progress.
THEOREM OverlapIsShutdown == SafeSpec => []OverlapOnlyInShutdown
<1>1. ASSUME IInv, NEW s \in Session, NEW t \in Session,
             pc[s] \in Setup \cup {"wait"}, yam[s] = "open", old[t] = s
      PROVE  pc[t] \in ShuttingDown
  BY <1>1, NoneAssumption DEF IInv, ShutdownInv
<1>2. ASSUME IInv, NEW s \in Session, NEW t \in Session, s # t, clientID[s] = clientID[t],
             pc[s] \in Setup \cup {"wait"}, pc[t] \in Setup \cup {"wait"}
      PROVE  \E u \in Session : old[u] \in {s, t}
  BY <1>2 DEF IInv, CurrentInv, Registered
<1>3. IInv => OverlapOnlyInShutdown
  BY <1>1, <1>2 DEF OverlapOnlyInShutdown
<1> QED  BY <1>3, Invariance, PTL

\* Every open listener has somebody who will close it.
THEOREM AddressesAreAccounted == SafeSpec => []AddressAccounted
<1>1. IInv => AddressAccounted
  BY NoneAssumption DEF IInv, CurrentInv, ShutdownInv, ListenerInv, AddressAccounted
<1> QED  BY <1>1, Invariance, PTL

\* removeSession leaves no listener open.
THEOREM NoOrphans == SafeSpec => []NoOrphanListener
<1>1. IInv => NoOrphanListener
  BY DEF IInv, ListenerInv, NoOrphanListener, Registered, ShuttingDown, Setup, Teardown
<1> QED  BY <1>1, Invariance, PTL

\* The listeners of a live session stay open.
THEOREM LiveListeners == SafeSpec => []LiveListenersStay
<1>1. IInv => LiveListenersStay
  BY DEF IInv
<1> QED  BY <1>1, Invariance, PTL

-----------------------------------------------------------------------------
(* The refinement of SessionRegistry.                                      *)

\* A step that only moves goroutines within Registered or within Teardown does
\* not change the abstract state.
LEMMA QuietStep ==
  ASSUME UNCHANGED <<old, panicked, clientID>>,
         \A t \in Session : \/ pc'[t] = pc[t]
                            \/ {pc[t], pc'[t]} \subseteq Registered
                            \/ {pc[t], pc'[t]} \subseteq Teardown
  PROVE  UNCHANGED <<RegistryStatus, clientID>>
<1>1. \A t \in Session : Superseded(t)' <=> Superseded(t)
  BY DEF Superseded
<1> QED
  BY <1>1 DEF RegistryStatus, Registered, ShuttingDown, Setup, Teardown

\* replaceSession is the one-step hand-over of the abstract registry.
LEMMA ReplaceRefines ==
  ASSUME IInv, ~panicked, NEW s \in Session, ReplaceSession(s)
  PROVE  Registry!Promote(s)
<1> USE NoneAssumption DEF IInv
<1>1. PICK c \in Client : c = clientID[s]
  BY DEF ReplaceSession, Goto, OwnerInv
<1>2. /\ pc[s] = "replace"
      /\ pc' = [pc EXCEPT ![s] = IF sessions[c] = None THEN "listen" ELSE "cancelOld"]
      /\ old' = [old EXCEPT ![s] = sessions[c]]
      /\ clientID' = clientID /\ ~panicked'
  BY <1>1 DEF ReplaceSession, Goto, AfterReplace, setupVars, procVars
<1>3. old[s] = None
  BY <1>2 DEF TypeOK, OldInv
<1>4. ~Superseded(s)'
  <2>1. sessions[c] # s
    BY <1>2 DEF OwnerInv, Registered, ShuttingDown, Setup
  <2>2. \A t \in Session : old[t] # s
    BY <1>2 DEF OldInv
  <2> QED  BY <1>2, <2>1, <2>2 DEF Superseded, TypeOK
<1>5. ASSUME NEW t \in Session, t # s
      PROVE  Superseded(t)' <=> Superseded(t) \/ sessions[c] = t
  BY <1>2, <1>3, <1>5 DEF Superseded, TypeOK
<1>6. ASSUME NEW t \in Session, t # s, pc[t] \in Registered
      PROVE  sessions[c] = t <=> ~Superseded(t) /\ clientID[t] = c
  BY <1>1, <1>6 DEF Superseded, CurrentInv, OwnerInv, TypeOK
<1>7. ASSUME NEW t \in Session, t # s, sessions[c] = t
      PROVE  pc[t] \in Registered
  BY <1>7 DEF OwnerInv
<1>8. RegistryStatus[s] = "pending"
  BY <1>2 DEF RegistryStatus, Teardown
<1>9. RegistryStatus' = [t \in Session |->
        IF t = s THEN "current"
        ELSE IF RegistryStatus[t] = "current" /\ clientID[t] = clientID[s] THEN "superseded"
        ELSE RegistryStatus[t]]
  <2>1. ASSUME NEW t \in Session
        PROVE  RegistryStatus'[t] =
                 IF t = s THEN "current"
                 ELSE IF RegistryStatus[t] = "current" /\ clientID[t] = clientID[s]
                 THEN "superseded" ELSE RegistryStatus[t]
    <3>1. CASE t = s
      BY <3>1, <1>2, <1>4 DEF RegistryStatus, TypeOK, Teardown
    <3>2. CASE t # s
      BY <3>2, <1>1, <1>2, <1>5, <1>6, <1>7
         DEF RegistryStatus, TypeOK, Registered, ShuttingDown, Setup, Teardown
    <3> QED  BY <3>1, <3>2
  <2> QED  BY <2>1 DEF RegistryStatus
<1> QED  BY <1>2, <1>8, <1>9 DEF Registry!Promote

\* Entering runSession admits a session to the abstract registry.
LEMMA EstablishRefines ==
  ASSUME IInv, ~panicked, NEW s \in Session, NEW c \in Client, NEW req \in Requests(c),
         Establish(s, c, req)
  PROVE  Registry!Admit(s, c)
<1> USE DEF IInv
<1>1. /\ pc[s] = "idle" /\ pc' = [pc EXCEPT ![s] = "replace"]
      /\ clientID' = [clientID EXCEPT ![s] = c]
      /\ UNCHANGED <<old, panicked>>
  BY DEF Establish, Goto, mapVars, procVars
<1>2. \A t \in Session : Superseded(t)' <=> Superseded(t)
  BY <1>1 DEF Superseded
<1>3. RegistryStatus[s] = "absent"
  BY <1>1 DEF RegistryStatus, Teardown
<1>4. RegistryStatus' = [RegistryStatus EXCEPT ![s] = "pending"]
  BY <1>1, <1>2, Zenon DEF RegistryStatus, TypeOK, Teardown
<1> QED  BY <1>1, <1>3, <1>4 DEF Registry!Admit

\* removeSession ends a session of the abstract registry.
LEMMA RemoveRefines ==
  ASSUME IInv, ~panicked, NEW s \in Session, RemoveSession(s)
  PROVE  Registry!End(s)
<1> USE DEF IInv
<1>1. /\ pc[s] = "remove" /\ pc' = [pc EXCEPT ![s] = "removing"]
      /\ UNCHANGED <<clientID, old, panicked>>
  BY DEF RemoveSession, Goto, setupVars, procVars
<1>2. \A t \in Session : Superseded(t)' <=> Superseded(t)
  BY <1>1 DEF Superseded
<1>3. RegistryStatus[s] \in {"current", "superseded"}
  BY <1>1 DEF RegistryStatus, Teardown
<1>4. RegistryStatus' = [RegistryStatus EXCEPT ![s] = "ended"]
  BY <1>1, <1>2, Zenon DEF RegistryStatus, TypeOK, Teardown
<1> QED  BY <1>1, <1>3, <1>4 DEF Registry!End

\* The steps of runSession that are not a step of the registry.
LEMMA RunSessionRefines ==
  ASSUME IInv, ~panicked, NEW s \in Session, RunSession(s)
  PROVE  Registry!RegistryNext \/ UNCHANGED <<RegistryStatus, clientID>>
<1>1. CASE ReplaceSession(s)
  BY <1>1, ReplaceRefines DEF Registry!RegistryNext
<1>2. CASE RemoveSession(s)
  BY <1>2, RemoveRefines DEF Registry!RegistryNext
<1>3. CASE ShutdownPanics(s)
  <2>1. RegistryStatus' = [t \in Session |-> "ended"] /\ clientID' = clientID
    BY <1>3 DEF ShutdownPanics, RegistryStatus, setupVars
  <2> QED  BY <2>1 DEF Registry!RegistryNext, Registry!Crash
<1>4. CASE \/ ShutdownCancel(s) \/ ShutdownListeners(s) \/ ShutdownListenersClosed(s)
           \/ ShutdownYam(s) \/ ShutdownReturns(s) \/ Listen(s) \/ ListenFails(s)
           \/ AppendListener(s) \/ SetupDone(s) \/ SessionClosed(s)
  <2>1. /\ UNCHANGED <<old, panicked, clientID>>
        /\ pc' = pc \/ (pc[s] \in Registered /\ \E l \in Registered : pc' = [pc EXCEPT ![s] = l])
    BY <1>4 DEF ShutdownCancel, ShutdownListeners, ShutdownListenersClosed, ShutdownYam,
       BeginYamClose, ShutdownReturns, Listen, ListenFails, AppendListener, SetupDone,
       SessionClosed, Goto, setupVars, mapVars, procVars, Registered, ShuttingDown, Setup
  <2> QED  BY <2>1, QuietStep DEF IInv, TypeOK
<1>5. CASE RemoveReturns(s) \/ DeferredYamClose(s) \/ DeferredYamReturns(s) \/ DeferredCancel(s)
  <2>1. /\ UNCHANGED <<old, panicked, clientID>>
        /\ pc' = pc \/ (pc[s] \in Teardown /\ \E l \in Teardown : pc' = [pc EXCEPT ![s] = l])
    BY <1>5 DEF RemoveReturns, DeferredYamClose, BeginYamClose, DeferredYamReturns,
       DeferredCancel, Goto, setupVars, mapVars, procVars, Teardown
  <2> QED  BY <2>1, QuietStep DEF IInv, TypeOK
<1> QED  BY <1>1, <1>2, <1>3, <1>4, <1>5 DEF RunSession

\* Every step of the server is a step of the abstract registry, or none.
LEMMA NextRefines ==
  ASSUME IInv, [Next]_vars
  PROVE  [Registry!RegistryNext]_<<RegistryStatus, clientID>>
<1>1. ASSUME ~panicked, NEW s \in Session, RunSession(s)
      PROVE  Registry!RegistryNext \/ UNCHANGED <<RegistryStatus, clientID>>
  BY <1>1, RunSessionRefines
<1>2. ASSUME ~panicked, NEW s \in Session, NEW c \in Client, NEW req \in Requests(c),
             Establish(s, c, req)
      PROVE  Registry!RegistryNext
  BY <1>2, EstablishRefines DEF Registry!RegistryNext
<1>3. CASE \/ \E s \in Session, svc \in Service : WatcherCloses(s, svc) \/ ListenerReleased(s, svc)
           \/ \E s \in Session : YamClosed(s) \/ YamFails(s)
           \/ Stop
           \/ UNCHANGED vars
  <2>1. UNCHANGED <<pc, old, panicked, clientID>>
    BY <1>3 DEF WatcherCloses, ListenerReleased, YamClosed, YamFails, BeginYamClose, Stop, vars,
       setupVars, mapVars, procVars
  <2> QED  BY <2>1, QuietStep
<1> QED  BY <1>1, <1>2, <1>3 DEF Next, Server, Environment

\* The goroutines of server.go implement the one-step hand-over.
THEOREM Refinement == SafeSpec => ImplementsRegistry
<1>1. Init => Registry!RegistryInit
  BY DEF Init, Registry!RegistryInit, RegistryStatus, Teardown
<1>2. IInv /\ [Next]_vars => [Registry!RegistryNext]_<<RegistryStatus, clientID>>
  BY NextRefines
<1> QED
  BY <1>1, <1>2, Invariance, PTL
     DEF SafeSpec, ImplementsRegistry, Registry!RegistrySpec, Registry!registryVars

=============================================================================
