--------------------------- MODULE ServerSessions ---------------------------
(***************************************************************************)
(* The life of an authenticated session on the server: runSession,         *)
(* replaceSession, removeSession, serverSession.shutdown and the watcher   *)
(* goroutine of acceptUsers (internal/tunnel/server.go).                   *)
(*                                                                         *)
(* Every session has a goroutine, which registers the session, shuts the   *)
(* one it replaces down, binds a listener per requested service, waits for *)
(* the yamux connection to close and runs its deferred calls.  They share  *)
(* the map s.sessions (under s.mu), the replaced session's fields (under   *)
(* no lock) and the host's addresses.                                      *)
(*                                                                         *)
(* Two library types are modelled by what their users here can observe.    *)
(* The first Close of a net.Listener returns once the address is released, *)
(* a later one at once.  A yamux.Session fires CloseChan when its first    *)
(* Close begins; every Close returns once the streams are closed too.      *)
(***************************************************************************)
EXTENDS Naturals, FiniteSets

CONSTANTS
  Client,    \* client ids of the configuration
  Service,   \* service names
  Session,   \* control connections that pass the handshake, one session each
  Allowed,   \* Allowed[c]: the services configured for client c
  Occupied,  \* addresses <<c, svc>> some other process listens on
  None       \* nil

ASSUME NoneAssumption == None \notin Client \cup Service \cup Session
ASSUME AllowedAssumption == Allowed \in [Client -> SUBSET Service]

VARIABLES
  pc,         \* where the goroutine of a session is
  clientID,   \* sess.clientID, None before the handshake
  todo,       \* requested services not yet listened on
  binding,    \* the service whose listener is open but not yet appended
  old,        \* what replaceSession returned
  sessions,   \* the map s.sessions
  mu,         \* holder of s.mu across a blocking call, or None
  cancelled,  \* the session's own context has been cancelled
  ln,         \* ln[s][svc]: the listener s opened for svc
  listeners,  \* sess.listeners
  closing,    \* listeners whose Close the goroutine is inside of
  yam,        \* the state of sess.yam
  stopped,    \* the server's context is done
  panicked    \* a goroutine panicked: the process is gone

setupVars == <<clientID, todo, binding>>
mapVars == <<old, sessions, mu>>
lnVars == <<ln, listeners, closing>>
procVars == <<stopped, panicked>>
vars == <<pc, setupVars, mapVars, cancelled, lnVars, yam, procVars>>

(* The points of runSession, in program order.                             *)
ShuttingDown == {"cancelOld", "closeOld", "closingOld", "yamOld"}
Setup == {"listen", "append"}
Registered == ShuttingDown \cup Setup \cup {"wait", "remove"}
Teardown == {"removing", "yamClose", "cancel", "done"}

TypeOK ==
  /\ pc \in [Session -> {"idle", "replace"} \cup Registered \cup Teardown]
  /\ clientID \in [Session -> Client \cup {None}]
  /\ todo \in [Session -> SUBSET Service]
  /\ binding \in [Session -> Service \cup {None}]
  /\ old \in [Session -> Session \cup {None}]
  /\ sessions \in [Client -> Session \cup {None}]
  /\ mu \in Session \cup {None}
  /\ cancelled \in [Session -> BOOLEAN]
  /\ ln \in [Session -> [Service -> {"none", "open", "closing", "closed"}]]
  /\ listeners \in [Session -> SUBSET Service]
  /\ closing \in [Session -> SUBSET Service]
  /\ yam \in [Session -> {"none", "open", "closing", "closed"}]
  /\ stopped \in BOOLEAN
  /\ panicked \in BOOLEAN

Init ==
  /\ pc = [s \in Session |-> "idle"]
  /\ clientID = [s \in Session |-> None]
  /\ todo = [s \in Session |-> {}]
  /\ binding = [s \in Session |-> None]
  /\ old = [s \in Session |-> None]
  /\ sessions = [c \in Client |-> None]
  /\ mu = None
  /\ cancelled = [s \in Session |-> FALSE]
  /\ ln = [s \in Session |-> [svc \in Service |-> "none"]]
  /\ listeners = [s \in Session |-> {}]
  /\ closing = [s \in Session |-> {}]
  /\ yam = [s \in Session |-> "none"]
  /\ stopped = FALSE
  /\ panicked = FALSE

Goto(s, from, to) == pc[s] = from /\ pc' = [pc EXCEPT ![s] = to]

Superseded(s) == \E t \in Session : old[t] = s

-----------------------------------------------------------------------------
(* Entering runSession, registration, and the shutdown of the old session. *)

\* The sets of services validateAuth lets a client ask for.  The real client
\* lists the keys of a Go map, so the order is arbitrary and none repeats.
Requests(c) == SUBSET Allowed[c] \ {{}}

\* handleControl has authenticated client c and made the yamux session.
Establish(s, c, req) ==
  /\ Goto(s, "idle", "replace")
  /\ clientID' = [clientID EXCEPT ![s] = c]
  /\ todo' = [todo EXCEPT ![s] = req]
  /\ yam' = [yam EXCEPT ![s] = "open"]
  /\ UNCHANGED <<binding, mapVars, cancelled, lnVars, procVars>>

\* Faulty variants: the old session is forgotten; its listeners are closed
\* before its context is cancelled.
AfterReplaceForgets(s) == "listen"
AfterReplaceCloses(s) == IF sessions[clientID[s]] = None THEN "listen" ELSE "closeOld"

AfterReplace(s) == IF sessions[clientID[s]] = None THEN "listen" ELSE "cancelOld"

ReplaceSession(s) ==
  /\ Goto(s, "replace", AfterReplace(s))
  /\ mu = None
  /\ old' = [old EXCEPT ![s] = sessions[clientID[s]]]
  /\ sessions' = [sessions EXCEPT ![clientID[s]] = s]
  /\ UNCHANGED <<setupVars, mu, cancelled, lnVars, yam, procVars>>

\* Faulty variant: shutdown does not cancel the context.
ShutdownNoCancel(s) ==
  /\ Goto(s, "cancelOld", "closeOld")
  /\ UNCHANGED <<setupVars, mapVars, cancelled, lnVars, yam, procVars>>

\* old.shutdown(): ss.cancel()
ShutdownCancel(s) ==
  /\ Goto(s, "cancelOld", "closeOld")
  /\ cancelled' = [cancelled EXCEPT ![old[s]] = TRUE]
  /\ UNCHANGED <<setupVars, mapVars, lnVars, yam, procVars>>

\* Faulty variant: nothing is closed once the session has been replaced.
OpenIfCurrent(t) ==
  {svc \in listeners[t] : ln[t][svc] = "open" /\ sessions[clientID[t]] \in {t, None}}

\* The listeners in sess.listeners of t that nobody has begun to close.
OpenListeners(t) == {svc \in listeners[t] : ln[t][svc] = "open"}

\* Goroutine s calls Close on every listener in sess.listeners of t: it is the
\* first to close the open ones, and waits for those.
CloseListeners(s, t) ==
  /\ ln' = [ln EXCEPT ![t] = [svc \in Service |->
              IF svc \in OpenListeners(t) THEN "closing" ELSE ln[t][svc]]]
  /\ closing' = [closing EXCEPT ![s] = OpenListeners(t)]
  /\ UNCHANGED listeners

CloseReturned(s, t) ==
  /\ \A svc \in closing[s] : ln[t][svc] = "closed"
  /\ closing' = [closing EXCEPT ![s] = {}]
  /\ UNCHANGED <<ln, listeners>>

\* for _, ln := range ss.listeners { ln.Close() }, without s.mu: the slice is
\* read as it is now, and what the old session appends later is not closed here.
ShutdownListeners(s) ==
  /\ Goto(s, "closeOld", "closingOld")
  /\ CloseListeners(s, old[s])
  /\ UNCHANGED <<setupVars, mapVars, cancelled, yam, procVars>>

\* The same read while the old session is inside its append.  An append in place
\* stores the new length before the new element, so the reader may see a nil
\* listener, and calling Close on it ends the process.
ShutdownPanics(s) ==
  /\ pc[s] = "closeOld"
  /\ pc[old[s]] = "append"
  /\ panicked' = TRUE
  /\ UNCHANGED <<pc, setupVars, mapVars, cancelled, lnVars, yam, stopped>>

ShutdownListenersClosed(s) ==
  /\ Goto(s, "closingOld", "yamOld")
  /\ CloseReturned(s, old[s])
  /\ UNCHANGED <<setupVars, mapVars, cancelled, yam, procVars>>

\* The first Close of the yamux session of t begins.
BeginYamClose(t) ==
  /\ yam[t] = "open"
  /\ yam' = [yam EXCEPT ![t] = "closing"]
  /\ UNCHANGED <<pc, setupVars, mapVars, cancelled, lnVars, procVars>>

ShutdownYam(s) == pc[s] = "yamOld" /\ BeginYamClose(old[s])

\* Faulty variant: shutdown returns without waiting for yam.Close.
ShutdownReturnsEarly(s) ==
  /\ Goto(s, "yamOld", "listen")
  /\ UNCHANGED <<setupVars, mapVars, cancelled, lnVars, yam, procVars>>

ShutdownReturns(s) ==
  /\ Goto(s, "yamOld", "listen")
  /\ yam[old[s]] = "closed"
  /\ UNCHANGED <<setupVars, mapVars, cancelled, lnVars, yam, procVars>>

-----------------------------------------------------------------------------
(* The listen loop.                                                        *)

\* Something holds the address of service svc of client c.  Validate rejects
\* two services with one listen address, so an address is a pair <<c, svc>>.
Taken(c, svc) ==
  \/ <<c, svc>> \in Occupied
  \/ \E t \in Session : clientID[t] = c /\ ln[t][svc] \in {"open", "closing"}

Listen(s) ==
  /\ Goto(s, "listen", "append")
  /\ \E svc \in todo[s] :
       /\ ~Taken(clientID[s], svc)
       /\ ln' = [ln EXCEPT ![s][svc] = "open"]
       /\ todo' = [todo EXCEPT ![s] = @ \ {svc}]
       /\ binding' = [binding EXCEPT ![s] = svc]
  /\ UNCHANGED <<clientID, mapVars, cancelled, listeners, closing, yam, procVars>>

\* Faulty variant: removeSession is deferred only after the listen loop.
ListenFailsUndeferred(s) ==
  /\ Goto(s, "listen", "yamClose")
  /\ \E svc \in todo[s] : Taken(clientID[s], svc)
  /\ UNCHANGED <<setupVars, mapVars, cancelled, lnVars, yam, procVars>>

\* net.Listen returns an error: return, that is, run the deferred calls.
ListenFails(s) ==
  /\ Goto(s, "listen", "remove")
  /\ \E svc \in todo[s] : Taken(clientID[s], svc)
  /\ UNCHANGED <<setupVars, mapVars, cancelled, lnVars, yam, procVars>>

\* Faulty variant: ln is reset before it is appended.
AppendAfterReset(s) ==
  /\ Goto(s, "append", "listen")
  /\ binding' = [binding EXCEPT ![s] = None]
  /\ listeners' = [listeners EXCEPT ![s] = @ \cup {binding'[s]}]
  /\ UNCHANGED <<clientID, todo, mapVars, cancelled, ln, closing, yam, procVars>>

\* append to sess.listeners, then start acceptUsers and its watcher.
AppendListener(s) ==
  /\ Goto(s, "append", "listen")
  /\ listeners' = [listeners EXCEPT ![s] = @ \cup {binding[s]}]
  /\ binding' = [binding EXCEPT ![s] = None]
  /\ UNCHANGED <<clientID, todo, mapVars, cancelled, ln, closing, yam, procVars>>

SetupDone(s) ==
  /\ Goto(s, "listen", "wait")
  /\ todo[s] = {}
  /\ UNCHANGED <<setupVars, mapVars, cancelled, lnVars, yam, procVars>>

\* <-yam.CloseChan()
SessionClosed(s) ==
  /\ Goto(s, "wait", "remove")
  /\ yam[s] # "open"
  /\ UNCHANGED <<setupVars, mapVars, cancelled, lnVars, yam, procVars>>

-----------------------------------------------------------------------------
(* The deferred calls: removeSession, yam.Close, cancel.                   *)

\* Faulty variant: delete whatever session is registered for the client.
UnregisteredAlways(s) == [sessions EXCEPT ![clientID[s]] = None]

\* The map after removeSession: only the session's own entry is deleted.
Unregistered(s) ==
  IF sessions[clientID[s]] = s THEN [sessions EXCEPT ![clientID[s]] = None] ELSE sessions

\* s.mu is held while the listeners are closed.
RemoveSession(s) ==
  /\ Goto(s, "remove", "removing")
  /\ mu = None
  /\ mu' = s
  /\ sessions' = Unregistered(s)
  /\ CloseListeners(s, s)
  /\ UNCHANGED <<setupVars, old, cancelled, yam, procVars>>

\* Faulty variant: s.mu is not unlocked.
RemoveKeepsLock(s) ==
  /\ Goto(s, "removing", "yamClose")
  /\ CloseReturned(s, s)
  /\ UNCHANGED <<setupVars, mapVars, cancelled, yam, procVars>>

RemoveReturns(s) ==
  /\ Goto(s, "removing", "yamClose")
  /\ CloseReturned(s, s)
  /\ mu' = None
  /\ UNCHANGED <<setupVars, old, sessions, cancelled, yam, procVars>>

DeferredYamClose(s) == pc[s] = "yamClose" /\ BeginYamClose(s)

DeferredYamReturns(s) ==
  /\ Goto(s, "yamClose", "cancel")
  /\ yam[s] = "closed"
  /\ UNCHANGED <<setupVars, mapVars, cancelled, lnVars, yam, procVars>>

DeferredCancel(s) ==
  /\ Goto(s, "cancel", "done")
  /\ cancelled' = [cancelled EXCEPT ![s] = TRUE]
  /\ UNCHANGED <<setupVars, mapVars, lnVars, yam, procVars>>

-----------------------------------------------------------------------------
(* Steps of other goroutines and of the environment.                       *)

\* Faulty variant: sessCtx is not derived from the server's context.
OwnContextDone(s) == cancelled[s]

ContextDone(s) == cancelled[s] \/ stopped

\* acceptUsers: <-ctx.Done(); ln.Close()
WatcherCloses(s, svc) ==
  /\ ContextDone(s)
  /\ svc \in OpenListeners(s)
  /\ ln' = [ln EXCEPT ![s][svc] = "closing"]
  /\ UNCHANGED <<pc, setupVars, mapVars, cancelled, listeners, closing, yam, procVars>>

\* The goroutine in Accept lets go of the descriptor.
ListenerReleased(s, svc) ==
  /\ ln[s][svc] = "closing"
  /\ ln' = [ln EXCEPT ![s][svc] = "closed"]
  /\ UNCHANGED <<pc, setupVars, mapVars, cancelled, listeners, closing, yam, procVars>>

YamClosed(s) ==
  /\ yam[s] = "closing"
  /\ yam' = [yam EXCEPT ![s] = "closed"]
  /\ UNCHANGED <<pc, setupVars, mapVars, cancelled, lnVars, procVars>>

\* The peer closed the connection, it broke, or a keep-alive got no answer.
YamFails(s) == BeginYamClose(s)

\* The context passed to Run is cancelled (SIGINT or SIGTERM).
Stop ==
  /\ ~stopped
  /\ stopped' = TRUE
  /\ UNCHANGED <<pc, setupVars, mapVars, cancelled, lnVars, yam, panicked>>

-----------------------------------------------------------------------------
\* One step of the goroutine that runs runSession for s.
RunSession(s) ==
  \/ ReplaceSession(s)
  \/ ShutdownCancel(s) \/ ShutdownListeners(s) \/ ShutdownPanics(s)
  \/ ShutdownListenersClosed(s) \/ ShutdownYam(s) \/ ShutdownReturns(s)
  \/ Listen(s) \/ ListenFails(s) \/ AppendListener(s) \/ SetupDone(s)
  \/ SessionClosed(s)
  \/ RemoveSession(s) \/ RemoveReturns(s)
  \/ DeferredYamClose(s) \/ DeferredYamReturns(s) \/ DeferredCancel(s)

\* One step of some goroutine of the server process.
Server ==
  \E s \in Session :
    \/ RunSession(s)
    \/ \E svc \in Service : WatcherCloses(s, svc) \/ ListenerReleased(s, svc)
    \/ YamClosed(s)

Environment ==
  \/ \E s \in Session, c \in Client : \E req \in Requests(c) : Establish(s, c, req)
  \/ \E s \in Session : YamFails(s)
  \/ Stop

Next == ~panicked /\ (Server \/ Environment)

\* The process does not idle while one of its goroutines can run.  That is all
\* the liveness properties need: a session takes finitely many steps, so none
\* can be passed over for ever.  Nobody has to connect, disconnect or stop.
Fairness == WF_vars(~panicked /\ Server)

SafeSpec == Init /\ [][Next]_vars

Spec == SafeSpec /\ Fairness

-----------------------------------------------------------------------------
(* Safety.                                                                 *)

\* The map s.sessions names exactly the sessions that have registered, have not
\* been replaced and have not removed themselves: a session that is torn down
\* late never deletes the entry of the session that replaced it.
RegistryExact ==
  \A s \in Session :
    (pc[s] \in Registered /\ ~Superseded(s))
      <=> \E c \in Client : sessions[c] = s /\ clientID[s] = c

\* A session binds its addresses only after the session it replaced is
\* cancelled and its yamux connection and streams are closed.
PredecessorDead ==
  \A s \in Session :
    (old[s] # None /\ pc[s] \notin ShuttingDown)
      => cancelled[old[s]] /\ yam[old[s]] = "closed"

\* Two sessions of one client can both be up with a working connection only
\* while some session is still shutting one of the two down.
OverlapOnlyInShutdown ==
  \A s, t \in Session :
    ( /\ s # t
      /\ clientID[s] = clientID[t]
      /\ pc[s] \in Setup \cup {"wait"} /\ yam[s] = "open"
      /\ pc[t] \in Setup \cup {"wait"} /\ yam[t] = "open" )
    => \E u \in Session : pc[u] \in ShuttingDown /\ old[u] \in {s, t}

\* An open listener belongs to the client's registered session, or to one that
\* is cancelled or whose replacement is about to cancel it: no address stays
\* bound by a session nobody would ever close.
AddressAccounted ==
  \A s \in Session, svc \in Service :
    ln[s][svc] = "open" =>
      \/ sessions[clientID[s]] = s
      \/ cancelled[s]
      \/ \E u \in Session : old[u] = s /\ pc[u] = "cancelOld"

\* Once removeSession has run, none of the session's listeners is open, also
\* the ones bound after another session's shutdown had read sess.listeners.
NoOrphanListener ==
  \A s \in Session, svc \in Service : pc[s] \in Teardown => ln[s][svc] # "open"

\* Until a session is cancelled, the server is stopped, or the session removes
\* itself, every listener it has appended stays open: tearing another session
\* of the client down never closes them.
LiveListenersStay ==
  \A s \in Session :
    (pc[s] \in Registered /\ ~ContextDone(s))
      => \A svc \in listeners[s] : ln[s][svc] = "open"

-----------------------------------------------------------------------------
(* The abstract specification these goroutines implement.                  *)

RegistryStatus ==
  [s \in Session |->
     IF panicked \/ pc[s] \in Teardown THEN "ended"
     ELSE IF pc[s] = "idle" THEN "absent"
     ELSE IF pc[s] = "replace" THEN "pending"
     ELSE IF Superseded(s) THEN "superseded"
     ELSE "current"]

Registry == INSTANCE SessionRegistry WITH status <- RegistryStatus, owner <- clientID

\* The locked map, the shutdown call and the deferred removal together behave
\* as the one-step hand-over of SessionRegistry.
ImplementsRegistry == Registry!RegistrySpec

-----------------------------------------------------------------------------
(* Liveness.  Sessions are finitely many and never start over, so "for ever *)
(* from some point on" says of each of them that it gets there.            *)

\* A replaced session finishes its deferred calls, whatever point of its own
\* set-up the replacement found it at.
SupersededEnds ==
  <>[](panicked \/ \A s \in Session : Superseded(s) => pc[s] = "done")

\* A session that enters runSession ends up waiting on its connection or done:
\* neither s.mu nor a chain of shutdowns blocks it for ever.
SetupTerminates ==
  <>[](panicked \/ \A s \in Session : pc[s] \in {"idle", "wait", "done"})

\* A session that ended, after its connection closed or because only some of
\* its listeners could be opened, leaves no address bound and no map entry.
EndLeavesNoTrace ==
  <>[](panicked \/ \A s \in Session :
         pc[s] = "done" =>
           /\ \A c \in Client : sessions[c] # s
           /\ \A svc \in Service : ln[s][svc] \in {"none", "closed"})

\* Stopping the server frees every address, also under sessions whose clients
\* stay connected: runSession itself does not watch the context.
StopFreesAddresses ==
  <>[](panicked \/ (stopped => \A s \in Session, svc \in Service :
                                  ln[s][svc] \in {"none", "closed"}))

=============================================================================
