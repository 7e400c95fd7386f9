---------------------------- MODULE ControlPlane ----------------------------
(***************************************************************************)
(* The control plane of the tunnel server: the accept loop with its         *)
(* connection semaphore, one handshake goroutine per accepted connection,   *)
(* one monitor goroutine per established session, Shutdown, and the two     *)
(* registries they share (internal/server/server.go, registry.go and        *)
(* user_sessions.go).                                                       *)
(*                                                                          *)
(* A step is a stretch of one goroutine that touches shared state once: a   *)
(* call on a registry (each is one critical section of an RWMutex), a       *)
(* semaphore or WaitGroup operation, a session close, or a blocking read    *)
(* from the client.  Blocking reads have a deadline in the code, so each    *)
(* reading step may succeed or fail at any moment.                          *)
(***************************************************************************)
EXTENDS Integers, FiniteSets

CONSTANTS
    Session,         \* the client connections of a behaviour, each dialled once
    User,            \* rows of the users table
    Domain,          \* host names that exist in the domains table
    Owner,           \* the user each domain belongs to (domains never move)
    Request,         \* the sets of names clients ask for; {} asks for all
    ForceFlag,       \* the values of AuthRequest.Force clients send
    MaxConnections,  \* capacity of connSem, 0 means no semaphore
    NoSession, NoUser

ASSUME SessionAssumption == IsFiniteSet(Session)
ASSUME OwnerAssumption   == Owner \in [Domain -> User]
ASSUME RequestAssumption == Request \subseteq SUBSET Domain
ASSUME ForceAssumption   == ForceFlag \subseteq BOOLEAN
ASSUME LimitAssumption   == MaxConnections \in Nat
ASSUME SentinelAssumption == NoSession \notin Session /\ NoUser \notin User

VARIABLES
    loop,          \* where Start's accept loop stands
    accepting,     \* the connection Accept returned and the loop still holds
    ctxDone,       \* s.ctx is cancelled
    listening,     \* the listener is open
    shutdown,      \* where Shutdown stands
    slots,         \* occupied places of connSem
    wg,            \* counter of the WaitGroup
    pc,            \* where the handshake goroutine of a connection stands
    yamux,         \* the connection's yamux session
    user,          \* user the token of the connection belongs to
    force,         \* AuthRequest.Force of the connection
    old,           \* existingSession, as read from the user registry
    todo,          \* names the goroutine's current loop has still to visit
    bound,         \* boundDomains
    mon,           \* where the monitor goroutine of a session stands
    reply,         \* the InitResponse that reached the client
    routes,        \* TunnelRegistry.sessions
    userSessions,  \* UserSessionRegistry.sessions
    activeTunnels  \* the ActiveTunnels gauge

acceptVars == <<loop, accepting, ctxDone, listening, shutdown, slots, wg>>
shakeVars  == <<user, force, old, todo, bound>>
tableVars  == <<routes, userSessions, activeTunnels>>
vars == <<acceptVars, pc, yamux, shakeVars, mon, reply, tableVars>>

LoopState     == {"check", "accept", "slot", "returned"}
ShutdownState == {"running", "cancelled", "waiting", "graceful", "timedOut"}
Running == {"setup", "authenticate", "checkUser", "evictDomains", "evictSession",
            "evictUser", "request", "bind", "register", "respond", "exit"}
Evicting     == {"evictDomains", "evictSession", "evictUser"}
Unregistered == {"request", "bind", "register"}
HandlerState == Running \union {"idle", "backlog", "accepted", "refused", "done"}
MonitorState == {"none", "waiting", "unroute", "unregister", "ended"}
Reply == {"none", "invalid_token", "already_connected", "error", "success"}

Owned(u) == {d \in Domain : Owner[d] = u}

Init ==
    /\ loop = "check"
    /\ accepting = NoSession
    /\ ctxDone = FALSE
    /\ listening = TRUE
    /\ shutdown = "running"
    /\ slots = 0
    /\ wg = 0
    /\ pc = [s \in Session |-> "idle"]
    /\ yamux = [s \in Session |-> "none"]
    /\ user = [s \in Session |-> NoUser]
    /\ force = [s \in Session |-> FALSE]
    /\ old = [s \in Session |-> NoSession]
    /\ todo = [s \in Session |-> {}]
    /\ bound = [s \in Session |-> {}]
    /\ mon = [s \in Session |-> "none"]
    /\ reply = [s \in Session |-> "none"]
    /\ routes = [d \in Domain |-> NoSession]
    /\ userSessions = [u \in User |-> NoSession]
    /\ activeTunnels = 0

-----------------------------------------------------------------------------
(* Environment: clients dial, and a session dies whenever the client or the *)
(* network ends it.                                                         *)

Dial(s) ==
    /\ pc[s] = "idle"
    /\ listening
    /\ pc' = [pc EXCEPT ![s] = "backlog"]
    /\ UNCHANGED <<acceptVars, yamux, shakeVars, mon, reply, tableVars>>

PeerCloses(s) ==
    /\ yamux[s] = "open"
    /\ yamux' = [yamux EXCEPT ![s] = "closed"]
    /\ UNCHANGED <<acceptVars, pc, shakeVars, mon, reply, tableVars>>

-----------------------------------------------------------------------------
(* Start: the accept loop.                                                  *)

LoopTop ==
    /\ loop = "check"
    /\ loop' = IF ctxDone THEN "returned" ELSE "accept"
    /\ UNCHANGED <<accepting, ctxDone, listening, shutdown, slots, wg,
                   pc, yamux, shakeVars, mon, reply, tableVars>>

Accept(s) ==
    /\ loop = "accept"
    /\ listening
    /\ pc[s] = "backlog"
    /\ pc' = [pc EXCEPT ![s] = "accepted"]
    /\ accepting' = s
    /\ loop' = "slot"
    /\ UNCHANGED <<ctxDone, listening, shutdown, slots, wg,
                   yamux, shakeVars, mon, reply, tableVars>>

\* Accept on the closed listener; ctx was cancelled before it was closed.
AcceptClosed ==
    /\ loop = "accept"
    /\ ~listening
    /\ loop' = "returned"
    /\ UNCHANGED <<accepting, ctxDone, listening, shutdown, slots, wg,
                   pc, yamux, shakeVars, mon, reply, tableVars>>

\* Accept fails on the open listener: a timeout goes back to the top of the
\* loop, any other error ends Start, and so does either once ctx is done.
AcceptError ==
    /\ loop = "accept"
    /\ listening
    /\ loop' \in IF ctxDone THEN {"returned"} ELSE {"check", "returned"}
    /\ UNCHANGED <<accepting, ctxDone, listening, shutdown, slots, wg,
                   pc, yamux, shakeVars, mon, reply, tableVars>>

SlotFree == MaxConnections = 0 \/ slots < MaxConnections

\* Got a slot (or there is no semaphore): wg.Add(1) and start the goroutine.
Spawn ==
    /\ loop = "slot"
    /\ SlotFree
    /\ slots' = IF MaxConnections > 0 THEN slots + 1 ELSE slots
    /\ wg' = wg + 1
    /\ pc' = [pc EXCEPT ![accepting] = "setup"]
    /\ accepting' = NoSession
    /\ loop' = "check"
    /\ UNCHANGED <<ctxDone, listening, shutdown,
                   yamux, shakeVars, mon, reply, tableVars>>

\* The other branch of the select: only there when a semaphore exists.
SlotCancelled ==
    /\ loop = "slot"
    /\ MaxConnections > 0
    /\ ctxDone
    /\ pc' = [pc EXCEPT ![accepting] = "refused"]
    /\ accepting' = NoSession
    /\ loop' = "returned"
    /\ UNCHANGED <<ctxDone, listening, shutdown, slots, wg,
                   yamux, shakeVars, mon, reply, tableVars>>

AcceptLoop == LoopTop \/ AcceptClosed \/ Spawn \/ SlotCancelled
                \/ \E s \in Session : Accept(s)

-----------------------------------------------------------------------------
(* handleConnection: the handshake of one connection.                       *)

\* The InitResponse m is written to a stream of a session that may be gone.
Send(s, m) == reply' = [reply EXCEPT ![s] = IF yamux[s] = "open" THEN m ELSE @]

\* session.Close() and return, after sending m ("none": nothing is sent).
Abort(s, m) ==
    /\ Send(s, m)
    /\ yamux' = [yamux EXCEPT ![s] = "closed"]
    /\ pc' = [pc EXCEPT ![s] = "exit"]
    /\ todo' = [todo EXCEPT ![s] = {}]

SetupYamuxSession(s) ==
    /\ pc[s] = "setup"
    /\ \/ /\ yamux' = [yamux EXCEPT ![s] = "open"]
          /\ pc' = [pc EXCEPT ![s] = "authenticate"]
       \/ /\ yamux' = [yamux EXCEPT ![s] = "closed"]
          /\ pc' = [pc EXCEPT ![s] = "exit"]
    /\ UNCHANGED <<acceptVars, shakeVars, mon, reply, tableVars>>

Authenticate(s) ==
    /\ pc[s] = "authenticate"
    /\ \/ \E u \in User, f \in ForceFlag :
             /\ user' = [user EXCEPT ![s] = u]
             /\ force' = [force EXCEPT ![s] = f]
             /\ pc' = [pc EXCEPT ![s] = "checkUser"]
             /\ UNCHANGED <<yamux, reply, todo>>
       \/ \E m \in {"none", "invalid_token"} :
             Abort(s, m) /\ UNCHANGED <<user, force>>
    /\ UNCHANGED <<acceptVars, old, bound, mon, tableVars>>

\* Mutation: no check for an existing session.
CheckUserSkipped(s) ==
    /\ pc[s] = "checkUser"
    /\ pc' = [pc EXCEPT ![s] = "request"]
    /\ UNCHANGED <<acceptVars, yamux, shakeVars, mon, reply, tableVars>>

\* UserSessions.GetSession: the check that the later Register relies on.
\* The flag is not read again, so it is forgotten here.
CheckUser(s) ==
    LET existing == userSessions[user[s]] IN
    /\ pc[s] = "checkUser"
    /\ \/ /\ existing = NoSession
          /\ pc' = [pc EXCEPT ![s] = "request"]
          /\ UNCHANGED <<yamux, reply, old, todo>>
       \/ /\ existing # NoSession
          /\ ~force[s]
          /\ Abort(s, "already_connected")
          /\ UNCHANGED old
       \/ /\ existing # NoSession
          /\ force[s]
          /\ old' = [old EXCEPT ![s] = existing]
          /\ todo' = [todo EXCEPT ![s] = bound[existing]]
          /\ pc' = [pc EXCEPT ![s] = "evictDomains"]
          /\ UNCHANGED <<yamux, reply>>
    /\ force' = [force EXCEPT ![s] = FALSE]
    /\ UNCHANGED <<acceptVars, user, bound, mon, tableVars>>

\* Registry.Unregister of one domain of the existing session, by name.
EvictDomain(s, d) ==
    /\ pc[s] = "evictDomains"
    /\ d \in todo[s]
    /\ routes' = [routes EXCEPT ![d] = NoSession]
    /\ todo' = [todo EXCEPT ![s] = @ \ {d}]
    /\ pc' = [pc EXCEPT ![s] = IF todo'[s] = {} THEN "evictSession" ELSE @]
    /\ UNCHANGED <<acceptVars, yamux, user, force, old, bound, mon, reply,
                   userSessions, activeTunnels>>

EvictSession(s) ==
    /\ pc[s] = "evictSession"
    /\ yamux' = [yamux EXCEPT ![old[s]] = "closed"]
    /\ pc' = [pc EXCEPT ![s] = "evictUser"]
    /\ UNCHANGED <<acceptVars, shakeVars, mon, reply, tableVars>>

\* Mutation: the takeover also reports the old tunnel as disconnected.
EvictUserCounted(s) ==
    /\ pc[s] = "evictUser"
    /\ userSessions' = [userSessions EXCEPT ![user[s]] = NoSession]
    /\ activeTunnels' = activeTunnels - 1
    /\ old' = [old EXCEPT ![s] = NoSession]
    /\ pc' = [pc EXCEPT ![s] = "request"]
    /\ UNCHANGED <<acceptVars, yamux, user, force, todo, bound, mon, reply, routes>>

EvictUser(s) ==
    /\ pc[s] = "evictUser"
    /\ userSessions' = [userSessions EXCEPT ![user[s]] = NoSession]
    /\ old' = [old EXCEPT ![s] = NoSession]
    /\ pc' = [pc EXCEPT ![s] = "request"]
    /\ UNCHANGED <<acceptVars, yamux, user, force, todo, bound, mon, reply,
                   routes, activeTunnels>>

\* processTunnelRequest up to bindDomains: no names means all of the user's.
ProcessTunnelRequest(s) ==
    /\ pc[s] = "request"
    /\ \/ \E req \in Request :
             /\ todo' = [todo EXCEPT ![s] = IF req = {} THEN Owned(user[s]) ELSE req]
             /\ pc' = [pc EXCEPT ![s] = "bind"]
             /\ UNCHANGED <<yamux, reply>>
       \/ \E m \in {"none", "error"} : Abort(s, m)
    /\ UNCHANGED <<acceptVars, user, force, old, bound, mon, tableVars>>

\* Mutation: the ownership check is missing.
BindDomainUnchecked(s, d) ==
    /\ pc[s] = "bind"
    /\ d \in todo[s]
    /\ todo' = [todo EXCEPT ![s] = @ \ {d}]
    /\ routes' = [routes EXCEPT ![d] = s]
    /\ bound' = [bound EXCEPT ![s] = @ \union {d}]
    /\ UNCHANGED <<acceptVars, pc, yamux, user, force, old, mon, reply,
                   userSessions, activeTunnels>>

\* One round of bindDomains: a name is bound for its owner only, and is
\* skipped when the ownership query fails.
BindDomain(s, d) ==
    /\ pc[s] = "bind"
    /\ d \in todo[s]
    /\ todo' = [todo EXCEPT ![s] = @ \ {d}]
    /\ \/ /\ Owner[d] = user[s]
          /\ routes' = [routes EXCEPT ![d] = s]
          /\ bound' = [bound EXCEPT ![s] = @ \union {d}]
       \/ UNCHANGED <<routes, bound>>
    /\ UNCHANGED <<acceptVars, pc, yamux, user, force, old, mon, reply,
                   userSessions, activeTunnels>>

BindDone(s) ==
    /\ pc[s] = "bind"
    /\ todo[s] = {}
    /\ \/ /\ bound[s] = {}
          /\ Abort(s, "error")
       \/ /\ bound[s] # {}
          /\ pc' = [pc EXCEPT ![s] = "register"]
          /\ UNCHANGED <<yamux, reply, todo>>
    /\ UNCHANGED <<acceptVars, user, force, old, bound, mon, tableVars>>

\* Mutation: TunnelConnected is forgotten.
RegisterUserUncounted(s) ==
    /\ pc[s] = "register"
    /\ userSessions' = [userSessions EXCEPT ![user[s]] = s]
    /\ pc' = [pc EXCEPT ![s] = "respond"]
    /\ UNCHANGED <<acceptVars, yamux, shakeVars, mon, reply, routes, activeTunnels>>

\* UserSessions.Register (its result, the session it replaces, is dropped)
\* and TunnelConnected.
RegisterUser(s) ==
    /\ pc[s] = "register"
    /\ userSessions' = [userSessions EXCEPT ![user[s]] = s]
    /\ activeTunnels' = activeTunnels + 1
    /\ pc' = [pc EXCEPT ![s] = "respond"]
    /\ UNCHANGED <<acceptVars, yamux, shakeVars, mon, reply, routes>>

\* Mutation: return when the response cannot be sent, before the monitor starts.
RespondOrReturn(s) ==
    /\ pc[s] = "respond"
    /\ Send(s, "success")
    /\ mon' = [mon EXCEPT ![s] = IF yamux[s] = "open" THEN "waiting" ELSE @]
    /\ pc' = [pc EXCEPT ![s] = "exit"]
    /\ UNCHANGED <<acceptVars, yamux, shakeVars, tableVars>>

\* sendSuccessResponse, whose error is only logged, then monitorSession.
Respond(s) ==
    /\ pc[s] = "respond"
    /\ Send(s, "success")
    /\ mon' = [mon EXCEPT ![s] = "waiting"]
    /\ pc' = [pc EXCEPT ![s] = "exit"]
    /\ UNCHANGED <<acceptVars, yamux, shakeVars, tableVars>>

\* Mutation: the slot is never given back.
HandlerExitKeepsSlot(s) ==
    /\ pc[s] = "exit"
    /\ wg' = wg - 1
    /\ pc' = [pc EXCEPT ![s] = "done"]
    /\ UNCHANGED <<loop, accepting, ctxDone, listening, shutdown, slots,
                   yamux, shakeVars, mon, reply, tableVars>>

\* The deferred functions of the goroutine: free the slot, wg.Done.
HandlerExit(s) ==
    /\ pc[s] = "exit"
    /\ slots' = IF MaxConnections > 0 THEN slots - 1 ELSE slots
    /\ wg' = wg - 1
    /\ pc' = [pc EXCEPT ![s] = "done"]
    /\ UNCHANGED <<loop, accepting, ctxDone, listening, shutdown,
                   yamux, shakeVars, mon, reply, tableVars>>

Handshake(s) ==
    \/ SetupYamuxSession(s) \/ Authenticate(s) \/ CheckUser(s)
    \/ (\E d \in Domain : EvictDomain(s, d)) \/ EvictSession(s) \/ EvictUser(s)
    \/ ProcessTunnelRequest(s)
    \/ (\E d \in Domain : BindDomain(s, d)) \/ BindDone(s)
    \/ RegisterUser(s) \/ Respond(s) \/ HandlerExit(s)

-----------------------------------------------------------------------------
(* monitorSession: the goroutine that cleans up after a closed session.     *)

\* Mutation: the user is freed before the domains are.
MonitorWakesUserFirst(s) ==
    /\ mon[s] = "waiting"
    /\ yamux[s] = "closed"
    /\ mon' = [mon EXCEPT ![s] = "unroute"]
    /\ todo' = [todo EXCEPT ![s] = bound[s]]
    /\ userSessions' = [userSessions EXCEPT ![user[s]] = NoSession]
    /\ UNCHANGED <<acceptVars, pc, yamux, user, force, old, bound, reply,
                   routes, activeTunnels>>

MonitorWakes(s) ==
    /\ mon[s] = "waiting"
    /\ yamux[s] = "closed"
    /\ mon' = [mon EXCEPT ![s] = "unroute"]
    /\ todo' = [todo EXCEPT ![s] = bound[s]]
    /\ UNCHANGED <<acceptVars, pc, yamux, user, force, old, bound, reply, tableVars>>

MonitorUnroute(s, d) ==
    /\ mon[s] = "unroute"
    /\ d \in todo[s]
    /\ routes' = [routes EXCEPT ![d] = NoSession]
    /\ todo' = [todo EXCEPT ![s] = @ \ {d}]
    /\ mon' = [mon EXCEPT ![s] = IF todo'[s] = {} THEN "unregister" ELSE @]
    /\ UNCHANGED <<acceptVars, pc, yamux, user, force, old, bound, reply,
                   userSessions, activeTunnels>>

\* Mutation: the user entry is left behind.
MonitorUnregisterNothing(s) ==
    /\ mon[s] = "unregister"
    /\ activeTunnels' = activeTunnels - 1
    /\ mon' = [mon EXCEPT ![s] = "ended"]
    /\ UNCHANGED <<acceptVars, pc, yamux, shakeVars, reply, routes, userSessions>>

MonitorUnregister(s) ==
    /\ mon[s] = "unregister"
    /\ userSessions' = [userSessions EXCEPT ![user[s]] = NoSession]
    /\ activeTunnels' = activeTunnels - 1
    /\ mon' = [mon EXCEPT ![s] = "ended"]
    /\ UNCHANGED <<acceptVars, pc, yamux, shakeVars, reply, routes>>

Monitor(s) == MonitorWakes(s) \/ (\E d \in Domain : MonitorUnroute(s, d))
                \/ MonitorUnregister(s)

-----------------------------------------------------------------------------
(* Shutdown, called once by main on a signal or when Start has failed.      *)

ShutdownCancel ==
    /\ shutdown = "running"
    /\ ctxDone' = TRUE
    /\ shutdown' = "cancelled"
    /\ UNCHANGED <<loop, accepting, listening, slots, wg,
                   pc, yamux, shakeVars, mon, reply, tableVars>>

\* Mutation: the listener stays open.
ShutdownKeepsListening ==
    /\ shutdown = "cancelled"
    /\ shutdown' = "waiting"
    /\ UNCHANGED <<loop, accepting, ctxDone, listening, slots, wg,
                   pc, yamux, shakeVars, mon, reply, tableVars>>

\* Connections still in the backlog are reset with the listener.
ShutdownCloseListener ==
    /\ shutdown = "cancelled"
    /\ listening' = FALSE
    /\ shutdown' = "waiting"
    /\ pc' = [s \in Session |-> IF pc[s] = "backlog" THEN "refused" ELSE pc[s]]
    /\ UNCHANGED <<loop, accepting, ctxDone, slots, wg,
                   yamux, shakeVars, mon, reply, tableVars>>

ShutdownReturns ==
    /\ shutdown = "waiting"
    /\ \/ wg = 0 /\ shutdown' = "graceful"
       \/ shutdown' = "timedOut"
    /\ UNCHANGED <<loop, accepting, ctxDone, listening, slots, wg,
                   pc, yamux, shakeVars, mon, reply, tableVars>>

Shutdown == ShutdownCancel \/ ShutdownCloseListener \/ ShutdownReturns

-----------------------------------------------------------------------------
Next ==
    \/ AcceptLoop
    \/ AcceptError
    \/ Shutdown
    \/ \E s \in Session : Dial(s) \/ PeerCloses(s) \/ Handshake(s) \/ Monitor(s)

Spec == Init /\ [][Next]_vars

\* Every goroutine is scheduled, blocking reads end by their deadline, main
\* calls Shutdown when Start has failed, and Shutdown, once called, goes on.
\* Clients, the network and the signal owe nothing.
Fairness ==
    /\ WF_vars(AcceptLoop)
    /\ WF_vars(loop = "returned" /\ ShutdownCancel)
    /\ WF_vars(ShutdownCloseListener \/ ShutdownReturns)
    /\ \A s \in Session : WF_vars(Handshake(s)) /\ WF_vars(Monitor(s))

FairSpec == Spec /\ Fairness

-----------------------------------------------------------------------------
(* Properties.                                                              *)

TypeOK ==
    /\ loop \in LoopState
    /\ accepting \in Session \union {NoSession}
    /\ ctxDone \in BOOLEAN /\ listening \in BOOLEAN
    /\ shutdown \in ShutdownState
    /\ slots \in 0..MaxConnections /\ wg \in Nat /\ activeTunnels \in Nat
    /\ pc \in [Session -> HandlerState]
    /\ yamux \in [Session -> {"none", "open", "closed"}]
    /\ user \in [Session -> User \union {NoUser}]
    /\ force \in [Session -> BOOLEAN]
    /\ old \in [Session -> Session \union {NoSession}]
    /\ todo \in [Session -> SUBSET Domain]
    /\ bound \in [Session -> SUBSET Domain]
    /\ mon \in [Session -> MonitorState]
    /\ reply \in [Session -> Reply]
    /\ routes \in [Domain -> Session \union {NoSession}]
    /\ userSessions \in [User -> Session \union {NoSession}]

\* The goroutines of s will still take every route it holds to d away: its
\* handshake is on the way to starting the monitor, or the monitor has d to do.
WillUnroute(s, d) ==
    /\ d \in bound[s]
    /\ \/ pc[s] \in {"bind", "register", "respond"}
       \/ mon[s] = "waiting"
       \/ mon[s] = "unroute" /\ d \in todo[s]

\* Every route leads to a session whose goroutines will still remove it, so no
\* order of handshakes, takeovers and disconnects leaves a route to a dead
\* session behind for ever (the ingress would answer 502 for that host).
NoDanglingRoute ==
    \A d \in Domain, s \in Session : routes[d] = s => WillUnroute(s, d)

\* The same for the user registry: an entry nobody is going to remove would
\* lock its user out with "already_connected".
NoDanglingUser ==
    \A u \in User, s \in Session : userSessions[u] = s =>
        /\ user[s] = u
        /\ pc[s] = "respond" \/ mon[s] \in {"waiting", "unroute", "unregister"}

\* A host only ever leads to a session of the user who owns it, whatever names
\* clients ask for and whichever handshakes and takeovers race.
RoutesBelongToOwner ==
    \A d \in Domain, s \in Session : routes[d] = s => user[s] = Owner[d]

\* The goroutines of a user's connections are the only ones that change the
\* routes of the user's domains: a takeover never reaches another user.
TenantIsolation ==
    [][\A d \in Domain : routes'[d] # routes[d] =>
          \E s \in Session : user[s] = Owner[d] /\ todo'[s] # todo[s]]_vars

InFlight == {s \in Session : pc[s] \in Running}

\* The semaphore bounds the handshakes in progress, and a place is given back
\* on every way out of handleConnection.
HandshakeLimit ==
    MaxConnections > 0 => /\ Cardinality(InFlight) <= MaxConnections
                          /\ slots = Cardinality(InFlight)

\* A session the handshake has completed for and that is still open.
Established(s) == mon[s] = "waiting" /\ yamux[s] = "open"

\* No goroutine of the server is in the middle of anything.
Settled ==
    \A s \in Session :
        /\ pc[s] \notin Running
        /\ mon[s] \in {"none", "ended"} \/ Established(s)

\* When nothing is in progress the gauge counts exactly the open tunnels.
GaugeSettles ==
    Settled => activeTunnels = Cardinality({s \in Session : Established(s)})

\* "Only one active session per user is allowed."
OneActiveSession ==
    \A s, t \in Session :
        Established(s) /\ Established(t) /\ user[s] = user[t] => s = t

\* A takeover has read s in the user registry and is removing what it holds.
Replaced(s) == \E t \in Session : pc[t] \in Evicting /\ old[t] = s

\* An established session is the one its user is known by, and it receives the
\* traffic of every domain the server confirmed to its client, unless a
\* takeover is just taking them away.
EstablishedIsRouted ==
    \A s \in Session : Established(s) =>
        /\ userSessions[user[s]] = s
        /\ Replaced(s) \/ \A d \in bound[s] : routes[d] = s

\* The same when nothing is in progress: what a takeover ends up with.
SettledIsRouted == Settled => EstablishedIsRouted

\* What the server does not ensure and two properties above need.  Handshakes
\* of one user follow one another between CheckUser's look at the registry and
\* RegisterUser's write, however many the semaphore lets run;
Serial(u) ==
    \A s, t \in Session :
        /\ user[s] = u /\ user[t] = u
        /\ pc[s] \in Evicting \union Unregistered
        /\ pc[t] \in Evicting \union Unregistered
        => s = t

\* and a takeover lets its handshake go on only when the monitor of the session
\* it evicted is done, which removes entries by key.
Holding(s) == pc[s] = "respond" \/ mon[s] \in {"waiting", "unroute", "unregister"}

Patient(u) ==
    \A s \in Session : user[s] = u /\ EvictUser(s) =>
        \A t \in Session : user[t] = u => ~Holding(t)

\* The control plane implements the directory of RouteDirectory: a session is
\* known once authenticated and retired once no goroutine looks after it.
Retired(s) ==
    \/ mon[s] = "ended"
    \/ mon[s] = "none" /\ pc[s] \in {"exit", "done", "refused"}

Stage ==
    [s \in Session |-> IF Retired(s) THEN "retired"
                       ELSE IF user[s] = NoUser THEN "new" ELSE "known"]

Directory == INSTANCE RouteDirectory WITH stage <- Stage, who <- user

RefinesDirectory == Directory!Spec

\* A closed session disappears from both registries for good.
ClosedIsForgotten ==
    \A s \in Session :
        yamux[s] = "closed" ~>
            [](/\ \A d \in Domain : routes[d] # s
               /\ \A u \in User : userSessions[u] # s)

\* A connection Accept has returned is served to the end of its handshake, or
\* closed because the server stops; it is never left hanging.
AcceptedIsServed ==
    \A s \in Session : pc[s] = "accepted" ~> pc[s] \in {"done", "refused"}

\* A cancelled server leaves its accept loop, wherever the loop was waiting,
\* and Shutdown returns; a failed accept loop leads to the same end.
ShutdownCompletes ==
    (ctxDone \/ loop = "returned") ~>
        (loop = "returned" /\ shutdown \in {"graceful", "timedOut"})

=============================================================================
