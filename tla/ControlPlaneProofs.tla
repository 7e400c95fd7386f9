------------------------- MODULE ControlPlaneProofs -------------------------
(***************************************************************************)
(* Machine-checked safety of ControlPlane for every set of connections,     *)
(* users and domains, every pattern of requests and every limit.            *)
(***************************************************************************)
EXTENDS ControlPlane, FiniteSetTheorems, TLAPS

\* Domains of the variables; the ranges of the counters are proved later.
TypeInv ==
    /\ loop \in LoopState
    /\ accepting \in Session \union {NoSession}
    /\ ctxDone \in BOOLEAN /\ listening \in BOOLEAN
    /\ shutdown \in ShutdownState
    /\ slots \in Int /\ wg \in Int /\ activeTunnels \in Int
    /\ pc \in [Session -> HandlerState]
    /\ yamux \in [Session -> {"none", "open", "closed"}]
    /\ user \in [Session -> User \union {NoUser}]
    /\ force \in [Session -> BOOLEAN]
    /\ old \in [Session -> Session \union {NoSession}]
    /\ todo \in [Session -> SUBSET Domain]
    /\ bound \in [Session -> SUBSET Domain]
    /\ mon \in [Session -> MonitorState]
    /\ reply \in [Session -> Reply]
    /\ routes \in [Domain -> Session \union {NoSession}]
    /\ userSessions \in [User -> Session \union {NoSession}]

\* The loop holds a connection exactly while it waits for a slot, and that
\* connection has no goroutine yet.
AcceptInv ==
    /\ loop = "slot" => accepting \in Session /\ pc[accepting] = "accepted"
    /\ accepting # NoSession => loop = "slot"

Anonymous == {"idle", "backlog", "accepted", "refused", "setup", "authenticate"}

\* Where a connection can stand with which local state: the monitor starts
\* after the last step of the handshake, only a user's handshake binds, what a
\* takeover or a monitor removes belongs to the user, and a connection that
\* ends without a monitor has bound nothing.
LocalInv(s) ==
    /\ pc[s] \in Anonymous => user[s] = NoUser
    /\ pc[s] \in Running \ (Anonymous \union {"exit"}) => user[s] \in User
    /\ mon[s] # "none" => pc[s] \in {"exit", "done"} /\ user[s] \in User
    /\ bound[s] # {} => pc[s] \in {"bind", "register", "respond"} \/ mon[s] # "none"
    /\ \A d \in bound[s] : Owner[d] = user[s]
    /\ pc[s] \in {"evictDomains", "evictSession", "evictUser"} => old[s] \in Session
    /\ pc[s] = "evictDomains" => \A d \in todo[s] : Owner[d] = user[s]
    /\ mon[s] = "unroute" => todo[s] \subseteq bound[s]

Inv ==
    /\ TypeInv
    /\ AcceptInv
    /\ \A s \in Session : LocalInv(s)
    /\ NoDanglingRoute
    /\ NoDanglingUser

-----------------------------------------------------------------------------
(* The inductive step, one lemma per conjunct of the invariant.             *)

USE OwnerAssumption, RequestAssumption, ForceAssumption, LimitAssumption,
    SentinelAssumption
USE DEF LoopState, ShutdownState, Running, HandlerState, MonitorState, Reply,
    acceptVars, shakeVars, tableVars, Anonymous

\* A step keeps every variable in its domain.
LEMMA TypeStep == Inv /\ [Next]_vars => TypeInv'
<1> SUFFICES ASSUME Inv, [Next]_vars PROVE TypeInv'
  OBVIOUS
<1> USE DEF Inv
<1>1. CASE AcceptLoop
  <2>1. CASE LoopTop
    BY <2>1 DEF LoopTop, TypeInv, LocalInv
  <2>2. CASE AcceptClosed
    BY <2>2 DEF AcceptClosed, TypeInv, LocalInv
  <2>3. CASE Spawn
    BY <2>3 DEF Spawn, AcceptInv, TypeInv
  <2>4. CASE SlotCancelled
    BY <2>4 DEF SlotCancelled, TypeInv, LocalInv
  <2>5. ASSUME NEW s \in Session, Accept(s) PROVE TypeInv'
    BY <2>5 DEF Accept, TypeInv, LocalInv
  <2> QED BY <1>1, <2>1, <2>2, <2>3, <2>4, <2>5 DEF AcceptLoop
<1>2. CASE AcceptError
  BY <1>2 DEF AcceptError, TypeInv, LocalInv
<1>3. CASE Shutdown
  <2>1. CASE ShutdownCancel
    BY <2>1 DEF ShutdownCancel, TypeInv, LocalInv
  <2>2. CASE ShutdownCloseListener
    BY <2>2 DEF ShutdownCloseListener, TypeInv, LocalInv
  <2>3. CASE ShutdownReturns
    BY <2>3 DEF ShutdownReturns, TypeInv, LocalInv
  <2> QED BY <1>3, <2>1, <2>2, <2>3 DEF Shutdown
<1>4. ASSUME NEW s \in Session, Dial(s) PROVE TypeInv'
  BY <1>4 DEF Dial, TypeInv, LocalInv
<1>5. ASSUME NEW s \in Session, PeerCloses(s) PROVE TypeInv'
  BY <1>5 DEF PeerCloses, TypeInv, LocalInv
<1>6. ASSUME NEW s \in Session, Handshake(s) PROVE TypeInv'
  <2>1. CASE SetupYamuxSession(s)
    BY <2>1 DEF SetupYamuxSession, TypeInv, LocalInv
  <2>2. CASE Authenticate(s)
    <3>1. force' \in [Session -> BOOLEAN]
      <4>1. CASE UNCHANGED force
        BY <4>1 DEF TypeInv
      <4>2. ASSUME NEW f \in ForceFlag, force' = [force EXCEPT ![s] = f]
            PROVE  force' \in [Session -> BOOLEAN]
        <5>1. f \in BOOLEAN
          OBVIOUS
        <5> QED BY <4>2, <5>1, Zenon DEF TypeInv
      <4> QED BY <2>2, <4>1, <4>2 DEF Authenticate
    <3> QED BY <2>2, <3>1 DEF Authenticate, Abort, Send, TypeInv
  <2>3. CASE CheckUser(s)
    <3>1. userSessions[user[s]] \in Session \union {NoSession}
      BY <2>3 DEF CheckUser, TypeInv, LocalInv
    <3> QED BY <2>3, <3>1 DEF CheckUser, Abort, Send, TypeInv
  <2>4. ASSUME NEW d \in Domain, EvictDomain(s, d) PROVE TypeInv'
    BY <2>4 DEF EvictDomain, TypeInv, LocalInv
  <2>5. CASE EvictSession(s)
    BY <2>5 DEF EvictSession, TypeInv, LocalInv
  <2>6. CASE EvictUser(s)
    BY <2>6 DEF EvictUser, TypeInv, LocalInv
  <2>7. CASE ProcessTunnelRequest(s)
    BY <2>7 DEF ProcessTunnelRequest, Abort, Send, Owned, TypeInv, LocalInv
  <2>8. ASSUME NEW d \in Domain, BindDomain(s, d) PROVE TypeInv'
    <3>1. todo' \in [Session -> SUBSET Domain]
      BY <2>8 DEF BindDomain, TypeInv
    <3>2. /\ routes' \in [Domain -> Session \union {NoSession}]
          /\ bound' \in [Session -> SUBSET Domain]
      BY <2>8 DEF BindDomain, TypeInv
    <3>3. UNCHANGED <<acceptVars, pc, yamux, user, force, old, mon, reply, userSessions,
                      activeTunnels>>
      BY <2>8 DEF BindDomain
    <3> QED BY <3>1, <3>2, <3>3 DEF TypeInv
  <2>9. CASE BindDone(s)
    BY <2>9 DEF BindDone, Abort, Send, TypeInv
  <2>10. CASE RegisterUser(s)
    BY <2>10 DEF RegisterUser, TypeInv, LocalInv
  <2>11. CASE Respond(s)
    BY <2>11 DEF Respond, Send, TypeInv, LocalInv
  <2>12. CASE HandlerExit(s)
    BY <2>12 DEF HandlerExit, TypeInv, LocalInv
  <2> QED BY <1>6, <2>1, <2>2, <2>3, <2>4, <2>5, <2>6, <2>7, <2>8, <2>9, <2>10,
      <2>11, <2>12 DEF Handshake
<1>7. ASSUME NEW s \in Session, Monitor(s) PROVE TypeInv'
  <2>1. CASE MonitorWakes(s)
    BY <2>1 DEF MonitorWakes, TypeInv, LocalInv
  <2>2. ASSUME NEW d \in Domain, MonitorUnroute(s, d) PROVE TypeInv'
    BY <2>2 DEF MonitorUnroute, TypeInv, LocalInv
  <2>3. CASE MonitorUnregister(s)
    BY <2>3 DEF MonitorUnregister, TypeInv, LocalInv
  <2> QED BY <1>7, <2>1, <2>2, <2>3 DEF Monitor
<1>8. CASE UNCHANGED vars
  BY <1>8 DEF vars, TypeInv, LocalInv
<1> QED BY <1>1, <1>2, <1>3, <1>4, <1>5, <1>6, <1>7, <1>8 DEF Next

\* A step keeps the loop's hold on the connection it accepted.
LEMMA AcceptStep == Inv /\ [Next]_vars => AcceptInv'
<1> SUFFICES ASSUME Inv, [Next]_vars PROVE AcceptInv'
  OBVIOUS
<1> USE DEF Inv
<1>1. CASE AcceptLoop
  <2>1. CASE LoopTop
    BY <2>1 DEF LoopTop, TypeInv, AcceptInv
  <2>2. CASE AcceptClosed
    BY <2>2 DEF AcceptClosed, TypeInv, AcceptInv
  <2>3. CASE Spawn
    BY <2>3 DEF Spawn, SlotFree, TypeInv, AcceptInv
  <2>4. CASE SlotCancelled
    BY <2>4 DEF SlotCancelled, TypeInv, AcceptInv
  <2>5. ASSUME NEW s \in Session, Accept(s) PROVE AcceptInv'
    BY <2>5 DEF Accept, TypeInv, AcceptInv
  <2> QED BY <1>1, <2>1, <2>2, <2>3, <2>4, <2>5 DEF AcceptLoop
<1>2. CASE AcceptError
  BY <1>2 DEF AcceptError, TypeInv, AcceptInv
<1>3. CASE Shutdown
  <2>1. CASE ShutdownCancel
    BY <2>1 DEF ShutdownCancel, TypeInv, AcceptInv
  <2>2. CASE ShutdownCloseListener
    BY <2>2 DEF ShutdownCloseListener, TypeInv, AcceptInv
  <2>3. CASE ShutdownReturns
    BY <2>3 DEF ShutdownReturns, TypeInv, AcceptInv
  <2> QED BY <1>3, <2>1, <2>2, <2>3 DEF Shutdown
<1>4. ASSUME NEW s \in Session, Dial(s) PROVE AcceptInv'
  BY <1>4 DEF Dial, TypeInv, AcceptInv
<1>5. ASSUME NEW s \in Session, PeerCloses(s) PROVE AcceptInv'
  BY <1>5 DEF PeerCloses, TypeInv, AcceptInv
<1>6. ASSUME NEW s \in Session, Handshake(s) PROVE AcceptInv'
  <2>1. CASE SetupYamuxSession(s)
    BY <2>1 DEF SetupYamuxSession, TypeInv, AcceptInv
  <2>2. CASE Authenticate(s)
    BY <2>2 DEF Authenticate, Abort, Send, TypeInv, AcceptInv
  <2>3. CASE CheckUser(s)
    BY <2>3 DEF CheckUser, Abort, Send, TypeInv, AcceptInv
  <2>4. ASSUME NEW d \in Domain, EvictDomain(s, d) PROVE AcceptInv'
    BY <2>4 DEF EvictDomain, TypeInv, AcceptInv
  <2>5. CASE EvictSession(s)
    BY <2>5 DEF EvictSession, TypeInv, AcceptInv
  <2>6. CASE EvictUser(s)
    BY <2>6 DEF EvictUser, TypeInv, AcceptInv
  <2>7. CASE ProcessTunnelRequest(s)
    BY <2>7 DEF ProcessTunnelRequest, Abort, Send, Owned, TypeInv, AcceptInv
  <2>8. ASSUME NEW d \in Domain, BindDomain(s, d) PROVE AcceptInv'
    BY <2>8 DEF BindDomain, TypeInv, AcceptInv
  <2>9. CASE BindDone(s)
    BY <2>9 DEF BindDone, Abort, Send, TypeInv, AcceptInv
  <2>10. CASE RegisterUser(s)
    BY <2>10 DEF RegisterUser, TypeInv, AcceptInv
  <2>11. CASE Respond(s)
    BY <2>11 DEF Respond, Send, TypeInv, AcceptInv
  <2>12. CASE HandlerExit(s)
    BY <2>12 DEF HandlerExit, TypeInv, AcceptInv
  <2> QED BY <1>6, <2>1, <2>2, <2>3, <2>4, <2>5, <2>6, <2>7, <2>8, <2>9, <2>10,
      <2>11, <2>12 DEF Handshake
<1>7. ASSUME NEW s \in Session, Monitor(s) PROVE AcceptInv'
  <2>1. CASE MonitorWakes(s)
    BY <2>1 DEF MonitorWakes, TypeInv, AcceptInv
  <2>2. ASSUME NEW d \in Domain, MonitorUnroute(s, d) PROVE AcceptInv'
    BY <2>2 DEF MonitorUnroute, TypeInv, AcceptInv
  <2>3. CASE MonitorUnregister(s)
    BY <2>3 DEF MonitorUnregister, TypeInv, AcceptInv
  <2> QED BY <1>7, <2>1, <2>2, <2>3 DEF Monitor
<1>8. CASE UNCHANGED vars
  BY <1>8 DEF vars, TypeInv, AcceptInv
<1> QED BY <1>1, <1>2, <1>3, <1>4, <1>5, <1>6, <1>7, <1>8 DEF Next

\* A step keeps every connection's local state consistent.
LEMMA LocalStep == Inv /\ [Next]_vars => (\A t \in Session : LocalInv(t))'
<1> SUFFICES ASSUME Inv, [Next]_vars PROVE (\A t \in Session : LocalInv(t))'
  OBVIOUS
<1> USE DEF Inv
<1>1. CASE AcceptLoop
  <2>1. CASE LoopTop
    BY <2>1 DEF LoopTop, TypeInv, LocalInv, AcceptInv, NoDanglingUser
  <2>2. CASE AcceptClosed
    BY <2>2 DEF AcceptClosed, TypeInv, LocalInv, AcceptInv, NoDanglingUser
  <2>3. CASE Spawn
    BY <2>3 DEF Spawn, SlotFree, TypeInv, LocalInv, AcceptInv, NoDanglingUser
  <2>4. CASE SlotCancelled
    BY <2>4 DEF SlotCancelled, TypeInv, LocalInv, AcceptInv, NoDanglingUser
  <2>5. ASSUME NEW s \in Session, Accept(s) PROVE (\A t \in Session : LocalInv(t))'
    BY <2>5 DEF Accept, TypeInv, LocalInv, AcceptInv, NoDanglingUser
  <2> QED BY <1>1, <2>1, <2>2, <2>3, <2>4, <2>5 DEF AcceptLoop
<1>2. CASE AcceptError
  BY <1>2 DEF AcceptError, TypeInv, LocalInv, AcceptInv, NoDanglingUser
<1>3. CASE Shutdown
  <2>1. CASE ShutdownCancel
    BY <2>1 DEF ShutdownCancel, TypeInv, LocalInv, AcceptInv, NoDanglingUser
  <2>2. CASE ShutdownCloseListener
    BY <2>2 DEF ShutdownCloseListener, TypeInv, LocalInv, AcceptInv,
      NoDanglingUser
  <2>3. CASE ShutdownReturns
    BY <2>3 DEF ShutdownReturns, TypeInv, LocalInv, AcceptInv, NoDanglingUser
  <2> QED BY <1>3, <2>1, <2>2, <2>3 DEF Shutdown
<1>4. ASSUME NEW s \in Session, Dial(s) PROVE (\A t \in Session : LocalInv(t))'
  BY <1>4 DEF Dial, TypeInv, LocalInv, AcceptInv, NoDanglingUser
<1>5. ASSUME NEW s \in Session, PeerCloses(s) PROVE (\A t \in Session : LocalInv(t))'
  BY <1>5 DEF PeerCloses, TypeInv, LocalInv, AcceptInv, NoDanglingUser
<1>6. ASSUME NEW s \in Session, Handshake(s) PROVE (\A t \in Session : LocalInv(t))'
  <2>1. CASE SetupYamuxSession(s)
    BY <2>1 DEF SetupYamuxSession, TypeInv, LocalInv, AcceptInv, NoDanglingUser
  <2>2. CASE Authenticate(s)
    BY <2>2 DEF Authenticate, Abort, Send, TypeInv, LocalInv, AcceptInv,
      NoDanglingUser
  <2>3. CASE CheckUser(s)
    BY <2>3 DEF CheckUser, Abort, Send, TypeInv, LocalInv, AcceptInv,
      NoDanglingUser
  <2>4. ASSUME NEW d \in Domain, EvictDomain(s, d) PROVE (\A t \in Session : LocalInv(t))'
    BY <2>4 DEF EvictDomain, TypeInv, LocalInv, AcceptInv, NoDanglingUser
  <2>5. CASE EvictSession(s)
    BY <2>5 DEF EvictSession, TypeInv, LocalInv, AcceptInv, NoDanglingUser
  <2>6. CASE EvictUser(s)
    BY <2>6 DEF EvictUser, TypeInv, LocalInv, AcceptInv, NoDanglingUser
  <2>7. CASE ProcessTunnelRequest(s)
    BY <2>7 DEF ProcessTunnelRequest, Abort, Send, Owned, TypeInv, LocalInv,
      AcceptInv, NoDanglingUser
  <2>8. ASSUME NEW d \in Domain, BindDomain(s, d) PROVE (\A t \in Session : LocalInv(t))'
    BY <2>8 DEF BindDomain, TypeInv, LocalInv, AcceptInv, NoDanglingUser
  <2>9. CASE BindDone(s)
    BY <2>9 DEF BindDone, Abort, Send, TypeInv, LocalInv, AcceptInv,
      NoDanglingUser
  <2>10. CASE RegisterUser(s)
    BY <2>10 DEF RegisterUser, TypeInv, LocalInv, AcceptInv, NoDanglingUser
  <2>11. CASE Respond(s)
    BY <2>11 DEF Respond, Send, TypeInv, LocalInv, AcceptInv, NoDanglingUser
  <2>12. CASE HandlerExit(s)
    BY <2>12 DEF HandlerExit, TypeInv, LocalInv, AcceptInv, NoDanglingUser
  <2> QED BY <1>6, <2>1, <2>2, <2>3, <2>4, <2>5, <2>6, <2>7, <2>8, <2>9, <2>10,
      <2>11, <2>12 DEF Handshake
<1>7. ASSUME NEW s \in Session, Monitor(s) PROVE (\A t \in Session : LocalInv(t))'
  <2>1. CASE MonitorWakes(s)
    BY <2>1 DEF MonitorWakes, TypeInv, LocalInv, AcceptInv, NoDanglingUser
  <2>2. ASSUME NEW d \in Domain, MonitorUnroute(s, d) PROVE (\A t \in Session : LocalInv(t))'
    BY <2>2 DEF MonitorUnroute, TypeInv, LocalInv, AcceptInv, NoDanglingUser
  <2>3. CASE MonitorUnregister(s)
    BY <2>3 DEF MonitorUnregister, TypeInv, LocalInv, AcceptInv, NoDanglingUser
  <2> QED BY <1>7, <2>1, <2>2, <2>3 DEF Monitor
<1>8. CASE UNCHANGED vars
  BY <1>8 DEF vars, TypeInv, LocalInv, AcceptInv, NoDanglingUser
<1> QED BY <1>1, <1>2, <1>3, <1>4, <1>5, <1>6, <1>7, <1>8 DEF Next

\* A step leaves no route that nobody will remove.
LEMMA RouteStep == Inv /\ [Next]_vars => NoDanglingRoute'
<1> SUFFICES ASSUME Inv, [Next]_vars PROVE NoDanglingRoute'
  OBVIOUS
<1> USE DEF Inv
<1>1. CASE AcceptLoop
  <2>1. CASE LoopTop
    BY <2>1 DEF LoopTop, TypeInv, LocalInv, AcceptInv, NoDanglingRoute,
      WillUnroute
  <2>2. CASE AcceptClosed
    BY <2>2 DEF AcceptClosed, TypeInv, LocalInv, AcceptInv, NoDanglingRoute,
      WillUnroute
  <2>3. CASE Spawn
    BY <2>3 DEF Spawn, SlotFree, TypeInv, LocalInv, AcceptInv, NoDanglingRoute,
      WillUnroute
  <2>4. CASE SlotCancelled
    BY <2>4 DEF SlotCancelled, TypeInv, LocalInv, AcceptInv, NoDanglingRoute,
      WillUnroute
  <2>5. ASSUME NEW s \in Session, Accept(s) PROVE NoDanglingRoute'
    BY <2>5 DEF Accept, TypeInv, LocalInv, AcceptInv, NoDanglingRoute,
      WillUnroute
  <2> QED BY <1>1, <2>1, <2>2, <2>3, <2>4, <2>5 DEF AcceptLoop
<1>2. CASE AcceptError
  BY <1>2 DEF AcceptError, TypeInv, LocalInv, AcceptInv, NoDanglingRoute,
      WillUnroute
<1>3. CASE Shutdown
  <2>1. CASE ShutdownCancel
    BY <2>1 DEF ShutdownCancel, TypeInv, LocalInv, AcceptInv, NoDanglingRoute,
      WillUnroute
  <2>2. CASE ShutdownCloseListener
    BY <2>2 DEF ShutdownCloseListener, TypeInv, LocalInv, AcceptInv,
      NoDanglingRoute, WillUnroute
  <2>3. CASE ShutdownReturns
    BY <2>3 DEF ShutdownReturns, TypeInv, LocalInv, AcceptInv, NoDanglingRoute,
      WillUnroute
  <2> QED BY <1>3, <2>1, <2>2, <2>3 DEF Shutdown
<1>4. ASSUME NEW s \in Session, Dial(s) PROVE NoDanglingRoute'
  BY <1>4 DEF Dial, TypeInv, LocalInv, AcceptInv, NoDanglingRoute, WillUnroute
<1>5. ASSUME NEW s \in Session, PeerCloses(s) PROVE NoDanglingRoute'
  BY <1>5 DEF PeerCloses, TypeInv, LocalInv, AcceptInv, NoDanglingRoute,
      WillUnroute
<1>6. ASSUME NEW s \in Session, Handshake(s) PROVE NoDanglingRoute'
  <2>1. CASE SetupYamuxSession(s)
    BY <2>1 DEF SetupYamuxSession, TypeInv, LocalInv, AcceptInv,
      NoDanglingRoute, WillUnroute
  <2>2. CASE Authenticate(s)
    BY <2>2 DEF Authenticate, Abort, Send, TypeInv, LocalInv, AcceptInv,
      NoDanglingRoute, WillUnroute
  <2>3. CASE CheckUser(s)
    BY <2>3 DEF CheckUser, Abort, Send, TypeInv, LocalInv, AcceptInv,
      NoDanglingRoute, WillUnroute
  <2>4. ASSUME NEW d \in Domain, EvictDomain(s, d) PROVE NoDanglingRoute'
    BY <2>4 DEF EvictDomain, TypeInv, LocalInv, AcceptInv, NoDanglingRoute,
      WillUnroute
  <2>5. CASE EvictSession(s)
    BY <2>5 DEF EvictSession, TypeInv, LocalInv, AcceptInv, NoDanglingRoute,
      WillUnroute
  <2>6. CASE EvictUser(s)
    BY <2>6 DEF EvictUser, TypeInv, LocalInv, AcceptInv, NoDanglingRoute,
      WillUnroute
  <2>7. CASE ProcessTunnelRequest(s)
    BY <2>7 DEF ProcessTunnelRequest, Abort, Send, Owned, TypeInv, LocalInv,
      AcceptInv, NoDanglingRoute, WillUnroute
  <2>8. ASSUME NEW d \in Domain, BindDomain(s, d) PROVE NoDanglingRoute'
    BY <2>8 DEF BindDomain, TypeInv, LocalInv, AcceptInv, NoDanglingRoute,
      WillUnroute
  <2>9. CASE BindDone(s)
    BY <2>9 DEF BindDone, Abort, Send, TypeInv, LocalInv, AcceptInv,
      NoDanglingRoute, WillUnroute
  <2>10. CASE RegisterUser(s)
    BY <2>10 DEF RegisterUser, TypeInv, LocalInv, AcceptInv, NoDanglingRoute,
      WillUnroute
  <2>11. CASE Respond(s)
    BY <2>11 DEF Respond, Send, TypeInv, LocalInv, AcceptInv, NoDanglingRoute,
      WillUnroute
  <2>12. CASE HandlerExit(s)
    BY <2>12 DEF HandlerExit, TypeInv, LocalInv, AcceptInv, NoDanglingRoute,
      WillUnroute
  <2> QED BY <1>6, <2>1, <2>2, <2>3, <2>4, <2>5, <2>6, <2>7, <2>8, <2>9, <2>10,
      <2>11, <2>12 DEF Handshake
<1>7. ASSUME NEW s \in Session, Monitor(s) PROVE NoDanglingRoute'
  <2>1. CASE MonitorWakes(s)
    BY <2>1 DEF MonitorWakes, TypeInv, LocalInv, AcceptInv, NoDanglingRoute,
      WillUnroute
  <2>2. ASSUME NEW d \in Domain, MonitorUnroute(s, d) PROVE NoDanglingRoute'
    BY <2>2 DEF MonitorUnroute, TypeInv, LocalInv, AcceptInv, NoDanglingRoute,
      WillUnroute
  <2>3. CASE MonitorUnregister(s)
    BY <2>3 DEF MonitorUnregister, TypeInv, LocalInv, AcceptInv,
      NoDanglingRoute, WillUnroute
  <2> QED BY <1>7, <2>1, <2>2, <2>3 DEF Monitor
<1>8. CASE UNCHANGED vars
  BY <1>8 DEF vars, TypeInv, LocalInv, AcceptInv, NoDanglingRoute, WillUnroute
<1> QED BY <1>1, <1>2, <1>3, <1>4, <1>5, <1>6, <1>7, <1>8 DEF Next

\* A step leaves no user entry that nobody will remove.
LEMMA UserStep == Inv /\ [Next]_vars => NoDanglingUser'
<1> SUFFICES ASSUME Inv, [Next]_vars PROVE NoDanglingUser'
  OBVIOUS
<1> USE DEF Inv
<1>1. CASE AcceptLoop
  <2>1. CASE LoopTop
    BY <2>1 DEF LoopTop, TypeInv, LocalInv, AcceptInv, NoDanglingUser
  <2>2. CASE AcceptClosed
    BY <2>2 DEF AcceptClosed, TypeInv, LocalInv, AcceptInv, NoDanglingUser
  <2>3. CASE Spawn
    BY <2>3 DEF Spawn, SlotFree, TypeInv, LocalInv, AcceptInv, NoDanglingUser
  <2>4. CASE SlotCancelled
    BY <2>4 DEF SlotCancelled, TypeInv, LocalInv, AcceptInv, NoDanglingUser
  <2>5. ASSUME NEW s \in Session, Accept(s) PROVE NoDanglingUser'
    BY <2>5 DEF Accept, TypeInv, LocalInv, AcceptInv, NoDanglingUser
  <2> QED BY <1>1, <2>1, <2>2, <2>3, <2>4, <2>5 DEF AcceptLoop
<1>2. CASE AcceptError
  BY <1>2 DEF AcceptError, TypeInv, LocalInv, AcceptInv, NoDanglingUser
<1>3. CASE Shutdown
  <2>1. CASE ShutdownCancel
    BY <2>1 DEF ShutdownCancel, TypeInv, LocalInv, AcceptInv, NoDanglingUser
  <2>2. CASE ShutdownCloseListener
    BY <2>2 DEF ShutdownCloseListener, TypeInv, LocalInv, AcceptInv,
      NoDanglingUser
  <2>3. CASE ShutdownReturns
    BY <2>3 DEF ShutdownReturns, TypeInv, LocalInv, AcceptInv, NoDanglingUser
  <2> QED BY <1>3, <2>1, <2>2, <2>3 DEF Shutdown
<1>4. ASSUME NEW s \in Session, Dial(s) PROVE NoDanglingUser'
  BY <1>4 DEF Dial, TypeInv, LocalInv, AcceptInv, NoDanglingUser
<1>5. ASSUME NEW s \in Session, PeerCloses(s) PROVE NoDanglingUser'
  BY <1>5 DEF PeerCloses, TypeInv, LocalInv, AcceptInv, NoDanglingUser
<1>6. ASSUME NEW s \in Session, Handshake(s) PROVE NoDanglingUser'
  <2>1. CASE SetupYamuxSession(s)
    BY <2>1 DEF SetupYamuxSession, TypeInv, LocalInv, AcceptInv, NoDanglingUser
  <2>2. CASE Authenticate(s)
    BY <2>2 DEF Authenticate, Abort, Send, TypeInv, LocalInv, AcceptInv,
      NoDanglingUser
  <2>3. CASE CheckUser(s)
    BY <2>3 DEF CheckUser, Abort, Send, TypeInv, LocalInv, AcceptInv,
      NoDanglingUser
  <2>4. ASSUME NEW d \in Domain, EvictDomain(s, d) PROVE NoDanglingUser'
    BY <2>4 DEF EvictDomain, TypeInv, LocalInv, AcceptInv, NoDanglingUser
  <2>5. CASE EvictSession(s)
    BY <2>5 DEF EvictSession, TypeInv, LocalInv, AcceptInv, NoDanglingUser
  <2>6. CASE EvictUser(s)
    BY <2>6 DEF EvictUser, TypeInv, LocalInv, AcceptInv, NoDanglingUser
  <2>7. CASE ProcessTunnelRequest(s)
    BY <2>7 DEF ProcessTunnelRequest, Abort, Send, Owned, TypeInv, LocalInv,
      AcceptInv, NoDanglingUser
  <2>8. ASSUME NEW d \in Domain, BindDomain(s, d) PROVE NoDanglingUser'
    BY <2>8 DEF BindDomain, TypeInv, LocalInv, AcceptInv, NoDanglingUser
  <2>9. CASE BindDone(s)
    BY <2>9 DEF BindDone, Abort, Send, TypeInv, LocalInv, AcceptInv,
      NoDanglingUser
  <2>10. CASE RegisterUser(s)
    BY <2>10 DEF RegisterUser, TypeInv, LocalInv, AcceptInv, NoDanglingUser
  <2>11. CASE Respond(s)
    BY <2>11 DEF Respond, Send, TypeInv, LocalInv, AcceptInv, NoDanglingUser
  <2>12. CASE HandlerExit(s)
    BY <2>12 DEF HandlerExit, TypeInv, LocalInv, AcceptInv, NoDanglingUser
  <2> QED BY <1>6, <2>1, <2>2, <2>3, <2>4, <2>5, <2>6, <2>7, <2>8, <2>9, <2>10,
      <2>11, <2>12 DEF Handshake
<1>7. ASSUME NEW s \in Session, Monitor(s) PROVE NoDanglingUser'
  <2>1. CASE MonitorWakes(s)
    BY <2>1 DEF MonitorWakes, TypeInv, LocalInv, AcceptInv, NoDanglingUser
  <2>2. ASSUME NEW d \in Domain, MonitorUnroute(s, d) PROVE NoDanglingUser'
    BY <2>2 DEF MonitorUnroute, TypeInv, LocalInv, AcceptInv, NoDanglingUser
  <2>3. CASE MonitorUnregister(s)
    BY <2>3 DEF MonitorUnregister, TypeInv, LocalInv, AcceptInv, NoDanglingUser
  <2> QED BY <1>7, <2>1, <2>2, <2>3 DEF Monitor
<1>8. CASE UNCHANGED vars
  BY <1>8 DEF vars, TypeInv, LocalInv, AcceptInv, NoDanglingUser
<1> QED BY <1>1, <1>2, <1>3, <1>4, <1>5, <1>6, <1>7, <1>8 DEF Next

-----------------------------------------------------------------------------
(* The invariant and what follows from it.                                  *)

\* The inductive invariant holds in every reachable state.
THEOREM Invariance == Spec => []Inv
<1>1. Init => Inv
  <2> SUFFICES ASSUME Init PROVE Inv
    OBVIOUS
  <2>1. TypeInv
    <3>1. /\ ctxDone \in BOOLEAN /\ listening \in BOOLEAN
          /\ force \in [Session -> BOOLEAN]
      BY Zenon DEF Init
    <3>2. /\ loop \in LoopState
          /\ accepting \in Session \union {NoSession}
          /\ shutdown \in ShutdownState
          /\ slots \in Int /\ wg \in Int /\ activeTunnels \in Int
      BY DEF Init
    <3>3. /\ pc \in [Session -> HandlerState]
          /\ yamux \in [Session -> {"none", "open", "closed"}]
          /\ user \in [Session -> User \union {NoUser}]
          /\ old \in [Session -> Session \union {NoSession}]
          /\ todo \in [Session -> SUBSET Domain]
          /\ bound \in [Session -> SUBSET Domain]
      BY DEF Init
    <3>4. /\ mon \in [Session -> MonitorState]
          /\ reply \in [Session -> Reply]
          /\ routes \in [Domain -> Session \union {NoSession}]
          /\ userSessions \in [User -> Session \union {NoSession}]
      BY DEF Init
    <3> QED BY <3>1, <3>2, <3>3, <3>4 DEF TypeInv
  <2>2. AcceptInv /\ \A s \in Session : LocalInv(s)
    BY DEF Init, AcceptInv, LocalInv
  <2>3. NoDanglingRoute /\ NoDanglingUser
    BY DEF Init, NoDanglingRoute, NoDanglingUser
  <2> QED BY <2>1, <2>2, <2>3 DEF Inv
<1>2. Inv /\ [Next]_vars => Inv'
  BY TypeStep, AcceptStep, LocalStep, RouteStep, UserStep DEF Inv
<1> QED BY <1>1, <1>2, PTL DEF Spec

\* No route is ever left that no goroutine is going to remove, however
\* handshakes, takeovers, disconnects and shutdown interleave.
THEOREM NoDanglingRouteHolds == Spec => []NoDanglingRoute
<1>1. Inv => NoDanglingRoute
  BY DEF Inv
<1> QED BY <1>1, Invariance, PTL

\* No user is ever locked out by an entry that nobody is going to remove.
THEOREM NoDanglingUserHolds == Spec => []NoDanglingUser
<1>1. Inv => NoDanglingUser
  BY DEF Inv
<1> QED BY <1>1, Invariance, PTL

\* Every route leads to a session of the user who owns the host.
THEOREM OwnershipHolds == Spec => []RoutesBelongToOwner
<1>1. Inv => RoutesBelongToOwner
  BY DEF Inv, NoDanglingRoute, WillUnroute, LocalInv, RoutesBelongToOwner
<1> QED BY <1>1, Invariance, PTL

-----------------------------------------------------------------------------
(* Action property: a user's routes are the business of that user alone.    *)

Isolated ==
    \A d \in Domain : routes'[d] # routes[d] =>
        \E s \in Session : user[s] = Owner[d] /\ todo'[s] # todo[s]

\* A step that changes a route is one of the owner's connections.
LEMMA IsolationStep == Inv /\ [Next]_vars => Isolated
<1> SUFFICES ASSUME Inv, [Next]_vars PROVE Isolated
  OBVIOUS
<1> USE DEF Inv
<1>1. CASE AcceptLoop
  <2>1. CASE LoopTop
    BY <2>1 DEF LoopTop, Isolated
  <2>2. CASE AcceptClosed
    BY <2>2 DEF AcceptClosed, Isolated
  <2>3. CASE Spawn
    BY <2>3 DEF Spawn, SlotFree, Isolated
  <2>4. CASE SlotCancelled
    BY <2>4 DEF SlotCancelled, Isolated
  <2>5. ASSUME NEW s \in Session, Accept(s) PROVE Isolated
    BY <2>5 DEF Accept, Isolated
  <2> QED BY <1>1, <2>1, <2>2, <2>3, <2>4, <2>5 DEF AcceptLoop
<1>2. CASE AcceptError
  BY <1>2 DEF AcceptError, Isolated
<1>3. CASE Shutdown
  <2>1. CASE ShutdownCancel
    BY <2>1 DEF ShutdownCancel, Isolated
  <2>2. CASE ShutdownCloseListener
    BY <2>2 DEF ShutdownCloseListener, Isolated
  <2>3. CASE ShutdownReturns
    BY <2>3 DEF ShutdownReturns, Isolated
  <2> QED BY <1>3, <2>1, <2>2, <2>3 DEF Shutdown
<1>4. ASSUME NEW s \in Session, Dial(s) PROVE Isolated
  BY <1>4 DEF Dial, Isolated
<1>5. ASSUME NEW s \in Session, PeerCloses(s) PROVE Isolated
  BY <1>5 DEF PeerCloses, Isolated
<1>6. ASSUME NEW s \in Session, Handshake(s) PROVE Isolated
  <2>1. CASE SetupYamuxSession(s)
    BY <2>1 DEF SetupYamuxSession, Isolated
  <2>2. CASE Authenticate(s)
    BY <2>2 DEF Authenticate, Abort, Send, Isolated
  <2>3. CASE CheckUser(s)
    BY <2>3 DEF CheckUser, Abort, Send, Isolated
  <2>4. ASSUME NEW d \in Domain, EvictDomain(s, d) PROVE Isolated
    BY <2>4 DEF EvictDomain, TypeInv, LocalInv, Isolated
  <2>5. CASE EvictSession(s)
    BY <2>5 DEF EvictSession, Isolated
  <2>6. CASE EvictUser(s)
    BY <2>6 DEF EvictUser, Isolated
  <2>7. CASE ProcessTunnelRequest(s)
    BY <2>7 DEF ProcessTunnelRequest, Abort, Send, Owned, Isolated
  <2>8. ASSUME NEW d \in Domain, BindDomain(s, d) PROVE Isolated
    BY <2>8 DEF BindDomain, TypeInv, Isolated
  <2>9. CASE BindDone(s)
    BY <2>9 DEF BindDone, Abort, Send, Isolated
  <2>10. CASE RegisterUser(s)
    BY <2>10 DEF RegisterUser, Isolated
  <2>11. CASE Respond(s)
    BY <2>11 DEF Respond, Send, Isolated
  <2>12. CASE HandlerExit(s)
    BY <2>12 DEF HandlerExit, Isolated
  <2> QED BY <1>6, <2>1, <2>2, <2>3, <2>4, <2>5, <2>6, <2>7, <2>8, <2>9, <2>10,
      <2>11, <2>12 DEF Handshake
<1>7. ASSUME NEW s \in Session, Monitor(s) PROVE Isolated
  <2>1. CASE MonitorWakes(s)
    BY <2>1 DEF MonitorWakes, Isolated
  <2>2. ASSUME NEW d \in Domain, MonitorUnroute(s, d) PROVE Isolated
    BY <2>2 DEF MonitorUnroute, TypeInv, LocalInv, Isolated
  <2>3. CASE MonitorUnregister(s)
    BY <2>3 DEF MonitorUnregister, Isolated
  <2> QED BY <1>7, <2>1, <2>2, <2>3 DEF Monitor
<1>8. CASE UNCHANGED vars
  BY <1>8 DEF vars, Isolated
<1> QED BY <1>1, <1>2, <1>3, <1>4, <1>5, <1>6, <1>7, <1>8 DEF Next

\* No step of one user's connections ever changes another user's routes.
THEOREM TenantIsolationHolds == Spec => TenantIsolation
<1>1. Inv /\ [Next]_vars => [Isolated]_vars
  BY IsolationStep
<1> QED BY <1>1, Invariance, PTL DEF Spec, TenantIsolation, Isolated

-----------------------------------------------------------------------------
(* Refinement of RouteDirectory.                                            *)

\* A step that changes no route and no identity is at most a retirement, if
\* no session comes back and those that retire are routed to no more.
LEMMA RetireStep ==
    ASSUME UNCHANGED <<user, routes>>,
           \A t \in Session : Retired(t) => Retired(t)',
           \A t \in Session : ~Retired(t) /\ Retired(t)' =>
               \A d \in Domain : routes[d] # t
    PROVE  Directory!Next
<1> DEFINE S == {t \in Session : ~Retired(t) /\ Retired(t)'}
<1>1. Stage' = [t \in Session |-> IF t \in S THEN "retired" ELSE Stage[t]]
  BY DEF Stage
<1>2. Directory!Retire(S)
  BY <1>1 DEF Directory!Retire
<1>3. S \in SUBSET Session
  OBVIOUS
<1> QED BY <1>2, <1>3 DEF Directory!Next

\* A step is a step of the directory or leaves it unchanged.
LEMMA DirectoryStep ==
    Inv /\ [Next]_vars => [Directory!Next]_Directory!vars
<1> SUFFICES ASSUME Inv, [Next]_vars PROVE [Directory!Next]_Directory!vars
  OBVIOUS
<1> USE DEF Inv
<1>1. CASE AcceptLoop
  <2>1. CASE LoopTop
    BY <2>1, RetireStep DEF LoopTop, Retired, TypeInv, LocalInv
  <2>2. CASE AcceptClosed
    BY <2>2, RetireStep DEF AcceptClosed, Retired, TypeInv, LocalInv
  <2>3. CASE Spawn
    BY <2>3, RetireStep DEF Spawn, Retired, TypeInv, LocalInv, AcceptInv
  <2>4. CASE SlotCancelled
    BY <2>4, RetireStep DEF SlotCancelled, Retired, TypeInv, LocalInv, AcceptInv,
      NoDanglingRoute, WillUnroute
  <2>5. ASSUME NEW s \in Session, Accept(s) PROVE [Directory!Next]_Directory!vars
    BY <2>5, RetireStep DEF Accept, Retired, TypeInv, LocalInv, AcceptInv
  <2> QED BY <1>1, <2>1, <2>2, <2>3, <2>4, <2>5 DEF AcceptLoop
<1>2. CASE AcceptError
  BY <1>2, RetireStep DEF AcceptError, Retired, TypeInv, LocalInv
<1>3. CASE Shutdown
  <2>1. CASE ShutdownCancel
    BY <2>1, RetireStep DEF ShutdownCancel, Retired, TypeInv, LocalInv
  <2>2. CASE ShutdownCloseListener
    BY <2>2, RetireStep DEF ShutdownCloseListener, Retired, TypeInv, LocalInv,
      NoDanglingRoute, WillUnroute
  <2>3. CASE ShutdownReturns
    BY <2>3, RetireStep DEF ShutdownReturns, Retired, TypeInv, LocalInv
  <2> QED BY <1>3, <2>1, <2>2, <2>3 DEF Shutdown
<1>4. ASSUME NEW s \in Session, Dial(s) PROVE [Directory!Next]_Directory!vars
  BY <1>4, RetireStep DEF Dial, Retired, TypeInv, LocalInv
<1>5. ASSUME NEW s \in Session, PeerCloses(s) PROVE [Directory!Next]_Directory!vars
  BY <1>5, RetireStep DEF PeerCloses, Retired, TypeInv, LocalInv
<1>6. ASSUME NEW s \in Session, Handshake(s) PROVE [Directory!Next]_Directory!vars
  <2>1. CASE SetupYamuxSession(s)
    BY <2>1, RetireStep DEF SetupYamuxSession, Retired, TypeInv, LocalInv,
      NoDanglingRoute, WillUnroute
  <2>2. CASE Authenticate(s)
    <3>1. CASE \E u \in User : /\ user' = [user EXCEPT ![s] = u]
                               /\ pc' = [pc EXCEPT ![s] = "checkUser"]
      <4>1. PICK u \in User : /\ user' = [user EXCEPT ![s] = u]
                              /\ pc' = [pc EXCEPT ![s] = "checkUser"]
        BY <3>1
      <4>2. Stage[s] = "new" /\ Stage' = [Stage EXCEPT ![s] = "known"]
        BY <2>2, <4>1 DEF Authenticate, Stage, Retired, TypeInv, LocalInv
      <4>3. Directory!Identify(s, u)
        BY <2>2, <4>1, <4>2 DEF Authenticate, Directory!Identify
      <4> QED BY <4>3 DEF Directory!Next
    <3>2. CASE UNCHANGED user /\ pc' = [pc EXCEPT ![s] = "exit"]
      BY <2>2, <3>2, RetireStep DEF Authenticate, Retired, TypeInv, LocalInv,
        NoDanglingRoute, WillUnroute
    <3> QED BY <2>2, <3>1, <3>2 DEF Authenticate, Abort
  <2>3. CASE CheckUser(s)
    BY <2>3, RetireStep DEF CheckUser, Abort, Retired, TypeInv, LocalInv,
      NoDanglingRoute, WillUnroute
  <2>4. ASSUME NEW d \in Domain, EvictDomain(s, d)
        PROVE  [Directory!Next]_Directory!vars
    <3>1. Stage' = Stage
      BY <2>4 DEF EvictDomain, Stage, Retired, TypeInv, LocalInv
    <3>2. Directory!Withdraw(d)
      BY <2>4, <3>1 DEF EvictDomain, Directory!Withdraw
    <3> QED BY <3>2 DEF Directory!Next
  <2>5. CASE EvictSession(s)
    BY <2>5, RetireStep DEF EvictSession, Retired, TypeInv, LocalInv
  <2>6. CASE EvictUser(s)
    BY <2>6, RetireStep DEF EvictUser, Retired, TypeInv, LocalInv
  <2>7. CASE ProcessTunnelRequest(s)
    BY <2>7, RetireStep DEF ProcessTunnelRequest, Abort, Retired, TypeInv,
      LocalInv, NoDanglingRoute, WillUnroute
  <2>8. ASSUME NEW d \in Domain, BindDomain(s, d)
        PROVE  [Directory!Next]_Directory!vars
    <3>1. Stage' = Stage /\ Stage[s] = "known" /\ UNCHANGED user
      BY <2>8 DEF BindDomain, Stage, Retired, TypeInv, LocalInv
    <3>2. CASE Owner[d] = user[s] /\ routes' = [routes EXCEPT ![d] = s]
      <4>1. Directory!Publish(s, d)
        BY <3>1, <3>2 DEF Directory!Publish
      <4> QED BY <4>1 DEF Directory!Next
    <3>3. CASE UNCHANGED routes
      BY <3>1, <3>3 DEF Directory!vars
    <3> QED BY <2>8, <3>2, <3>3 DEF BindDomain
  <2>9. CASE BindDone(s)
    BY <2>9, RetireStep DEF BindDone, Abort, Retired, TypeInv, LocalInv,
      NoDanglingRoute, WillUnroute
  <2>10. CASE RegisterUser(s)
    BY <2>10, RetireStep DEF RegisterUser, Retired, TypeInv, LocalInv
  <2>11. CASE Respond(s)
    BY <2>11, RetireStep DEF Respond, Retired, TypeInv, LocalInv
  <2>12. CASE HandlerExit(s)
    BY <2>12, RetireStep DEF HandlerExit, Retired, TypeInv, LocalInv,
      NoDanglingRoute, WillUnroute
  <2> QED BY <1>6, <2>1, <2>2, <2>3, <2>4, <2>5, <2>6, <2>7, <2>8, <2>9, <2>10,
      <2>11, <2>12 DEF Handshake
<1>7. ASSUME NEW s \in Session, Monitor(s) PROVE [Directory!Next]_Directory!vars
  <2>1. CASE MonitorWakes(s)
    BY <2>1, RetireStep DEF MonitorWakes, Retired, TypeInv, LocalInv
  <2>2. ASSUME NEW d \in Domain, MonitorUnroute(s, d)
        PROVE  [Directory!Next]_Directory!vars
    <3>1. Stage' = Stage
      BY <2>2 DEF MonitorUnroute, Stage, Retired, TypeInv
    <3>2. Directory!Withdraw(d)
      BY <2>2, <3>1 DEF MonitorUnroute, Directory!Withdraw
    <3> QED BY <3>2 DEF Directory!Next
  <2>3. CASE MonitorUnregister(s)
    BY <2>3, RetireStep DEF MonitorUnregister, Retired, TypeInv, LocalInv,
      NoDanglingRoute, WillUnroute
  <2> QED BY <1>7, <2>1, <2>2, <2>3 DEF Monitor
<1>8. CASE UNCHANGED vars
  BY <1>8 DEF vars, Directory!vars, Stage, Retired
<1> QED BY <1>1, <1>2, <1>3, <1>4, <1>5, <1>6, <1>7, <1>8 DEF Next

\* The control plane implements the directory the ingress relies on.
THEOREM Refinement == Spec => RefinesDirectory
<1>1. Init => Directory!Init
  BY DEF Init, Directory!Init, Stage, Retired
<1> QED BY <1>1, DirectoryStep, Invariance, PTL
        DEF Spec, RefinesDirectory, Directory!Spec

-----------------------------------------------------------------------------
(* The counters: the semaphore, the WaitGroup and the gauge.                *)

\* Sessions TunnelConnected was called for and TunnelDisconnected was not.
Tracked ==
    {s \in Session : \/ pc[s] = "respond"
                     \/ mon[s] \in {"waiting", "unroute", "unregister"}}

\* Each counter counts what it stands for.
CountInv ==
    /\ wg = Cardinality(InFlight)
    /\ slots = IF MaxConnections > 0 THEN wg ELSE 0
    /\ slots <= MaxConnections
    /\ activeTunnels = Cardinality(Tracked)

\* Both sets are finite, so that their cardinalities count.
LEMMA CountedFinite ==
    /\ IsFiniteSet(InFlight) /\ IsFiniteSet(Tracked)
    /\ Cardinality(InFlight) \in Nat /\ Cardinality(Tracked) \in Nat
<1>1. IsFiniteSet(InFlight) /\ IsFiniteSet(Tracked)
  <2>1. InFlight \subseteq Session /\ Tracked \subseteq Session
    BY DEF InFlight, Tracked
  <2> QED BY <2>1, SessionAssumption, FS_Subset
<1> QED BY <1>1, FS_CardinalityType

\* A step keeps the counters exact.
LEMMA CountStep == Inv /\ CountInv /\ [Next]_vars => CountInv'
<1> SUFFICES ASSUME Inv, CountInv, [Next]_vars PROVE CountInv'
  OBVIOUS
<1> USE DEF Inv
<1>1. CASE AcceptLoop
  <2>1. CASE LoopTop
    <3>1. InFlight' = InFlight /\ Tracked' = Tracked
      BY <2>1 DEF LoopTop, InFlight, Tracked, TypeInv, LocalInv
    <3> QED BY <2>1, <3>1 DEF LoopTop, CountInv
  <2>2. CASE AcceptClosed
    <3>1. InFlight' = InFlight /\ Tracked' = Tracked
      BY <2>2 DEF AcceptClosed, InFlight, Tracked, TypeInv, LocalInv
    <3> QED BY <2>2, <3>1 DEF AcceptClosed, CountInv
  <2>3. CASE Spawn
    <3>1. /\ InFlight' = InFlight \union {accepting} /\ accepting \notin InFlight
          /\ Tracked' = Tracked
      BY <2>3 DEF Spawn, InFlight, Tracked, TypeInv, LocalInv, AcceptInv
    <3>2. Cardinality(InFlight') = Cardinality(InFlight) + 1
      BY <3>1, CountedFinite, FS_AddElement
    <3> QED BY <2>3, <3>1, <3>2, CountedFinite DEF Spawn, SlotFree, CountInv
  <2>4. CASE SlotCancelled
    <3>1. InFlight' = InFlight /\ Tracked' = Tracked
      BY <2>4 DEF SlotCancelled, InFlight, Tracked, TypeInv, LocalInv, AcceptInv
    <3> QED BY <2>4, <3>1 DEF SlotCancelled, CountInv
  <2>5. ASSUME NEW s \in Session, Accept(s) PROVE CountInv'
    <3>1. InFlight' = InFlight /\ Tracked' = Tracked
      BY <2>5 DEF Accept, InFlight, Tracked, TypeInv, LocalInv, AcceptInv
    <3> QED BY <2>5, <3>1 DEF Accept, CountInv
  <2> QED BY <1>1, <2>1, <2>2, <2>3, <2>4, <2>5 DEF AcceptLoop
<1>2. CASE AcceptError
  <2>1. InFlight' = InFlight /\ Tracked' = Tracked
    BY <1>2 DEF AcceptError, InFlight, Tracked, TypeInv, LocalInv
  <2> QED BY <1>2, <2>1 DEF AcceptError, CountInv
<1>3. CASE Shutdown
  <2>1. CASE ShutdownCancel
    <3>1. InFlight' = InFlight /\ Tracked' = Tracked
      BY <2>1 DEF ShutdownCancel, InFlight, Tracked, TypeInv, LocalInv
    <3> QED BY <2>1, <3>1 DEF ShutdownCancel, CountInv
  <2>2. CASE ShutdownCloseListener
    <3>1. InFlight' = InFlight /\ Tracked' = Tracked
      BY <2>2 DEF ShutdownCloseListener, InFlight, Tracked, TypeInv, LocalInv
    <3> QED BY <2>2, <3>1 DEF ShutdownCloseListener, CountInv
  <2>3. CASE ShutdownReturns
    <3>1. InFlight' = InFlight /\ Tracked' = Tracked
      BY <2>3 DEF ShutdownReturns, InFlight, Tracked, TypeInv, LocalInv
    <3> QED BY <2>3, <3>1 DEF ShutdownReturns, CountInv
  <2> QED BY <1>3, <2>1, <2>2, <2>3 DEF Shutdown
<1>4. ASSUME NEW s \in Session, Dial(s) PROVE CountInv'
  <2>1. InFlight' = InFlight /\ Tracked' = Tracked
    BY <1>4 DEF Dial, InFlight, Tracked, TypeInv, LocalInv
  <2> QED BY <1>4, <2>1 DEF Dial, CountInv
<1>5. ASSUME NEW s \in Session, PeerCloses(s) PROVE CountInv'
  <2>1. InFlight' = InFlight /\ Tracked' = Tracked
    BY <1>5 DEF PeerCloses, InFlight, Tracked, TypeInv, LocalInv
  <2> QED BY <1>5, <2>1 DEF PeerCloses, CountInv
<1>6. ASSUME NEW s \in Session, Handshake(s) PROVE CountInv'
  <2>1. CASE SetupYamuxSession(s)
    <3>1. InFlight' = InFlight /\ Tracked' = Tracked
      BY <2>1 DEF SetupYamuxSession, InFlight, Tracked, TypeInv, LocalInv
    <3> QED BY <2>1, <3>1 DEF SetupYamuxSession, CountInv
  <2>2. CASE Authenticate(s)
    <3>1. InFlight' = InFlight /\ Tracked' = Tracked
      BY <2>2 DEF Authenticate, Abort, InFlight, Tracked, TypeInv, LocalInv
    <3> QED BY <2>2, <3>1 DEF Authenticate, Abort, CountInv
  <2>3. CASE CheckUser(s)
    <3>1. InFlight' = InFlight /\ Tracked' = Tracked
      BY <2>3 DEF CheckUser, Abort, InFlight, Tracked, TypeInv, LocalInv
    <3> QED BY <2>3, <3>1 DEF CheckUser, Abort, CountInv
  <2>4. ASSUME NEW d \in Domain, EvictDomain(s, d) PROVE CountInv'
    <3>1. InFlight' = InFlight /\ Tracked' = Tracked
      BY <2>4 DEF EvictDomain, InFlight, Tracked, TypeInv, LocalInv
    <3> QED BY <2>4, <3>1 DEF EvictDomain, CountInv
  <2>5. CASE EvictSession(s)
    <3>1. InFlight' = InFlight /\ Tracked' = Tracked
      BY <2>5 DEF EvictSession, InFlight, Tracked, TypeInv, LocalInv
    <3> QED BY <2>5, <3>1 DEF EvictSession, CountInv
  <2>6. CASE EvictUser(s)
    <3>1. InFlight' = InFlight /\ Tracked' = Tracked
      BY <2>6 DEF EvictUser, InFlight, Tracked, TypeInv, LocalInv
    <3> QED BY <2>6, <3>1 DEF EvictUser, CountInv
  <2>7. CASE ProcessTunnelRequest(s)
    <3>1. InFlight' = InFlight /\ Tracked' = Tracked
      BY <2>7 DEF ProcessTunnelRequest, Abort, InFlight, Tracked, TypeInv,
      LocalInv
    <3> QED BY <2>7, <3>1 DEF ProcessTunnelRequest, Abort, CountInv
  <2>8. ASSUME NEW d \in Domain, BindDomain(s, d) PROVE CountInv'
    <3>1. InFlight' = InFlight /\ Tracked' = Tracked
      BY <2>8 DEF BindDomain, InFlight, Tracked, TypeInv, LocalInv
    <3> QED BY <2>8, <3>1 DEF BindDomain, CountInv
  <2>9. CASE BindDone(s)
    <3>1. InFlight' = InFlight /\ Tracked' = Tracked
      BY <2>9 DEF BindDone, Abort, InFlight, Tracked, TypeInv, LocalInv
    <3> QED BY <2>9, <3>1 DEF BindDone, Abort, CountInv
  <2>10. CASE RegisterUser(s)
    <3>1. /\ InFlight' = InFlight
          /\ Tracked' = Tracked \union {s} /\ s \notin Tracked
      BY <2>10 DEF RegisterUser, InFlight, Tracked, TypeInv, LocalInv
    <3>2. Cardinality(Tracked') = Cardinality(Tracked) + 1
      BY <3>1, CountedFinite, FS_AddElement
    <3> QED BY <2>10, <3>1, <3>2 DEF RegisterUser, CountInv
  <2>11. CASE Respond(s)
    <3>1. InFlight' = InFlight /\ Tracked' = Tracked
      BY <2>11 DEF Respond, InFlight, Tracked, TypeInv, LocalInv
    <3> QED BY <2>11, <3>1 DEF Respond, CountInv
  <2>12. CASE HandlerExit(s)
    <3>1. /\ InFlight' = InFlight \ {s} /\ s \in InFlight
          /\ Tracked' = Tracked
      BY <2>12 DEF HandlerExit, InFlight, Tracked, TypeInv, LocalInv
    <3>2. Cardinality(InFlight') = Cardinality(InFlight) - 1
      BY <3>1, CountedFinite, FS_RemoveElement
    <3> QED BY <2>12, <3>1, <3>2, CountedFinite DEF HandlerExit, CountInv
  <2> QED BY <1>6, <2>1, <2>2, <2>3, <2>4, <2>5, <2>6, <2>7, <2>8, <2>9, <2>10,
      <2>11, <2>12 DEF Handshake
<1>7. ASSUME NEW s \in Session, Monitor(s) PROVE CountInv'
  <2>1. CASE MonitorWakes(s)
    <3>1. InFlight' = InFlight /\ Tracked' = Tracked
      BY <2>1 DEF MonitorWakes, InFlight, Tracked, TypeInv, LocalInv
    <3> QED BY <2>1, <3>1 DEF MonitorWakes, CountInv
  <2>2. ASSUME NEW d \in Domain, MonitorUnroute(s, d) PROVE CountInv'
    <3>1. InFlight' = InFlight /\ Tracked' = Tracked
      BY <2>2 DEF MonitorUnroute, InFlight, Tracked, TypeInv, LocalInv
    <3> QED BY <2>2, <3>1 DEF MonitorUnroute, CountInv
  <2>3. CASE MonitorUnregister(s)
    <3>1. /\ InFlight' = InFlight
          /\ Tracked' = Tracked \ {s} /\ s \in Tracked
      BY <2>3 DEF MonitorUnregister, InFlight, Tracked, TypeInv, LocalInv
    <3>2. Cardinality(Tracked') = Cardinality(Tracked) - 1
      BY <3>1, CountedFinite, FS_RemoveElement
    <3> QED BY <2>3, <3>1, <3>2 DEF MonitorUnregister, CountInv
  <2> QED BY <1>7, <2>1, <2>2, <2>3 DEF Monitor
<1>8. CASE UNCHANGED vars
  BY <1>8 DEF vars, InFlight, Tracked, CountInv
<1> QED BY <1>1, <1>2, <1>3, <1>4, <1>5, <1>6, <1>7, <1>8 DEF Next

\* The counters are exact in every reachable state.
THEOREM Counting == Spec => []CountInv
<1>1. Init => CountInv
  <2> SUFFICES ASSUME Init PROVE CountInv
    OBVIOUS
  <2>1. InFlight = {} /\ Tracked = {}
    BY DEF Init, InFlight, Tracked
  <2> QED BY <2>1, FS_EmptySet DEF Init, CountInv
<1> QED BY <1>1, CountStep, Invariance, PTL DEF Spec

\* Type correctness, the ranges of the counters included: no counter is ever
\* decremented below zero and the semaphore is never overfilled.
THEOREM TypeCorrectness == Spec => []TypeOK
<1>1. Inv /\ CountInv => TypeOK
  BY CountedFinite DEF Inv, TypeInv, CountInv, TypeOK
<1> QED BY <1>1, Invariance, Counting, PTL

\* At most MaxConnections handshakes are ever in progress.
THEOREM HandshakeLimitHolds == Spec => []HandshakeLimit
<1>1. CountInv => HandshakeLimit
  BY DEF CountInv, HandshakeLimit
<1> QED BY <1>1, Counting, PTL

\* A server at rest reports exactly the open tunnels.
THEOREM GaugeSettlesHolds == Spec => []GaugeSettles
<1>1. Inv /\ CountInv => GaugeSettles
  <2> SUFFICES ASSUME Inv, CountInv, Settled
               PROVE  activeTunnels = Cardinality({s \in Session : Established(s)})
    BY DEF GaugeSettles
  <2>1. Tracked = {s \in Session : Established(s)}
    BY DEF Tracked, Settled, Established
  <2> QED BY <2>1 DEF CountInv
<1> QED BY <1>1, Invariance, Counting, PTL

-----------------------------------------------------------------------------
(* What an established tunnel can rely on.  The server reads the user       *)
(* registry in CheckUser and writes it much later, in RegisterUser, and a   *)
(* takeover does not wait for the monitor of the session it evicts.  These  *)
(* two are the only ways a user's sessions can disturb each other; Serial   *)
(* and Patient exclude them, for one user, at any limit and with force.     *)

\* A connection of u is taking over.
Ousting(u) == \E t \in Session : user[t] = u /\ pc[t] \in Evicting

\* The registries are exact for u: the converses of NoDanglingUser and
\* NoDanglingRoute.  Only one session of u is between the check and the end of
\* its monitor, but for the one a takeover has found and is removing, so what
\* it wrote is what the registries hold.
SerialInv(u) ==
    \A s \in Session : user[s] = u =>
        /\ pc[s] \in Unregistered => userSessions[u] = NoSession
        /\ Holding(s) => userSessions[u] = s
        /\ pc[s] \in Evicting =>
              \A t \in Session : user[t] = u /\ Holding(t) => old[s] = t
        /\ \A d \in Domain : WillUnroute(s, d) => Ousting(u) \/ routes[d] = s

USE DEF Evicting, Unregistered, Ousting

\* A step keeps the registries exact for u, whatever the other users' sessions
\* do at the same time.
LEMMA SerialStep ==
    ASSUME NEW u \in User, Inv, Serial(u), SerialInv(u), [Next]_vars,
           [Patient(u)]_vars
    PROVE  SerialInv(u)'
<1> USE DEF Inv
<1>1. CASE AcceptLoop
  <2>1. CASE LoopTop
    BY <2>1 DEF LoopTop, TypeInv, LocalInv, SerialInv, Holding, WillUnroute
  <2>2. CASE AcceptClosed
    BY <2>2 DEF AcceptClosed, TypeInv, LocalInv, SerialInv, Holding, WillUnroute
  <2>3. CASE Spawn
    BY <2>3 DEF Spawn, AcceptInv, TypeInv, LocalInv, SerialInv, Holding,
      WillUnroute
  <2>4. CASE SlotCancelled
    BY <2>4 DEF SlotCancelled, AcceptInv, TypeInv, LocalInv, SerialInv, Holding,
      WillUnroute
  <2>5. ASSUME NEW s \in Session, Accept(s) PROVE SerialInv(u)'
    BY <2>5 DEF Accept, TypeInv, LocalInv, SerialInv, Holding, WillUnroute
  <2> QED BY <1>1, <2>1, <2>2, <2>3, <2>4, <2>5 DEF AcceptLoop
<1>2. CASE AcceptError
  BY <1>2 DEF AcceptError, TypeInv, LocalInv, SerialInv, Holding, WillUnroute
<1>3. CASE Shutdown
  <2>1. CASE ShutdownCancel
    BY <2>1 DEF ShutdownCancel, TypeInv, LocalInv, SerialInv, Holding,
      WillUnroute
  <2>2. CASE ShutdownCloseListener
    BY <2>2 DEF ShutdownCloseListener, TypeInv, LocalInv, SerialInv, Holding,
      WillUnroute
  <2>3. CASE ShutdownReturns
    BY <2>3 DEF ShutdownReturns, TypeInv, LocalInv, SerialInv, Holding,
      WillUnroute
  <2> QED BY <1>3, <2>1, <2>2, <2>3 DEF Shutdown
<1>4. ASSUME NEW s \in Session, Dial(s) PROVE SerialInv(u)'
  BY <1>4 DEF Dial, TypeInv, LocalInv, SerialInv, Holding, WillUnroute
<1>5. ASSUME NEW s \in Session, PeerCloses(s) PROVE SerialInv(u)'
  BY <1>5 DEF PeerCloses, TypeInv, LocalInv, SerialInv, Holding, WillUnroute
<1>6. ASSUME NEW s \in Session, Handshake(s) PROVE SerialInv(u)'
  <2>1. CASE SetupYamuxSession(s)
    <3>1. \A t \in Session : pc'[t] = pc[t] \/ (t = s /\ user[t] = NoUser)
      BY <2>1 DEF SetupYamuxSession, TypeInv, LocalInv
    <3>2. \A t \in Session : user[t] = u =>
            (Holding(t)' <=> Holding(t)) /\ \A d \in Domain :
              WillUnroute(t, d)' <=> WillUnroute(t, d)
      BY <2>1, <3>1 DEF SetupYamuxSession, Holding, WillUnroute
    <3>3. UNCHANGED <<user, old, routes, userSessions>>
      BY <2>1 DEF SetupYamuxSession
    <3> QED BY <3>1, <3>2, <3>3 DEF SerialInv
  <2>2. CASE Authenticate(s)
    BY <2>2 DEF Authenticate, Abort, TypeInv, LocalInv, SerialInv, Holding,
      WillUnroute
  <2>3. CASE CheckUser(s)
    BY <2>3 DEF CheckUser, Abort, TypeInv, LocalInv, SerialInv, Holding,
      WillUnroute
  <2>4. ASSUME NEW d \in Domain, EvictDomain(s, d) PROVE SerialInv(u)'
    BY <2>4 DEF EvictDomain, TypeInv, LocalInv, SerialInv, Holding,
      WillUnroute
  <2>5. CASE EvictSession(s)
    BY <2>5 DEF EvictSession, TypeInv, LocalInv, SerialInv,
      Holding, WillUnroute
  <2>6. CASE EvictUser(s)
    <3>1. CASE user[s] = u
      <4>1. vars' # vars
        BY <2>6, SentinelAssumption DEF EvictUser, TypeInv, vars
      <4>2. \A t \in Session : user[t] = u => ~Holding(t)
        BY <2>6, <3>1, <4>1 DEF Patient
      <4>3. \A t \in Session : user[t] = u => pc[t] \notin Unregistered
        BY <2>6, <3>1 DEF EvictUser, Serial
      <4>4. \A t \in Session, d \in Domain : user[t] = u => ~WillUnroute(t, d)
        BY <4>2, <4>3 DEF Holding, WillUnroute
      <4> QED BY <2>6, <3>1, <4>2, <4>3, <4>4 DEF EvictUser, TypeInv, SerialInv, Holding,
            WillUnroute
    <3>2. CASE user[s] # u
      <4>1. Ousting(u)' <=> Ousting(u)
        BY <2>6, <3>2 DEF EvictUser, TypeInv
      <4> HIDE DEF Ousting
      <4> QED BY <2>6, <3>2, <4>1 DEF EvictUser, TypeInv, LocalInv, SerialInv, Holding,
            WillUnroute
    <3> QED BY <3>1, <3>2
  <2>7. CASE ProcessTunnelRequest(s)
    BY <2>7 DEF ProcessTunnelRequest, Abort, TypeInv, LocalInv, SerialInv,
      Holding, WillUnroute
  <2>8. ASSUME NEW d \in Domain, BindDomain(s, d) PROVE SerialInv(u)'
    BY <2>8 DEF BindDomain, Serial, TypeInv, LocalInv, SerialInv, Holding,
      WillUnroute
  <2>9. CASE BindDone(s)
    BY <2>9 DEF BindDone, Abort, TypeInv, LocalInv, SerialInv, Holding,
      WillUnroute
  <2>10. CASE RegisterUser(s)
    BY <2>10 DEF RegisterUser, Serial, TypeInv, LocalInv, SerialInv,
      Holding, WillUnroute
  <2>11. CASE Respond(s)
    BY <2>11 DEF Respond, TypeInv, LocalInv, SerialInv, Holding, WillUnroute
  <2>12. CASE HandlerExit(s)
    BY <2>12 DEF HandlerExit, TypeInv, LocalInv, SerialInv, Holding, WillUnroute
  <2> QED BY <1>6, <2>1, <2>2, <2>3, <2>4, <2>5, <2>6, <2>7, <2>8, <2>9, <2>10,
      <2>11, <2>12 DEF Handshake
<1>7. ASSUME NEW s \in Session, Monitor(s) PROVE SerialInv(u)'
  <2>1. CASE MonitorWakes(s)
    BY <2>1 DEF MonitorWakes, TypeInv, LocalInv, SerialInv, Holding, WillUnroute
  <2>2. ASSUME NEW d \in Domain, MonitorUnroute(s, d) PROVE SerialInv(u)'
    BY <2>2 DEF MonitorUnroute, TypeInv, LocalInv, SerialInv, Holding,
      WillUnroute
  <2>3. CASE MonitorUnregister(s)
    BY <2>3 DEF MonitorUnregister, TypeInv, LocalInv, SerialInv, Holding,
      WillUnroute
  <2> QED BY <1>7, <2>1, <2>2, <2>3 DEF Monitor
<1>8. CASE UNCHANGED vars
  BY <1>8 DEF vars, TypeInv, LocalInv, SerialInv, Holding, WillUnroute
<1> QED BY <1>1, <1>2, <1>3, <1>4, <1>5, <1>6, <1>7, <1>8 DEF Next

\* What the invariant says of the sessions that are up.
RoutedFor(u) ==
    /\ \A s \in Session : user[s] = u /\ Established(s) =>
          /\ userSessions[u] = s
          /\ Replaced(s) \/ \A d \in bound[s] : routes[d] = s
    /\ \A s, t \in Session :
          user[s] = u /\ user[t] = u /\ Established(s) /\ Established(t) => s = t

LEMMA SerialIsRouted ==
    ASSUME NEW u \in User, Inv, SerialInv(u)
    PROVE  RoutedFor(u)
<1>1. \A s \in Session : Established(s) => Holding(s)
  BY DEF Established, Holding
<1>2. \A s \in Session : Established(s) => \A d \in bound[s] : WillUnroute(s, d)
  BY DEF Established, WillUnroute
<1>3. \A s \in Session : user[s] = u /\ Established(s) /\ Ousting(u) => Replaced(s)
  BY <1>1 DEF SerialInv, Replaced
<1> QED BY <1>1, <1>2, <1>3 DEF Inv, TypeInv, SerialInv, RoutedFor

\* A user whose handshakes follow one another, and whose takeovers wait for the
\* old session's cleanup, has at most one established session, the one it is
\* known by, and it receives the traffic of all its domains until a takeover
\* removes it: other users' handshakes, takeovers and disconnects, orderly or
\* not and as many at a time as the semaphore admits, cannot disturb that.
THEOREM OrderlyIsRouted ==
    ASSUME NEW u \in User
    PROVE  Spec /\ []Serial(u) /\ [][Patient(u)]_vars => []RoutedFor(u)
<1>1. Init => SerialInv(u)
  BY DEF Init, SerialInv, Holding, WillUnroute
<1>2. Inv /\ Serial(u) /\ SerialInv(u) /\ [Next]_vars /\ [Patient(u)]_vars
        => SerialInv(u)'
  BY SerialStep
<1>3. Inv /\ SerialInv(u) => RoutedFor(u)
  BY SerialIsRouted
<1> QED BY <1>1, <1>2, <1>3, Invariance, PTL DEF Spec

\* The same of all users.
Orderly == [](\A u \in User : Serial(u)) /\ [][\A u \in User : Patient(u)]_vars

LEMMA OrderlyRun == Spec /\ Orderly => [](\A u \in User : RoutedFor(u))
<1> DEFINE SInv == \A u \in User : SerialInv(u)
<1>1. Init => SInv
  BY DEF Init, SerialInv, Holding, WillUnroute
<1>2. /\ Inv /\ (\A u \in User : Serial(u)) /\ SInv
      /\ [Next]_vars /\ [\A u \in User : Patient(u)]_vars
      => SInv'
  <2> SUFFICES ASSUME Inv, \A u \in User : Serial(u), SInv, [Next]_vars,
                      [\A u \in User : Patient(u)]_vars,
                      NEW u \in User
               PROVE  SerialInv(u)'
    OBVIOUS
  <2>1. [Patient(u)]_vars
    OBVIOUS
  <2> QED BY <2>1, SerialStep
<1>3. Inv /\ SInv => \A u \in User : RoutedFor(u)
  BY SerialIsRouted
<1> HIDE DEF SInv
<1> QED BY <1>1, <1>2, <1>3, Invariance, PTL DEF Spec, Orderly

\* An established session has its user's entry, and all its routes until it is
\* replaced, for any limit and with clients that force, as long as handshakes of
\* one user follow one another and takeovers wait for the old session's cleanup.
THEOREM EstablishedIsRoutedHolds ==
    Spec /\ Orderly => []EstablishedIsRouted
<1>1. Inv /\ (\A u \in User : RoutedFor(u)) => EstablishedIsRouted
  BY DEF Inv, LocalInv, RoutedFor, EstablishedIsRouted, Established
<1> QED BY <1>1, OrderlyRun, Invariance, PTL

\* One active session per user, under the same conditions.
THEOREM OneActiveSessionHolds ==
    Spec /\ Orderly => []OneActiveSession
<1>1. Inv /\ (\A u \in User : RoutedFor(u)) => OneActiveSession
  BY DEF Inv, LocalInv, RoutedFor, OneActiveSession, Established
<1> QED BY <1>1, OrderlyRun, Invariance, PTL

\* The semaphore gives the first condition when it admits one handshake.
THEOREM OneSlotIsSerial ==
    ASSUME MaxConnections = 1 PROVE Spec => [](\A u \in User : Serial(u))
<1>1. CountInv => \A u \in User : Serial(u)
  <2> SUFFICES ASSUME CountInv PROVE \A u \in User : Serial(u)
    OBVIOUS
  <2>1. Cardinality(InFlight) <= 1
    BY DEF CountInv
  <2>2. \A s, t \in InFlight : s = t
    <3>1. InFlight = {} \/ \E x : InFlight = {x}
      BY <2>1, CountedFinite, FS_EmptySet, FS_Singleton
    <3> QED BY <3>1
  <2> QED BY <2>2 DEF Serial, InFlight
<1> QED BY <1>1, Counting, PTL

-----------------------------------------------------------------------------
(* Sessions that are gone, and what a graceful shutdown leaves.             *)

\* No step brings a retired connection back.
LEMMA RetiredStep ==
    ASSUME Inv, [Next]_vars, NEW s \in Session, Retired(s) PROVE Retired(s)'
<1> USE DEF Inv, Retired, TypeInv, LocalInv
<1>1. CASE AcceptLoop
  BY <1>1 DEF AcceptLoop, LoopTop, AcceptClosed, Spawn, SlotCancelled, Accept, AcceptInv
<1>2. CASE AcceptError
  BY <1>2 DEF AcceptError
<1>3. CASE Shutdown
  BY <1>3 DEF Shutdown, ShutdownCancel, ShutdownCloseListener, ShutdownReturns
<1>4. ASSUME NEW t \in Session, Dial(t) PROVE Retired(s)'
  BY <1>4 DEF Dial
<1>5. ASSUME NEW t \in Session, PeerCloses(t) PROVE Retired(s)'
  BY <1>5 DEF PeerCloses
<1>6. ASSUME NEW t \in Session, Handshake(t) PROVE Retired(s)'
  <2>1. CASE SetupYamuxSession(t) \/ Authenticate(t) \/ CheckUser(t)
    BY <2>1 DEF SetupYamuxSession, Authenticate, CheckUser, Abort
  <2>2. CASE (\E d \in Domain : EvictDomain(t, d)) \/ EvictSession(t) \/ EvictUser(t)
    BY <2>2 DEF EvictDomain, EvictSession, EvictUser
  <2>3. CASE ProcessTunnelRequest(t) \/ (\E d \in Domain : BindDomain(t, d)) \/ BindDone(t)
    BY <2>3 DEF ProcessTunnelRequest, BindDomain, BindDone, Abort
  <2>4. CASE RegisterUser(t) \/ Respond(t) \/ HandlerExit(t)
    BY <2>4 DEF RegisterUser, Respond, HandlerExit
  <2> QED BY <1>6, <2>1, <2>2, <2>3, <2>4 DEF Handshake
<1>7. ASSUME NEW t \in Session, Monitor(t) PROVE Retired(s)'
  BY <1>7 DEF Monitor, MonitorWakes, MonitorUnroute, MonitorUnregister
<1>8. CASE UNCHANGED vars
  BY <1>8 DEF vars
<1> QED BY <1>1, <1>2, <1>3, <1>4, <1>5, <1>6, <1>7, <1>8 DEF Next

Forgotten(s) ==
    /\ \A d \in Domain : routes[d] # s
    /\ \A u \in User : userSessions[u] # s

\* The safety half of ClosedIsForgotten: a connection no goroutine looks after
\* any more is in neither registry and never comes back to one, whatever later
\* handshakes, takeovers and monitors of the same user and hosts do.  That a
\* closed session gets that far is the liveness half.
THEOREM RetiredIsForgotten ==
    ASSUME NEW s \in Session PROVE Spec => [](Retired(s) => []Forgotten(s))
<1>1. Inv /\ [Next]_vars /\ Retired(s) => Retired(s)'
  BY RetiredStep
<1>2. Inv /\ Retired(s) => Forgotten(s)
  <2> SUFFICES ASSUME Inv, Retired(s) PROVE Forgotten(s)
    OBVIOUS
  <2>1. \A d \in Domain : ~WillUnroute(s, d)
    BY DEF WillUnroute, Retired, Inv, LocalInv
  <2>2. ~Holding(s)
    BY DEF Holding, Retired, Inv, LocalInv
  <2> QED BY <2>1, <2>2 DEF Forgotten, Holding, Inv, NoDanglingRoute, NoDanglingUser
<1> QED BY <1>1, <1>2, Invariance, PTL DEF Spec

\* Wait has seen the counter at zero; the loop may still hold a connection it
\* had accepted before, and starts no other goroutine than that one's.
GracefulInv ==
    /\ shutdown = "running" <=> ~ctxDone
    /\ listening <=> shutdown \in {"running", "cancelled"}
    /\ shutdown = "graceful" => wg <= IF loop = "slot" THEN 0 ELSE 1

LEMMA GracefulStep ==
    Inv /\ CountInv /\ GracefulInv /\ [Next]_vars => GracefulInv'
<1> SUFFICES ASSUME Inv, CountInv, GracefulInv, [Next]_vars PROVE GracefulInv'
  OBVIOUS
<1> USE DEF GracefulInv
<1>0. wg \in Nat /\ TypeInv
  BY CountedFinite DEF CountInv, Inv
<1>1. CASE AcceptLoop
  <2>1. CASE LoopTop \/ AcceptClosed \/ SlotCancelled
    BY <1>0, <2>1 DEF LoopTop, AcceptClosed, SlotCancelled
  <2>2. CASE Spawn
    BY <1>0, <2>2 DEF Spawn
  <2>3. CASE \E s \in Session : Accept(s)
    BY <1>0, <2>3 DEF Accept
  <2> QED BY <1>1, <2>1, <2>2, <2>3 DEF AcceptLoop
<1>2. CASE AcceptError
  BY <1>0, <1>2 DEF AcceptError
<1>3. CASE Shutdown
  BY <1>0, <1>3 DEF Shutdown, ShutdownCancel, ShutdownCloseListener, ShutdownReturns, TypeInv
<1>4. ASSUME NEW s \in Session, Dial(s) \/ PeerCloses(s) \/ Monitor(s) PROVE GracefulInv'
  BY <1>4 DEF Dial, PeerCloses, Monitor, MonitorWakes, MonitorUnroute, MonitorUnregister
<1>5. ASSUME NEW s \in Session, Handshake(s) PROVE GracefulInv'
  <2>1. UNCHANGED <<loop, ctxDone, listening, shutdown>> /\ wg' <= wg /\ wg' \in Int
    BY <1>0, <1>5 DEF Handshake, SetupYamuxSession, Authenticate, CheckUser, EvictDomain,
       EvictSession, EvictUser, ProcessTunnelRequest, BindDomain, BindDone, RegisterUser,
       Respond, HandlerExit
  <2> QED BY <1>0, <2>1
<1>6. CASE UNCHANGED vars
  BY <1>6 DEF vars
<1> QED BY <1>1, <1>2, <1>3, <1>4, <1>5, <1>6 DEF Next

\* A Shutdown that reports "all connections closed gracefully" means what it
\* says of the handshakes but for one: the connection Accept had returned and
\* the loop had not yet added to the WaitGroup.
GracefulLeavesOne == shutdown = "graceful" => Cardinality(InFlight) <= 1

THEOREM GracefulLeavesOneHolds == Spec => []GracefulLeavesOne
<1>1. Init => GracefulInv
  BY DEF Init, GracefulInv
<1>2. Inv /\ CountInv /\ GracefulInv /\ [Next]_vars => GracefulInv'
  BY GracefulStep
<1>3. CountInv /\ GracefulInv => GracefulLeavesOne
  BY CountedFinite DEF CountInv, GracefulInv, GracefulLeavesOne
<1> QED BY <1>1, <1>2, <1>3, Invariance, Counting, PTL DEF Spec

=============================================================================
