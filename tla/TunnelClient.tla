---------------------------- MODULE TunnelClient ----------------------------
(***************************************************************************)
(* A running `gopublic start <port>`: Tunnel.StartWithReconnect, Start and  *)
(* handleSession in one goroutine (the runner), Tunnel.Shutdown in the one  *)
(* that waits for the context, and the proxied streams of ClientProxy       *)
(* (internal/client/tunnel/tunnel.go and reconnect.go).                     *)
(*                                                                          *)
(* The server is reduced to what a client can tell of it: whether the user  *)
(* is registered, and for whom.  "ours" is the session of this client;      *)
(* "stale" is one this client has lost and the server still believes in;    *)
(* "other" belongs to another client of the same user.                      *)
(***************************************************************************)
EXTENDS Integers, FiniteSets

CONSTANTS
    Stream,         \* of ClientProxy
    ForceFlag,      \* the values of Tunnel.Force users choose
    Rival,          \* another client of the same user may be around
    InitialDelay, MaxDelay, Multiplier, MaxAttempts   \* ReconnectConfig

ASSUME StreamAssumption == IsFiniteSet(Stream)
ASSUME FlagAssumption == ForceFlag \subseteq BOOLEAN /\ Rival \in BOOLEAN
ASSUME DelayAssumption ==
    /\ InitialDelay \in Nat /\ MaxDelay \in Nat /\ InitialDelay <= MaxDelay
    /\ Multiplier \in Nat \ {0} /\ MaxAttempts \in Nat

VARIABLES
    at, remote, local, told, up, down, tracked, wg, openConns,  \* of ClientProxy
    force,      \* Tunnel.Force
    ctxDone,    \* the context is cancelled
    closed,     \* Tunnel.closed
    shutdown,   \* where Shutdown stands
    runner,     \* where the runner stands
    session,    \* Tunnel.session is set
    link,       \* the yamux session of the current attempt
    reply,      \* the server's InitResponse on its way
    attempt, delay,
    result,     \* what Start returned
    held,       \* for whom the server has the user registered
    served,     \* some attempt has been established (history)
    reached     \* the current attempt has been established (history)

Proxy == INSTANCE ClientProxy

proxyVars == <<at, remote, local, told, up, down, tracked, wg, openConns>>
userVars == <<force, ctxDone, closed, shutdown>>
retryVars == <<attempt, delay>>
history == <<served, reached>>
vars == <<proxyVars, userVars, runner, session, link, reply, retryVars, result,
          held, history>>

\* attempt is only compared with 1 and with MaxAttempts: it may stop there.
AttemptCap == IF MaxAttempts = 0 THEN 2 ELSE MaxAttempts + 1

Init ==
    /\ Proxy!Init
    /\ force \in ForceFlag
    /\ ctxDone = FALSE /\ closed = FALSE /\ shutdown = "idle"
    /\ runner = "top"
    /\ session = FALSE /\ link = "none" /\ reply = "none"
    /\ attempt = 0 /\ delay = InitialDelay
    /\ result = "none"
    /\ held \in IF Rival THEN {"free", "other"} ELSE {"free"}
    /\ served = FALSE /\ reached = FALSE

-----------------------------------------------------------------------------
(* The server, the network and the user.                                    *)

Cancel ==
    /\ ~ctxDone
    /\ ctxDone' = TRUE
    /\ UNCHANGED <<proxyVars, force, closed, shutdown, runner, session, link, reply,
                   retryVars, result, held, history>>

\* The handshake as the server decides it.
ServerAnswers ==
    /\ runner = "await" /\ link = "open" /\ reply = "none"
    /\ \/ /\ held = "free" \/ force
          /\ reply' = "success"
          /\ held' = "ours"
       \/ /\ held # "free" /\ ~force
          /\ reply' = "conflict"
          /\ UNCHANGED held
       \/ /\ reply' = "error"
          /\ UNCHANGED held
    /\ UNCHANGED <<proxyVars, userVars, runner, session, link, retryVars, result, history>>

\* What becomes of the server's entry when the client's end is closed, and
\* what a closed link does to the streams on it.
Forsaken == IF held = "ours" THEN "stale" ELSE held

CloseLink ==
    /\ link' = "closed"
    /\ remote' = Proxy!Severed
    /\ UNCHANGED <<at, local, told, up, down, tracked, wg, openConns>>

\* The network fails, or the machine slept (the ticker of handleSession).
LinkDrops ==
    /\ link = "open"
    /\ CloseLink
    /\ held' = Forsaken
    /\ UNCHANGED <<userVars, runner, session, reply, retryVars, result, history>>

\* The server ends the session: it stops, or another client takes over.
ServerCloses ==
    /\ link = "open"
    /\ CloseLink
    /\ held' \in IF held # "ours" THEN {held}
                 ELSE IF Rival THEN {"free", "other"} ELSE {"free"}
    /\ UNCHANGED <<userVars, runner, session, reply, retryVars, result, history>>

\* The monitor of a lost session wakes up; a rival comes or goes.
ServerForgets ==
    /\ held = "stale" /\ held' = "free"
    /\ UNCHANGED <<proxyVars, userVars, runner, session, link, reply, retryVars,
                   result, history>>

RivalMoves ==
    /\ Rival
    /\ held \in {"free", "other"}
    /\ held' = IF held = "free" THEN "other" ELSE "free"
    /\ UNCHANGED <<proxyVars, userVars, runner, session, link, reply, retryVars,
                   result, history>>

-----------------------------------------------------------------------------
(* StartWithReconnect.                                                      *)

Return(r) == runner' = "returned" /\ result' = r

Top ==
    /\ runner = "top"
    /\ \/ ctxDone /\ Return("cancelled") /\ UNCHANGED attempt
       \/ /\ ~ctxDone
          /\ attempt' = IF attempt < AttemptCap THEN attempt + 1 ELSE attempt
          /\ IF MaxAttempts > 0 /\ attempt' > MaxAttempts
             THEN Return("exhausted")
             ELSE /\ runner' = IF attempt' > 1 THEN "wait" ELSE "dial"
                  /\ UNCHANGED result
    /\ UNCHANGED <<proxyVars, userVars, session, link, reply, delay, held, history>>

\* time.After(delay), or the cancelled context.
Wait ==
    /\ runner = "wait"
    /\ \/ runner' = "dial" /\ UNCHANGED result
       \/ ctxDone /\ Return("cancelled")
    /\ UNCHANGED <<proxyVars, userVars, session, link, reply, retryVars, held, history>>

\* Mutation: the delay is not capped.
NextDelayUncapped == delay * Multiplier

NextDelay == IF delay * Multiplier > MaxDelay THEN MaxDelay ELSE delay * Multiplier

\* Mutation: only a shutdown is retried.
AfterStartGivesUp ==
    /\ runner = "after"
    /\ reached' = FALSE
    /\ \/ result # "ended" /\ runner' = "returned" /\ UNCHANGED <<retryVars, result>>
       \/ /\ result = "ended"
          /\ attempt' = 0 /\ delay' = InitialDelay
          /\ runner' = "top" /\ result' = "none"
    /\ UNCHANGED <<proxyVars, userVars, session, link, reply, held, served>>

\* What the loop does with the outcome of Start.
AfterStart ==
    /\ runner = "after"
    /\ reached' = FALSE
    /\ \/ /\ result = "conflict"
          /\ runner' = "returned"
          /\ UNCHANGED <<retryVars, result>>
       \/ /\ result = "error"
          /\ delay' = NextDelay
          /\ runner' = "top" /\ result' = "none"
          /\ UNCHANGED attempt
       \/ /\ result = "ended"
          /\ attempt' = 0 /\ delay' = InitialDelay
          /\ runner' = "top" /\ result' = "none"
    /\ UNCHANGED <<proxyVars, userVars, session, link, reply, held, served>>

-----------------------------------------------------------------------------
(* Start and handleSession.                                                 *)

\* A return from handleSession, or from Start before it.
Fail(r) == runner' = "cleanup" /\ result' = r

Dial ==
    /\ runner = "dial"
    /\ \/ runner' = "check" /\ UNCHANGED result
       \/ Fail("error")
    /\ UNCHANGED <<proxyVars, userVars, session, link, reply, retryVars, held, history>>

\* The first look at closed, under mu.
CheckClosed ==
    /\ runner = "check"
    /\ IF closed THEN Fail("error") ELSE runner' = "register" /\ UNCHANGED result
    /\ UNCHANGED <<proxyVars, userVars, session, link, reply, retryVars, held, history>>

\* yamux.Client, and t.session is set, under mu again.
RegisterSession ==
    /\ runner = "register"
    /\ \/ /\ session' = TRUE /\ link' = "open"
          /\ runner' = "send"
          /\ UNCHANGED result
       \/ Fail("error") /\ UNCHANGED <<session, link>>
    /\ UNCHANGED <<proxyVars, userVars, reply, retryVars, held, history>>

\* The two requests are written within their deadline.
SendRequests ==
    /\ runner = "send"
    /\ \/ link = "open" /\ runner' = "await" /\ UNCHANGED result
       \/ Fail("error")
    /\ UNCHANGED <<proxyVars, userVars, session, link, reply, retryVars, held, history>>

ReadReply ==
    /\ runner = "await"
    /\ reply # "none"
    /\ \/ /\ reply = "success"
          /\ runner' = "established"
          /\ served' = TRUE /\ reached' = TRUE
          /\ UNCHANGED result
       \/ reply = "conflict" /\ Fail("conflict") /\ UNCHANGED history
       \/ reply = "error" /\ Fail("error") /\ UNCHANGED history
    /\ reply' = "none"
    /\ UNCHANGED <<proxyVars, userVars, session, link, retryVars, held>>

\* The deadline passes or the link is gone.  The requests may be in the
\* server's hands by now: it can register a session nobody will use.
AwaitFails ==
    /\ runner = "await"
    /\ Fail("error")
    /\ reply' = "none"
    /\ held' \in {held} \union
          (IF reply = "none" /\ (held = "free" \/ force) THEN {"stale"} ELSE {})
    /\ UNCHANGED <<proxyVars, userVars, session, link, retryVars, history>>

AcceptStream(s) ==
    /\ runner = "established" /\ link = "open"
    /\ Proxy!Spawn(s)
    /\ UNCHANGED <<userVars, runner, session, link, reply, retryVars, result, held,
                   history>>

\* Accept fails; closed tells a shutdown from a lost session.
SessionEnds ==
    /\ runner = "established" /\ link = "closed"
    /\ IF closed THEN runner' = "drain" /\ UNCHANGED result ELSE Fail("error")
    /\ UNCHANGED <<proxyVars, userVars, session, link, reply, retryVars, held, history>>

\* wg.Wait, without a deadline.
Drain ==
    /\ runner = "drain" /\ wg = 0
    /\ Fail("ended")
    /\ UNCHANGED <<proxyVars, userVars, session, link, reply, retryVars, held, history>>

\* Mutation: the failed session is forgotten, not closed.
CleanupForgets ==
    /\ runner = "cleanup"
    /\ runner' = "after"
    /\ session' = FALSE
    /\ UNCHANGED <<proxyVars, userVars, link, reply, retryVars, result, held, history>>

\* The deferred functions: t.session is reset, session and conn are closed.
Cleanup ==
    /\ runner = "cleanup"
    /\ runner' = "after"
    /\ session' = FALSE
    /\ IF link = "open"
       THEN CloseLink /\ held' = Forsaken
       ELSE UNCHANGED <<proxyVars, link, held>>
    /\ UNCHANGED <<userVars, reply, retryVars, result, history>>

Runner == Top \/ Wait \/ AfterStart \/ Dial \/ CheckClosed \/ RegisterSession
            \/ SendRequests \/ ReadReply \/ SessionEnds \/ Drain \/ Cleanup

-----------------------------------------------------------------------------
(* Shutdown, from the goroutine that waits for the context.                 *)

\* Mutation: the flag is set, the session stays open.
ShutdownLeavesSession ==
    /\ shutdown = "idle" /\ ctxDone
    /\ shutdown' = "waiting" /\ closed' = TRUE
    /\ remote' = [s \in Stream |-> IF s \in tracked THEN "closed" ELSE remote[s]]
    /\ UNCHANGED <<at, local, told, up, down, tracked, wg, openConns>>
    /\ UNCHANGED <<force, ctxDone, runner, session, link, reply, retryVars, result, held, history>>

\* One critical section: closed is set, the session that is registered and
\* the streams that are tracked are closed.
ShutdownCloses ==
    /\ shutdown = "idle" /\ ctxDone
    /\ shutdown' = "waiting" /\ closed' = TRUE
    /\ IF session /\ link = "open"
       THEN CloseLink /\ held' = Forsaken
       ELSE /\ remote' = [s \in Stream |-> IF s \in tracked THEN "closed" ELSE remote[s]]
            /\ UNCHANGED <<at, local, told, up, down, tracked, wg, openConns, link, held>>
    /\ UNCHANGED <<force, ctxDone, runner, session, reply, retryVars, result, history>>

\* Every proxy has finished, or five seconds have passed.
ShutdownReturns ==
    /\ shutdown = "waiting"
    /\ shutdown' = "done"
    /\ UNCHANGED <<proxyVars, force, ctxDone, closed, runner, session, link, reply,
                   retryVars, result, held, history>>

-----------------------------------------------------------------------------
StreamStep(s) ==
    /\ Proxy!ProxyStream(s) \/ Proxy!Environment(s)
    /\ UNCHANGED <<userVars, runner, session, link, reply, retryVars, result, held,
                   history>>

Server == ServerAnswers \/ LinkDrops \/ ServerCloses \/ ServerForgets \/ RivalMoves

Next ==
    \/ Cancel \/ Server \/ Runner \/ AwaitFails
    \/ ShutdownCloses \/ ShutdownReturns
    \/ \E s \in Stream : AcceptStream(s) \/ StreamStep(s)

Spec == Init /\ [][Next]_vars

\* The runner's steps are all bounded by a deadline, except the wait for the
\* streams and the wait for the session to end; the goroutine that waits for
\* the context runs.  The services are polite, see ClientProxy.
Mine(A) == A /\ UNCHANGED <<userVars, runner, session, link, reply, retryVars,
                            result, held, history>>

Fairness ==
    /\ WF_vars(Runner \/ AwaitFails)
    /\ WF_vars(ShutdownCloses) /\ WF_vars(ShutdownReturns)
    /\ \A s \in Stream :
        /\ WF_vars(Mine(Proxy!Begin(s) \/ Proxy!DialLocal(s) \/ Proxy!CopyDone(s)
                          \/ Proxy!Finish(s)))
        /\ WF_vars(Mine(Proxy!ReadRequest(s) /\ remote[s] # "open"))
        /\ WF_vars(Mine(Proxy!Exchange(s)))
        /\ WF_vars(Mine(Proxy!Reply(s) /\ remote[s] = "closed"))
        /\ WF_vars(Mine(Proxy!CopyUp(s) /\ remote[s] # "open"))
        /\ WF_vars(Mine(Proxy!CopyDown(s) /\ local[s] = "eof"))
        /\ WF_vars(Mine(Proxy!LocalCloses(s) /\ told[s]))

FairSpec == Spec /\ Fairness

\* A network and a server that work often enough.
Reachable ==
    /\ SF_vars(Dial /\ runner' = "check") /\ SF_vars(RegisterSession /\ session')
    /\ SF_vars(SendRequests /\ runner' = "await")
    /\ SF_vars(ServerAnswers /\ reply' = "success")
    /\ SF_vars(ReadReply /\ reached')

-----------------------------------------------------------------------------
(* Properties.                                                              *)

TypeOK ==
    /\ Proxy!TypeOK
    /\ force \in BOOLEAN
    /\ ctxDone \in BOOLEAN /\ closed \in BOOLEAN /\ session \in BOOLEAN
    /\ shutdown \in {"idle", "waiting", "done"}
    /\ runner \in {"top", "wait", "dial", "check", "register", "send", "await",
                   "established", "drain", "cleanup", "after", "returned"}
    /\ link \in {"none", "open", "closed"}
    /\ reply \in {"none", "success", "conflict", "error"}
    /\ attempt \in 0..AttemptCap /\ delay \in InitialDelay..MaxDelay
    /\ result \in {"none", "error", "conflict", "ended", "cancelled", "exhausted"}
    /\ held \in {"free", "ours", "stale", "other"}
    /\ served \in BOOLEAN /\ reached \in BOOLEAN

\* At most one session of the client is alive, and Shutdown can find it: an
\* open link is the one of the attempt in progress, registered under mu.
OneSession ==
    link = "open" => session /\ runner \in {"send", "await", "established", "cleanup"}

\* Start reports a shutdown only after every proxied stream of this and of
\* earlier sessions has finished.
DrainsBeforeReturn ==
    [][runner = "drain" /\ runner' # "drain"
          => \A s \in Stream : ~Proxy!Live(s)]_vars

\* Cancelling the context ends the runner, in whatever step of an attempt it
\* is and with any number of streams, provided Shutdown does not fall between
\* the check of closed and the registration of the session.
ShutdownStopsRunner ==
    [](closed => runner # "register") => (ctxDone ~> runner = "returned")

\* A forced client whose server can be reached always gets its tunnel back,
\* whatever has become of its earlier sessions and of rival clients.
Recovers ==
    Reachable =>
        ((force /\ served /\ runner # "established")
            ~> (runner = "established" \/ ctxDone))

=============================================================================
