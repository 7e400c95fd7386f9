------------------------- MODULE SharedTunnelClient -------------------------
(***************************************************************************)
(* A running `gopublic start` with a project file: TunnelManager.StartAll   *)
(* and the reconnecting loop and session of SharedTunnel                    *)
(* (internal/client/tunnel/manager.go and shared.go).  It differs from      *)
(* TunnelClient in how it stops (a goroutine per session waits for the      *)
(* context and closes that session; no flag is involved) and in what an     *)
(* ended session means to the loop.  The streams are those of ClientProxy;  *)
(* nothing here waits for them.  Nothing calls StopAll or Shutdown, so      *)
(* closed stays false.  The server is reduced as in TunnelClient.           *)
(***************************************************************************)
EXTENDS Integers

CONSTANTS
    Forced,
    InitialDelay, MaxDelay, Multiplier, MaxAttempts   \* ReconnectConfig

ASSUME ForceAssumption == Forced \in BOOLEAN
ASSUME DelayAssumption ==
    /\ InitialDelay \in Nat /\ MaxDelay \in Nat /\ InitialDelay <= MaxDelay
    /\ Multiplier \in Nat \ {0} /\ MaxAttempts \in Nat

VARIABLES
    ctxDone,    \* the context is cancelled
    runner,     \* where StartWithReconnect and Start stand
    link,       \* the yamux session of the current attempt
    watched,    \* the goroutine that closes it on cancellation is there
    reply,      \* the server's InitResponse on its way
    attempt, delay,
    result,     \* what Start returned
    held        \* whether the server has the user registered

retryVars == <<attempt, delay>>
linkVars == <<link, watched>>
vars == <<ctxDone, runner, linkVars, reply, retryVars, result, held>>

\* attempt is only compared with MaxAttempts: it may stop there.
AttemptCap == IF MaxAttempts = 0 THEN 1 ELSE MaxAttempts

Init ==
    /\ ctxDone = FALSE
    /\ runner = "top"
    /\ link = "none" /\ watched = FALSE
    /\ reply = "none"
    /\ attempt = 0 /\ delay = InitialDelay
    /\ result = "none"
    /\ held = "free"

-----------------------------------------------------------------------------
(* The server, the network and the user.                                    *)

Cancel ==
    /\ ~ctxDone
    /\ ctxDone' = TRUE
    /\ UNCHANGED <<runner, linkVars, reply, retryVars, result, held>>

ServerAnswers ==
    /\ runner = "await" /\ link = "open" /\ reply = "none"
    /\ \/ /\ held = "free" \/ Forced
          /\ reply' = "success" /\ held' = "ours"
       \/ /\ held # "free" /\ ~Forced
          /\ reply' = "conflict" /\ UNCHANGED held
       \/ reply' = "error" /\ UNCHANGED held
    /\ UNCHANGED <<ctxDone, runner, linkVars, retryVars, result>>

\* The client's end is lost: the server has yet to find out.
Forsaken == IF held = "ours" THEN "stale" ELSE held

LinkDrops ==
    /\ link = "open"
    /\ link' = "closed" /\ held' = Forsaken
    /\ UNCHANGED <<ctxDone, runner, watched, reply, retryVars, result>>

ServerCloses ==
    /\ link = "open"
    /\ link' = "closed" /\ held' = IF held = "ours" THEN "free" ELSE held
    /\ UNCHANGED <<ctxDone, runner, watched, reply, retryVars, result>>

ServerForgets ==
    /\ held = "stale" /\ held' = "free"
    /\ UNCHANGED <<ctxDone, runner, linkVars, reply, retryVars, result>>

-----------------------------------------------------------------------------
(* StartWithReconnect.                                                      *)

Return(r) == runner' = "returned" /\ result' = r

Top ==
    /\ runner = "top"
    /\ \/ ctxDone /\ Return("cancelled") /\ UNCHANGED attempt
       \/ /\ ~ctxDone
          /\ attempt' = IF attempt < AttemptCap THEN attempt + 1 ELSE attempt
          /\ runner' = "dial"
          /\ UNCHANGED result
    /\ UNCHANGED <<ctxDone, linkVars, reply, delay, held>>

\* Start has returned: only an error, and none that says "already connected",
\* leads to another attempt.
AfterStart ==
    /\ runner = "after"
    /\ \/ result = "ended" /\ runner' = "returned" /\ UNCHANGED result
       \/ result # "ended" /\ ctxDone /\ Return("cancelled")
       \/ /\ result = "conflict" /\ ~ctxDone
          /\ runner' = "returned" /\ UNCHANGED result
       \/ /\ result = "error" /\ ~ctxDone
          /\ IF MaxAttempts > 0 /\ attempt >= MaxAttempts
             THEN Return("exhausted")
             ELSE runner' = "wait" /\ result' = "none"
    /\ UNCHANGED <<ctxDone, linkVars, reply, retryVars, held>>

NextDelay == IF delay * Multiplier > MaxDelay THEN MaxDelay ELSE delay * Multiplier

Wait ==
    /\ runner = "wait"
    /\ \/ ctxDone /\ Return("cancelled") /\ UNCHANGED delay
       \/ runner' = "top" /\ delay' = NextDelay /\ UNCHANGED result
    /\ UNCHANGED <<ctxDone, linkVars, reply, attempt, held>>

-----------------------------------------------------------------------------
(* Start and handleSession.                                                 *)

Fail(r) == runner' = "cleanup" /\ result' = r

Dial ==
    /\ runner = "dial"
    /\ \/ runner' = "register" /\ UNCHANGED result
       \/ Fail("error")
    /\ UNCHANGED <<ctxDone, linkVars, reply, retryVars, held>>

\* Mutation: the session is not tied to the context.
OpenSessionUnwatched ==
    /\ runner = "register"
    /\ link' = "open" /\ runner' = "send"
    /\ UNCHANGED <<ctxDone, watched, reply, retryVars, result, held>>

\* yamux.Client, and the goroutine that ties the session to the context.
OpenSession ==
    /\ runner = "register"
    /\ \/ /\ link' = "open" /\ watched' = TRUE
          /\ runner' = "send" /\ UNCHANGED result
       \/ Fail("error") /\ UNCHANGED linkVars
    /\ UNCHANGED <<ctxDone, reply, retryVars, held>>

WatcherCloses ==
    /\ watched /\ ctxDone
    /\ watched' = FALSE
    /\ IF link = "open" THEN link' = "closed" /\ held' = Forsaken ELSE UNCHANGED <<link, held>>
    /\ UNCHANGED <<ctxDone, runner, reply, retryVars, result>>

SendRequests ==
    /\ runner = "send"
    /\ \/ link = "open" /\ runner' = "await" /\ UNCHANGED result
       \/ Fail("error")
    /\ UNCHANGED <<ctxDone, linkVars, reply, retryVars, held>>

ReadReply ==
    /\ runner = "await" /\ reply # "none"
    /\ \/ /\ reply = "success"
          /\ runner' = "established" /\ UNCHANGED result
       \/ reply # "success" /\ Fail(reply)
    /\ reply' = "none"
    /\ UNCHANGED <<ctxDone, linkVars, retryVars, held>>

\* The deadline passes or the link is gone; the requests may be in the
\* server's hands by now.
AwaitFails ==
    /\ runner = "await"
    /\ Fail("error")
    /\ reply' = "none"
    /\ held' \in {held} \union
          (IF reply = "none" /\ (held = "free" \/ Forced) THEN {"stale"} ELSE {})
    /\ UNCHANGED <<ctxDone, linkVars, retryVars>>

\* acceptStreams returns, and handleSession returns nil, for whatever reason
\* the session has ended.
SessionEnds ==
    /\ runner = "established" /\ link = "closed"
    /\ Fail("ended")
    /\ UNCHANGED <<ctxDone, linkVars, reply, retryVars, held>>

\* Mutation: the failed session is forgotten, not closed.
CleanupForgets ==
    /\ runner = "cleanup"
    /\ runner' = "after"
    /\ UNCHANGED <<ctxDone, linkVars, reply, retryVars, result, held>>

\* The deferred functions.
Cleanup ==
    /\ runner = "cleanup"
    /\ runner' = "after"
    /\ IF link = "open" THEN link' = "closed" /\ held' = Forsaken ELSE UNCHANGED <<link, held>>
    /\ UNCHANGED <<ctxDone, watched, reply, retryVars, result>>

Runner == Top \/ AfterStart \/ Wait \/ Dial \/ OpenSession \/ SendRequests
            \/ ReadReply \/ AwaitFails \/ SessionEnds \/ Cleanup

Next ==
    \/ Cancel \/ ServerAnswers \/ LinkDrops \/ ServerCloses \/ ServerForgets
    \/ Runner \/ WatcherCloses

Spec == Init /\ [][Next]_vars

\* The goroutines run, and every step of the runner but the wait for the end
\* of an established session has a deadline.
FairSpec == Spec /\ WF_vars(Runner) /\ WF_vars(WatcherCloses)

-----------------------------------------------------------------------------
(* Properties.                                                              *)

TypeOK ==
    /\ ctxDone \in BOOLEAN /\ watched \in BOOLEAN
    /\ runner \in {"top", "dial", "register", "send", "await", "established",
                   "cleanup", "after", "wait", "returned"}
    /\ link \in {"none", "open", "closed"}
    /\ reply \in {"none", "success", "conflict", "error"}
    /\ attempt \in 0..AttemptCap /\ delay \in InitialDelay..MaxDelay
    /\ result \in {"none", "error", "conflict", "ended", "cancelled", "exhausted"}
    /\ held \in {"free", "ours", "stale"}

\* At most one session of the client is alive: an open link belongs to the
\* attempt in progress, and is closed when the context is cancelled.
OneSession ==
    link = "open" => /\ watched
                     /\ runner \in {"send", "await", "established", "cleanup"}

=============================================================================
