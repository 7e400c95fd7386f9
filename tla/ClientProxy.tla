---------------------------- MODULE ClientProxy ----------------------------
(***************************************************************************)
(* The client's end of the proxied streams: proxyStream and the two copying *)
(* loops of internal/client/tunnel/tunnel.go (SharedTunnel.proxyStream in   *)
(* shared.go takes the same steps).  A goroutine per stream connects the    *)
(* yamux stream ("remote") to a connection with the user's service          *)
(* ("local"); an upgraded stream, or one that is not HTTP, is then copied   *)
(* by two more goroutines.                                                  *)
(***************************************************************************)
EXTENDS Integers, FiniteSets

CONSTANT Stream      \* the streams the server opens, each once

ASSUME StreamAssumption == IsFiniteSet(Stream)

VARIABLES
    at,          \* where the goroutine of a stream stands
    remote,      \* the yamux stream; "eof": the server has closed its side
    local,       \* the connection to the service; "eof": the service closed it
    told,        \* the service was sent an end of file (CloseWrite)
    up, down,    \* the goroutines copying remote->local and local->remote
    tracked,     \* activeConns
    wg,          \* counter of the tunnel's WaitGroup
    openConns    \* Stats.openConns

copies == <<up, down>>
counters == <<tracked, wg, openConns>>
proxyVars == <<at, remote, local, told, copies, counters>>

Place == {"none", "accepted", "dial", "request", "exchange", "reply", "copy",
          "finish", "done"}
Copying == {"off", "run", "ended"}

Live(s) == at[s] \notin {"none", "done"}

Init ==
    /\ at = [s \in Stream |-> "none"]
    /\ remote = [s \in Stream |-> "none"]
    /\ local = [s \in Stream |-> "none"]
    /\ told = [s \in Stream |-> FALSE]
    /\ up = [s \in Stream |-> "off"]
    /\ down = [s \in Stream |-> "off"]
    /\ tracked = {}
    /\ wg = 0
    /\ openConns = 0

Goto(s, place) == at' = [at EXCEPT ![s] = place]

-----------------------------------------------------------------------------
(* Environment: the server's end of a stream and the local service.         *)

\* The server closes its end: reads see the end of the stream.
PublicCloses(s) ==
    /\ Live(s) /\ remote[s] = "open"
    /\ remote' = [remote EXCEPT ![s] = "eof"]
    /\ UNCHANGED <<at, local, told, copies, counters>>

\* yamux resets a stream whose other end has been closed for long enough.
StreamResets(s) ==
    /\ Live(s) /\ remote[s] = "eof"
    /\ remote' = [remote EXCEPT ![s] = "closed"]
    /\ UNCHANGED <<at, local, told, copies, counters>>

\* The service closes its connection.
LocalCloses(s) ==
    /\ Live(s) /\ local[s] = "open"
    /\ local' = [local EXCEPT ![s] = "eof"]
    /\ UNCHANGED <<at, remote, told, copies, counters>>

\* The session is gone, and every stream with it.
Severed == [s \in Stream |-> IF Live(s) THEN "closed" ELSE remote[s]]

SessionCloses ==
    /\ remote' = Severed
    /\ UNCHANGED <<at, local, told, copies, counters>>

-----------------------------------------------------------------------------
(* proxyStream.                                                             *)

\* Mutation: the goroutine announces itself to the WaitGroup.
SpawnUncounted(s) ==
    /\ at[s] = "none"
    /\ Goto(s, "accepted")
    /\ remote' = [remote EXCEPT ![s] = "open"]
    /\ UNCHANGED <<local, told, copies, counters>>

\* The accept loop: wg.Add(1) and start the goroutine.
Spawn(s) ==
    /\ at[s] = "none"
    /\ Goto(s, "accepted")
    /\ remote' = [remote EXCEPT ![s] = "open"]
    /\ wg' = wg + 1
    /\ UNCHANGED <<local, told, copies, tracked, openConns>>

Begin(s) ==
    /\ at[s] = "accepted"
    /\ Goto(s, "dial")
    /\ tracked' = tracked \union {s}
    /\ openConns' = openConns + 1
    /\ UNCHANGED <<remote, local, told, copies, wg>>

DialLocal(s) ==
    /\ at[s] = "dial"
    /\ \/ Goto(s, "request") /\ local' = [local EXCEPT ![s] = "open"]
       \/ Goto(s, "finish") /\ UNCHANGED local
    /\ UNCHANGED <<remote, told, copies, counters>>

StartCopy(s) ==
    /\ Goto(s, "copy")
    /\ up' = [up EXCEPT ![s] = "run"]
    /\ down' = [down EXCEPT ![s] = "run"]

\* http.ReadRequest: a request to forward, the server's quota notice (answered
\* here), or something else (the end of the stream included), which is copied.
ReadRequest(s) ==
    /\ at[s] = "request"
    /\ \/ /\ remote[s] # "closed"
          /\ \E place \in {"exchange", "finish"} : Goto(s, place)
          /\ UNCHANGED copies
       \/ StartCopy(s)
    /\ UNCHANGED <<remote, local, told, counters>>

\* The request goes to the service, whose answer is awaited without a deadline.
Exchange(s) ==
    /\ at[s] = "exchange"
    /\ \/ \E place \in {"reply", "finish"} : Goto(s, place) /\ UNCHANGED copies
       \/ StartCopy(s)
    /\ UNCHANGED <<remote, local, told, counters>>

Reply(s) ==
    /\ at[s] = "reply"
    /\ Goto(s, "finish")
    /\ UNCHANGED <<remote, local, told, copies, counters>>

\* Mutation: the service is not told that the public side has finished.
CopyUpSilently(s) ==
    /\ up[s] = "run"
    /\ remote[s] # "open" \/ local[s] = "eof"
    /\ up' = [up EXCEPT ![s] = "ended"]
    /\ UNCHANGED <<at, remote, local, told, down, counters>>

\* io.Copy(local, remote) returns at the end of the stream, or when a write to
\* the service fails; the service is told (CloseWrite).
CopyUp(s) ==
    /\ up[s] = "run"
    /\ remote[s] # "open" \/ local[s] = "eof"
    /\ up' = [up EXCEPT ![s] = "ended"]
    /\ told' = [told EXCEPT ![s] = TRUE]
    /\ UNCHANGED <<at, remote, local, down, counters>>

\* io.Copy(remote, local) returns when the service has closed, or when a write
\* to the stream fails.  The stream is no *net.TCPConn: nothing is half-closed.
CopyDown(s) ==
    /\ down[s] = "run"
    /\ local[s] = "eof" \/ remote[s] = "closed"
    /\ down' = [down EXCEPT ![s] = "ended"]
    /\ UNCHANGED <<at, remote, local, told, up, counters>>

\* Mutation: the first direction to end ends the proxying.
CopyDoneEarly(s) ==
    /\ at[s] = "copy"
    /\ "ended" \in {up[s], down[s]}
    /\ Goto(s, "finish")
    /\ UNCHANGED <<remote, local, told, copies, counters>>

\* wg.Wait in copyBidirectional: both directions have ended.
CopyDone(s) ==
    /\ at[s] = "copy"
    /\ up[s] = "ended" /\ down[s] = "ended"
    /\ Goto(s, "finish")
    /\ UNCHANGED <<remote, local, told, copies, counters>>

\* The deferred calls, on every way out.
Finish(s) ==
    /\ at[s] = "finish"
    /\ Goto(s, "done")
    /\ local' = [local EXCEPT ![s] = IF @ = "none" THEN @ ELSE "closed"]
    /\ remote' = [remote EXCEPT ![s] = "closed"]
    /\ tracked' = tracked \ {s}
    /\ openConns' = IF openConns > 0 THEN openConns - 1 ELSE 0
    /\ wg' = wg - 1
    /\ UNCHANGED <<told, copies>>

ProxyStream(s) ==
    \/ Begin(s) \/ DialLocal(s) \/ ReadRequest(s) \/ Exchange(s) \/ Reply(s)
    \/ CopyUp(s) \/ CopyDown(s) \/ CopyDone(s) \/ Finish(s)

Environment(s) == PublicCloses(s) \/ StreamResets(s) \/ LocalCloses(s)

Next ==
    \/ \E s \in Stream : Spawn(s) \/ ProxyStream(s) \/ Environment(s)
    \/ SessionCloses

Spec == Init /\ [][Next]_proxyVars

\* Goroutines run, a blocked call returns once its connection has ended, and
\* yamux's close timer fires.  Neither the public client nor the service owes
\* anything: they may keep a connection open and silent for ever.
Fairness ==
    \A s \in Stream :
        /\ WF_proxyVars(Begin(s) \/ DialLocal(s) \/ CopyDone(s) \/ Finish(s))
        /\ WF_proxyVars(ReadRequest(s) /\ remote[s] # "open")
        /\ WF_proxyVars(Exchange(s) /\ local[s] = "eof")
        /\ WF_proxyVars(Reply(s) /\ remote[s] = "closed")
        /\ WF_proxyVars(CopyUp(s) /\ remote[s] # "open")
        /\ WF_proxyVars(CopyDown(s) /\ local[s] = "eof")
        /\ WF_proxyVars(StreamResets(s))

FairSpec == Spec /\ Fairness

\* A service that answers its requests, and closes when it is told to.
Polite ==
    \A s \in Stream :
        /\ WF_proxyVars(Exchange(s))
        /\ WF_proxyVars(LocalCloses(s) /\ told[s])

-----------------------------------------------------------------------------
(* Properties.                                                              *)

TypeOK ==
    /\ at \in [Stream -> Place]
    /\ remote \in [Stream -> {"none", "open", "eof", "closed"}]
    /\ local \in [Stream -> {"none", "open", "eof", "closed"}]
    /\ told \in [Stream -> BOOLEAN]
    /\ up \in [Stream -> Copying] /\ down \in [Stream -> Copying]
    /\ tracked \subseteq Stream
    /\ wg \in Nat /\ openConns \in Nat

\* However a stream ends, nothing of it is left: both connections are closed,
\* no copying goroutine survives on them, and it is out of every count.
NothingLeaks ==
    /\ \A s \in Stream : at[s] = "done" =>
          /\ remote[s] = "closed" /\ local[s] \in {"none", "closed"}
          /\ up[s] # "run" /\ down[s] # "run"
    /\ tracked = {s \in Stream : Live(s) /\ at[s] # "accepted"}
    /\ openConns = Cardinality(tracked)
    /\ wg = Cardinality({s \in Stream : Live(s)})

\* In front of a polite service, every stream the server has closed is let go.
StreamsEnd ==
    Polite => \A s \in Stream : (Live(s) /\ remote[s] # "open") ~> at[s] = "done"

=============================================================================
