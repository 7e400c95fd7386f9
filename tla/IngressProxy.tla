---------------------------- MODULE IngressProxy ----------------------------
(***************************************************************************)
(* Proxied requests at the public ingress: proxyToTunnel, the charging      *)
(* writer and the quota notice (internal/ingress/ingress.go), on top of the *)
(* bandwidth counter of BandwidthStore.                                     *)
(*                                                                          *)
(* A request is handled by one goroutine; an upgraded one (WebSocket) runs  *)
(* two more, which copy the two directions and share closeAll.  A flow is   *)
(* one direction of one request; the bytes of the request itself are        *)
(* charged on its "up" flow before the tunnel is opened.                    *)
(***************************************************************************)
EXTENDS Integers, FiniteSets

CONSTANTS
    Request, User,
    RequestUser,     \* the user of the tunnel entry a request resolves to
    ExemptUser,      \* users whose entries are BandwidthExempt
    Upgrade,         \* requests with a Connection: upgrade header
    RequestSize,     \* serialised size of a request
    HeaderSize,      \* size of the status line and headers of a plain response
    ChunkSize,       \* size of a chunk the charging writer accounts for
    MaxChunks,       \* bound on the chunks of one flow
    DailyLimit, LastDay, Failing

ASSUME RequestUserAssumption == RequestUser \in [Request -> User]
ASSUME ChoiceAssumption == ExemptUser \subseteq User /\ Upgrade \subseteq Request
ASSUME BytesAssumption == {RequestSize, HeaderSize, ChunkSize, MaxChunks} \subseteq Nat
ASSUME QuotaAssumption == {DailyLimit, LastDay} \subseteq Nat

Dir == {"up", "down"}
Flow == Request \X Dir

ASSUME FailingAssumption == Failing \subseteq Flow

VARIABLES
    clock, rows, pc, who, bytes, today, attempt,   \* of BandwidthStore
    handler,     \* where the goroutine of a request stands
    status,      \* what the public client was answered
    flow,        \* where a direction of a request stands
    closed,      \* closeAll (closeUpstream) has run
    chunks,      \* chunks read so far
    notified,    \* quotaNotifiedAt is less than a minute old
    forwarded,   \* bytes forwarded on behalf of a user, by the day they were
                 \* charged to (history)
    free         \* bytes let pass by an exemption or a failing database (history)

Store == INSTANCE BandwidthStore
            WITH Caller <- Flow, Size <- {RequestSize, ChunkSize}

storeVars == <<clock, rows, pc, who, bytes, today, attempt>>
books == <<forwarded, free>>
vars == <<storeVars, handler, status, flow, closed, chunks, notified, books>>

UserOf(f) == RequestUser[f[1]]

Init ==
    /\ who = [f \in Flow |-> UserOf(f)]    \* the only user a flow ever charges
    /\ Store!Init
    /\ handler = [r \in Request |-> "start"]
    /\ status = [r \in Request |-> "none"]
    /\ flow = [f \in Flow |-> "off"]
    /\ closed = [r \in Request |-> FALSE]
    /\ chunks = [f \in Flow |-> 0]
    /\ notified = [u \in User |-> FALSE]
    /\ forwarded = [u \in User |-> [d \in Store!Day |-> 0]]
    /\ free = [u \in User |-> [d \in Store!Day |-> 0]]

-----------------------------------------------------------------------------
(* Charging: the consume closure and the notice, shared by all flows.       *)

Counted(u) == u \notin ExemptUser /\ DailyLimit > 0

\* consume(n) for flow f; an exempt user's bytes never reach the store.
Charge(f, n) ==
    IF Counted(UserOf(f)) /\ n > 0
    THEN /\ Store!Consume(f, UserOf(f), n)
         /\ flow' = [flow EXCEPT ![f] = "charging"]
         /\ UNCHANGED free
    ELSE /\ flow' = [flow EXCEPT ![f] = "granted"]
         /\ free' = [free EXCEPT ![UserOf(f)][today[f]] = @ + n]
         /\ UNCHANGED storeVars

\* Mutation: the caller ignores the verdict and forwards the chunk anyway.
ChargedRegardless(f) ==
    /\ flow[f] = "charging"
    /\ pc[f] \in {"allowed", "denied", "failed"}
    /\ flow' = [flow EXCEPT ![f] = "granted"]
    /\ free' = [free EXCEPT ![UserOf(f)][today[f]] =
                    IF pc[f] = "failed" THEN @ + bytes[f] ELSE @]
    /\ UNCHANGED <<storeVars, handler, status, closed, chunks, notified, forwarded>>

\* The store has answered.  An error lets the bytes pass: "fail-open".
Charged(f) ==
    /\ flow[f] = "charging"
    /\ pc[f] \in {"allowed", "denied", "failed"}
    /\ flow' = [flow EXCEPT ![f] = IF pc[f] = "denied" THEN "notify" ELSE "granted"]
    /\ free' = [free EXCEPT ![UserOf(f)][today[f]] =
                    IF pc[f] = "failed" THEN @ + bytes[f] ELSE @]
    /\ UNCHANGED <<storeVars, handler, status, closed, chunks, notified, forwarded>>

\* maybeNotifyBandwidthExceeded: the claim under quotaNotifyMu ...
ClaimNotice(f) ==
    /\ flow[f] = "notify"
    /\ flow' = [flow EXCEPT ![f] = IF notified[UserOf(f)] THEN "refused" ELSE "notice"]
    /\ notified' = [notified EXCEPT ![UserOf(f)] = TRUE]
    /\ UNCHANGED <<storeVars, handler, status, closed, chunks, books>>

\* ... and the stream to the tunnel client, whose failure is ignored.
SendNotice(f) ==
    /\ flow[f] = "notice"
    /\ flow' = [flow EXCEPT ![f] = "refused"]
    /\ UNCHANGED <<storeVars, handler, status, closed, chunks, notified, books>>

MinutePasses(u) ==
    /\ notified[u]
    /\ notified' = [notified EXCEPT ![u] = FALSE]
    /\ UNCHANGED <<storeVars, handler, status, flow, closed, chunks, books>>

-----------------------------------------------------------------------------
(* proxyToTunnel up to the first byte of the answer.                        *)

Answer(r, s) ==
    /\ handler' = [handler EXCEPT ![r] = "done"]
    /\ status' = [status EXCEPT ![r] = s]

\* No entry for the host, or the request cannot be serialised.
Reject(r) ==
    /\ handler[r] = "start"
    /\ \E s \in {"404", "502"} : Answer(r, s)
    /\ UNCHANGED <<storeVars, flow, closed, chunks, notified, books>>

\* Mutation: the request itself is forwarded without being charged.
ReserveNothing(r) ==
    /\ handler[r] = "start"
    /\ handler' = [handler EXCEPT ![r] = "reserve"]
    /\ flow' = [flow EXCEPT ![<<r, "up">>] = "granted"]
    /\ UNCHANGED <<storeVars, status, closed, chunks, notified, books>>

Reserve(r) ==
    /\ handler[r] = "start"
    /\ handler' = [handler EXCEPT ![r] = "reserve"]
    /\ Charge(<<r, "up">>, RequestSize)
    /\ UNCHANGED <<status, closed, chunks, notified, forwarded>>

OverQuota(r) ==
    /\ handler[r] = "reserve"
    /\ flow[<<r, "up">>] = "refused"
    /\ Answer(r, "429")
    /\ flow' = [flow EXCEPT ![<<r, "up">>] = "ended"]
    /\ UNCHANGED <<storeVars, closed, chunks, notified, books>>

\* Session.Open and the write of the request; what was reserved stays charged
\* when either fails.
Open(r) ==
    /\ handler[r] = "reserve"
    /\ flow[<<r, "up">>] = "granted"
    /\ \/ /\ handler' = [handler EXCEPT ![r] = "respond"]
          /\ forwarded' = [forwarded EXCEPT
                ![RequestUser[r]][today[<<r, "up">>]] = @ + RequestSize]
          /\ UNCHANGED status
       \/ Answer(r, "502") /\ UNCHANGED forwarded
    /\ flow' = [flow EXCEPT ![<<r, "up">>] = "off"]
    /\ UNCHANGED <<storeVars, closed, chunks, notified, free>>

\* ReadResponse or Hijack: on success the copying starts.  A hijacked connection
\* carries the response raw, inside its chunks.  Of a plain response the status
\* line and the headers go to the visitor by c.Status and c.Writer, past the
\* charging writer.
Respond(r) ==
    /\ handler[r] = "respond"
    /\ \/ /\ handler' = [handler EXCEPT ![r] = "copy"]
          /\ status' = [status EXCEPT ![r] = "proxied"]
          /\ flow' = [f \in Flow |->
                IF f[1] = r /\ (r \in Upgrade \/ f[2] = "down") THEN "read" ELSE flow[f]]
          /\ forwarded' = [forwarded EXCEPT ![RequestUser[r]][clock] =
                IF r \in Upgrade THEN @ ELSE @ + HeaderSize]
       \/ Answer(r, "502") /\ UNCHANGED <<flow, forwarded>>
    /\ UNCHANGED <<storeVars, closed, chunks, notified, free>>

-----------------------------------------------------------------------------
(* io.Copy through the charging writer.                                     *)

\* A chunk arrives, maybe from a buffer that outlives closeAll, and is charged
\* before it is written.
ReadChunk(f) ==
    /\ flow[f] = "read"
    /\ chunks[f] < MaxChunks
    /\ chunks' = [chunks EXCEPT ![f] = @ + 1]
    /\ Charge(f, ChunkSize)
    /\ UNCHANGED <<handler, status, closed, notified, forwarded>>

WriteChunk(f) ==
    /\ handler[f[1]] = "copy"
    /\ flow[f] = "granted"
    /\ ~closed[f[1]]
    /\ forwarded' = [forwarded EXCEPT ![UserOf(f)][today[f]] = @ + ChunkSize]
    /\ flow' = [flow EXCEPT ![f] = "read"]
    /\ UNCHANGED <<storeVars, handler, status, closed, chunks, notified, free>>

\* Mutation: a copy that ends does not close the other direction.
EndCopyAlone(f) ==
    /\ handler[f[1]] = "copy"
    /\ flow[f] \in {"read", "granted", "refused"}
    /\ flow' = [flow EXCEPT ![f] = "ended"]
    /\ UNCHANGED <<storeVars, handler, status, closed, chunks, notified, books>>

\* The copy of a direction returns (end of stream, a failed read or write, a
\* refused chunk), and closeAll ends the other one.
EndCopy(f) ==
    /\ handler[f[1]] = "copy"
    /\ flow[f] \in {"read", "granted", "refused"}
    /\ flow' = [flow EXCEPT ![f] = "ended"]
    /\ closed' = [closed EXCEPT ![f[1]] = TRUE]
    /\ UNCHANGED <<storeVars, handler, status, chunks, notified, books>>

\* wg.Wait, or the return of the only copy.
Finish(r) ==
    /\ handler[r] = "copy"
    /\ \A d \in Dir : flow[<<r, d>>] \in {"off", "ended"}
    /\ handler' = [handler EXCEPT ![r] = "done"]
    /\ UNCHANGED <<storeVars, status, flow, closed, chunks, notified, books>>

-----------------------------------------------------------------------------
StoreStep(f) == Store!Statement(f) /\ UNCHANGED
    <<handler, status, flow, closed, chunks, notified, books>>

Midnight == Store!Midnight /\ UNCHANGED
    <<handler, status, flow, closed, chunks, notified, books>>

FlowStep(f) == StoreStep(f) \/ Charged(f) \/ ClaimNotice(f) \/ SendNotice(f)

Next ==
    \/ Midnight
    \/ \E u \in User : MinutePasses(u)
    \/ \E r \in Request : Reject(r) \/ Reserve(r) \/ OverQuota(r) \/ Open(r)
                            \/ Respond(r) \/ Finish(r)
    \/ \E f \in Flow : FlowStep(f) \/ ReadChunk(f) \/ WriteChunk(f) \/ EndCopy(f)

Spec == Init /\ [][Next]_vars

\* The server's own work proceeds, and reads and writes on closed connections
\* return.  Peers owe nothing: there is no deadline on what they send or take.
Fairness ==
    /\ \A f \in Flow : /\ WF_vars(FlowStep(f))
                       /\ WF_vars(EndCopy(f) /\ (flow[f] = "refused" \/ closed[f[1]]))
    /\ \A r \in Request : WF_vars(Finish(r))

FairSpec == Spec /\ Fairness

-----------------------------------------------------------------------------
(* Properties.                                                              *)

TypeOK ==
    /\ Store!TypeOK
    /\ handler \in [Request -> {"start", "reserve", "respond", "copy", "done"}]
    /\ status \in [Request -> {"none", "404", "429", "502", "proxied"}]
    /\ flow \in [Flow -> {"off", "charging", "notify", "notice", "refused",
                          "granted", "read", "ended"}]
    /\ closed \in [Request -> BOOLEAN]
    /\ chunks \in [Flow -> 0..MaxChunks]
    /\ notified \in [User -> BOOLEAN]
    /\ forwarded \in [User -> [Store!Day -> Nat]]
    /\ free \in [User -> [Store!Day -> Nat]]

\* The status lines and headers of a user's plain responses: no flow carries
\* them and nothing charges them.
HeadBytes(u) ==
    {r \in Request \ Upgrade : RequestUser[r] = u /\ status[r] = "proxied"}
        \X (1..HeaderSize)

Heads(u) == Cardinality(HeadBytes(u))

\* Requests, chunks and hijacked connections pass the ingress only when paid for:
\* what was forwarded for a user on account of a day is covered by what that
\* day's row was charged, by what an exemption or a failing database let
\* through, and by the heads of plain responses, which nobody pays for.
NothingUnpaid ==
    \A u \in User, d \in Store!Day :
        forwarded[u][d] <= Store!Used(u, d) + free[u][d] + Heads(u)

\* End to end: on account of one day a user who is not exempt never moves more
\* than the daily limit, however many requests and directions run at once,
\* except for what a failing database let through and for the heads of plain
\* responses.  The day is the one a chunk is charged to: a chunk granted before
\* midnight may be written after it.
TrafficWithinQuota ==
    \A u \in User, d \in Store!Day : Counted(u) =>
        forwarded[u][d] <= DailyLimit + free[u][d] + Heads(u)

\* The two directions of an upgraded connection go down together: when one
\* copy ends, for whatever reason, the handler returns.
DirectionsEndTogether ==
    \A r \in Request :
        (handler[r] = "copy" /\ \E d \in Dir : flow[<<r, d>>] = "ended")
            ~> handler[r] = "done"

=============================================================================
