------------------------- MODULE TunnelClientProofs -------------------------
(***************************************************************************)
(* Machine-checked facts about a running client: its types, that Shutdown   *)
(* finds whatever session is alive, and that a shutdown is reported only    *)
(* after every proxied stream has ended.  The streams' own invariant is     *)
(* that of ClientProxyProofs.                                               *)
(***************************************************************************)
EXTENDS TunnelClient, TLAPS

Streams == INSTANCE ClientProxyProofs

USE StreamAssumption, FlagAssumption, DelayAssumption

\* The types of everything that is not of the streams.
OwnTypes ==
    /\ force \in BOOLEAN
    /\ ctxDone \in BOOLEAN /\ closed \in BOOLEAN /\ session \in BOOLEAN
    /\ shutdown \in {"idle", "waiting", "done"}
    /\ runner \in {"top", "wait", "dial", "check", "register", "send", "await",
                   "established", "drain", "cleanup", "after", "returned"}
    /\ link \in {"none", "open", "closed"}
    /\ reply \in {"none", "success", "conflict", "error"}
    /\ result \in {"none", "error", "conflict", "ended", "cancelled", "exhausted"}
    /\ held \in {"free", "ours", "stale", "other"}
    /\ served \in BOOLEAN /\ reached \in BOOLEAN

RetryTypes == attempt \in 0..AttemptCap /\ delay \in InitialDelay..MaxDelay

TunnelInv == OwnTypes /\ RetryTypes /\ OneSession /\ Streams!ProxyInv

\* What ClientProxyProofs assumes.
LEMMA FinitelyManyStreams == Streams!IsFiniteSet(Stream)
BY DEF IsFiniteSet, Streams!IsFiniteSet

-----------------------------------------------------------------------------
(* The streams.                                                             *)

\* What this module's steps do to the streams is what ClientProxy says.
LEMMA StreamSteps ==
    ASSUME NEW s \in Stream
    PROVE  /\ Proxy!Spawn(s) => Streams!Next
           /\ Proxy!ProxyStream(s) => Streams!Next
           /\ Proxy!Environment(s) => Streams!Next
<1>1. Proxy!Spawn(s) => Streams!Spawn(s)
  BY DEF Proxy!Spawn, Streams!Spawn, Proxy!Goto, Streams!Goto, Proxy!copies, Streams!copies
<1>2. Proxy!ProxyStream(s) => Streams!ProxyStream(s)
  <2> USE DEF Proxy!Goto, Streams!Goto, Proxy!copies, Streams!copies, Proxy!counters,
              Streams!counters
  <2>1. Proxy!Begin(s) => Streams!Begin(s)
    BY DEF Proxy!Begin, Streams!Begin
  <2>2. Proxy!DialLocal(s) => Streams!DialLocal(s)
    BY DEF Proxy!DialLocal, Streams!DialLocal
  <2>3. Proxy!ReadRequest(s) => Streams!ReadRequest(s)
    BY DEF Proxy!ReadRequest, Streams!ReadRequest, Proxy!StartCopy, Streams!StartCopy
  <2>4. Proxy!Exchange(s) => Streams!Exchange(s)
    BY DEF Proxy!Exchange, Streams!Exchange, Proxy!StartCopy, Streams!StartCopy
  <2>5. Proxy!Reply(s) => Streams!Reply(s)
    BY DEF Proxy!Reply, Streams!Reply
  <2>6. Proxy!CopyUp(s) => Streams!CopyUp(s)
    BY DEF Proxy!CopyUp, Streams!CopyUp
  <2>7. Proxy!CopyDown(s) => Streams!CopyDown(s)
    BY DEF Proxy!CopyDown, Streams!CopyDown
  <2>8. Proxy!CopyDone(s) => Streams!CopyDone(s)
    BY DEF Proxy!CopyDone, Streams!CopyDone
  <2>9. Proxy!Finish(s) => Streams!Finish(s)
    BY DEF Proxy!Finish, Streams!Finish
  <2> QED BY <2>1, <2>2, <2>3, <2>4, <2>5, <2>6, <2>7, <2>8, <2>9
          DEF Proxy!ProxyStream, Streams!ProxyStream
<1>3. Proxy!Environment(s) => Streams!Environment(s)
  BY DEF Proxy!Environment, Streams!Environment, Proxy!PublicCloses, Streams!PublicCloses,
         Proxy!StreamResets, Streams!StreamResets, Proxy!LocalCloses, Streams!LocalCloses,
         Proxy!Live, Streams!Live, Proxy!copies, Streams!copies, Proxy!counters,
         Streams!counters
<1> QED BY <1>1, <1>2, <1>3 DEF Streams!Next

\* A link that closes takes its streams with it.
LEMMA CloseLinkStep ==
    ASSUME Streams!ProxyInv, CloseLink PROVE Streams!ProxyInv'
<1>1. Streams!SessionCloses
  BY DEF CloseLink, Proxy!Severed, Proxy!Live, Streams!SessionCloses, Streams!Severed,
         Streams!Live, Streams!copies, Streams!counters
<1> QED BY <1>1, FinitelyManyStreams, Streams!EnvironmentStep

\* A Shutdown that finds no session closes the streams it finds.
LEMMA ShutdownStreams ==
    ASSUME Streams!ProxyInv,
           remote' = [s \in Stream |-> IF s \in tracked THEN "closed" ELSE remote[s]],
           UNCHANGED <<at, local, told, up, down, tracked, wg, openConns>>
    PROVE  Streams!ProxyInv'
<1>1. /\ remote \in [Stream -> {"none", "open", "eof", "closed"}]
      /\ local \in [Stream -> {"none", "open", "eof", "closed"}]
  BY DEF Streams!ProxyInv, Streams!TypeOK
<1>2. /\ remote' \in [Stream -> {"none", "open", "eof", "closed"}]
      /\ local' \in [Stream -> {"none", "open", "eof", "closed"}]
      /\ \A s \in Stream : at[s] = "done" => /\ remote'[s] \in {remote[s], "closed"}
                                             /\ local'[s] = local[s]
  BY <1>1
<1>3. UNCHANGED <<at, told, Streams!copies, Streams!counters>>
  BY DEF Streams!copies, Streams!counters
<1> QED BY <1>2, <1>3, FinitelyManyStreams, Streams!ConnectionsStep

LEMMA StreamsKeep ==
    ASSUME TunnelInv, [Next]_vars PROVE Streams!ProxyInv'
<1>0. Streams!ProxyInv
  BY DEF TunnelInv
<1>1. CASE UNCHANGED proxyVars
  <2>1. UNCHANGED Streams!proxyVars
    BY <1>1 DEF proxyVars, Streams!proxyVars, Streams!copies, Streams!counters
  <2> QED BY <1>0, <2>1, FinitelyManyStreams, Streams!ProxyKeeps
<1>2. CASE CloseLink
  BY <1>0, <1>2, CloseLinkStep
<1>3. CASE ShutdownCloses
  BY <1>0, <1>2, <1>3, ShutdownStreams DEF ShutdownCloses
<1>4. ASSUME NEW s \in Stream, AcceptStream(s) \/ StreamStep(s) PROVE Streams!ProxyInv'
  BY <1>0, <1>4, StreamSteps, FinitelyManyStreams, Streams!ProxyKeeps DEF AcceptStream, StreamStep
<1>5. Cancel \/ AwaitFails \/ ShutdownReturns => UNCHANGED proxyVars
  BY DEF Cancel, AwaitFails, ShutdownReturns
<1>6. Server => UNCHANGED proxyVars \/ CloseLink
  BY DEF Server, ServerAnswers, LinkDrops, ServerCloses, ServerForgets, RivalMoves
<1>7. Runner => UNCHANGED proxyVars \/ CloseLink
  BY DEF Runner, Top, Wait, AfterStart, Dial, CheckClosed, RegisterSession, SendRequests,
         ReadReply, SessionEnds, Drain, Cleanup
<1>8. UNCHANGED vars => UNCHANGED proxyVars
  BY DEF vars
<1> QED BY <1>1, <1>2, <1>3, <1>4, <1>5, <1>6, <1>7, <1>8 DEF Next

-----------------------------------------------------------------------------
(* The runner, Shutdown and the server.                                     *)

LEMMA DelayBounded ==
    ASSUME delay \in InitialDelay..MaxDelay PROVE NextDelay \in InitialDelay..MaxDelay
<1> DEFINE d == delay * Multiplier
<1>1. d \in Nat /\ delay <= d
  OBVIOUS
<1>2. NextDelay = IF d > MaxDelay THEN MaxDelay ELSE d
  BY DEF NextDelay
<1> HIDE DEF d
<1> QED BY <1>1, <1>2

\* The delay and the attempts are the runner's own.
LEMMA RetryStep == ASSUME RetryTypes, [Next]_vars PROVE RetryTypes'
<1>1. CASE Top
  BY <1>1 DEF Top, RetryTypes, AttemptCap
<1>2. CASE AfterStart
  BY <1>2, DelayBounded DEF AfterStart, RetryTypes, retryVars, AttemptCap
<1>3. CASE UNCHANGED retryVars
  BY <1>3 DEF RetryTypes, retryVars
<1>4. Top \/ AfterStart \/ UNCHANGED retryVars
  <2>1. Runner => Top \/ AfterStart \/ UNCHANGED retryVars
    BY DEF Runner, Wait, Dial, CheckClosed, RegisterSession, SendRequests, ReadReply,
           SessionEnds, Drain, Cleanup
  <2>2. Server => UNCHANGED retryVars
    BY DEF Server, ServerAnswers, LinkDrops, ServerCloses, ServerForgets, RivalMoves
  <2>3. Cancel \/ AwaitFails \/ ShutdownCloses \/ ShutdownReturns => UNCHANGED retryVars
    BY DEF Cancel, AwaitFails, ShutdownCloses, ShutdownReturns, retryVars
  <2>4. (\E s \in Stream : AcceptStream(s) \/ StreamStep(s)) \/ UNCHANGED vars
           => UNCHANGED retryVars
    BY DEF AcceptStream, StreamStep, vars
  <2> QED BY <2>1, <2>2, <2>3, <2>4 DEF Next
<1> QED BY <1>1, <1>2, <1>3, <1>4

LEMMA RunnerStep ==
    ASSUME OwnTypes, OneSession, Runner \/ AwaitFails PROVE OwnTypes' /\ OneSession'
<1> USE DEF OwnTypes, OneSession
<1>1. CASE Top
  BY <1>1 DEF Top, Return, userVars, history
<1>2. CASE Wait
  BY <1>2 DEF Wait, Return, userVars, history
<1>3. CASE AfterStart
  <2>0. reached' \in BOOLEAN
    BY <1>3, Zenon DEF AfterStart
  <2>1. OwnTypes'
    BY <1>3, <2>0 DEF AfterStart, userVars
  <2>2. OneSession'
    BY <1>3 DEF AfterStart, userVars
  <2> QED BY <2>1, <2>2
<1>4. CASE Dial \/ CheckClosed \/ SendRequests \/ SessionEnds \/ Drain
  BY <1>4 DEF Dial, CheckClosed, SendRequests, SessionEnds, Drain, Fail, userVars, history
<1>5. CASE RegisterSession
  <2>0. session' \in BOOLEAN
    BY <1>5, Zenon DEF RegisterSession, history
  <2>1. OwnTypes'
    BY <1>5, <2>0 DEF RegisterSession, Fail, userVars, history
  <2>2. OneSession'
    BY <1>5 DEF RegisterSession, Fail, userVars, history
  <2> QED BY <2>1, <2>2
<1>6. CASE ReadReply
  <2>0. served' \in BOOLEAN /\ reached' \in BOOLEAN
    BY <1>6, Zenon DEF ReadReply, history
  <2>1. OwnTypes'
    BY <1>6, <2>0 DEF ReadReply, Fail, userVars, history
  <2>2. OneSession'
    BY <1>6 DEF ReadReply, Fail, userVars, history
  <2> QED BY <2>1, <2>2
<1>7. CASE Cleanup
  <2>0. session' \in BOOLEAN
    BY <1>7, Zenon DEF Cleanup, history
  <2>1. OwnTypes'
    BY <1>7, <2>0 DEF Cleanup, CloseLink, Forsaken, userVars, history
  <2>2. OneSession'
    BY <1>7 DEF Cleanup, CloseLink, Forsaken, userVars, history
  <2> QED BY <2>1, <2>2
<1>8. CASE AwaitFails
  BY <1>8 DEF AwaitFails, Fail, userVars, history
<1> QED BY <1>1, <1>2, <1>3, <1>4, <1>5, <1>6, <1>7, <1>8 DEF Runner

LEMMA OtherStep ==
    ASSUME OwnTypes, OneSession, Cancel \/ Server \/ ShutdownCloses \/ ShutdownReturns
    PROVE  OwnTypes' /\ OneSession'
<1> USE DEF OwnTypes, OneSession
<1>1. CASE Cancel
  BY <1>1 DEF Cancel, history
<1>2. CASE Server
  BY <1>2 DEF Server, ServerAnswers, LinkDrops, ServerCloses, ServerForgets, RivalMoves,
              CloseLink, Forsaken, userVars, history
<1>3. CASE ShutdownCloses
  BY <1>3 DEF ShutdownCloses, CloseLink, Forsaken, history
<1>4. CASE ShutdownReturns
  BY <1>4 DEF ShutdownReturns, history
<1> QED BY <1>1, <1>2, <1>3, <1>4

LEMMA TunnelStarts == Init => TunnelInv
<1> SUFFICES ASSUME Init PROVE TunnelInv
  OBVIOUS
<1>1. OwnTypes /\ OneSession
  <2>1. force \in BOOLEAN /\ held \in {"free", "ours", "stale", "other"}
    BY DEF Init
  <2> QED BY <2>1 DEF Init, OwnTypes, OneSession
<1>2. RetryTypes
  BY DEF Init, RetryTypes, AttemptCap
<1>3. Streams!ProxyInv
  BY FinitelyManyStreams, Streams!ProxyStarts DEF Init, Proxy!Init, Streams!Init
<1> QED BY <1>1, <1>2, <1>3 DEF TunnelInv

LEMMA TunnelKeeps == TunnelInv /\ [Next]_vars => TunnelInv'
<1> SUFFICES ASSUME TunnelInv, [Next]_vars PROVE TunnelInv'
  OBVIOUS
<1>0. OwnTypes /\ OneSession /\ RetryTypes
  BY DEF TunnelInv
<1>1. Streams!ProxyInv' /\ RetryTypes'
  BY <1>0, StreamsKeep, RetryStep
<1>2. OwnTypes' /\ OneSession'
  <2>1. CASE UNCHANGED <<userVars, runner, session, link, reply, result, held, history>>
    BY <1>0, <2>1 DEF OwnTypes, OneSession, userVars, history
  <2>2. CASE Runner \/ AwaitFails
    BY <1>0, <2>2, RunnerStep
  <2>3. CASE Cancel \/ Server \/ ShutdownCloses \/ ShutdownReturns
    BY <1>0, <2>3, OtherStep
  <2>4. (\E s \in Stream : AcceptStream(s) \/ StreamStep(s)) \/ UNCHANGED vars
           => UNCHANGED <<userVars, runner, session, link, reply, result, held, history>>
    BY DEF AcceptStream, StreamStep, vars
  <2> QED BY <2>1, <2>2, <2>3, <2>4 DEF Next
<1> QED BY <1>1, <1>2 DEF TunnelInv

LEMMA TunnelInvariant == Spec => []TunnelInv
BY TunnelStarts, TunnelKeeps, PTL DEF Spec

\* The client's state is well typed in every reachable state: the delay stays
\* between its bounds, and no count of streams goes below zero.
THEOREM ClientTyped == Spec => []TypeOK
<1>1. TunnelInv => TypeOK
  BY DEF TunnelInv, OwnTypes, RetryTypes, TypeOK, Streams!ProxyInv, Streams!TypeOK, Proxy!TypeOK,
         Streams!Place, Proxy!Place, Streams!Copying, Proxy!Copying
<1> QED BY <1>1, TunnelInvariant, PTL

\* One session at most is alive, and Shutdown can find it.
THEOREM OneSessionHolds == Spec => []OneSession
BY TunnelInvariant, PTL DEF TunnelInv

\* Start reports a shutdown only after every proxied stream has finished.
THEOREM DrainsBeforeReturnHolds == Spec => DrainsBeforeReturn
<1>1. TunnelInv /\ [Next]_vars
         => [runner = "drain" /\ runner' # "drain" => \A s \in Stream : ~Proxy!Live(s)]_vars
  <2> SUFFICES ASSUME TunnelInv, Next, runner = "drain", runner' # "drain", NEW s \in Stream
               PROVE  ~Proxy!Live(s)
    OBVIOUS
  <2>1. Drain
    <3>1. ~(Cancel \/ Server \/ AwaitFails \/ ShutdownCloses \/ ShutdownReturns)
      BY DEF Cancel, Server, ServerAnswers, LinkDrops, ServerCloses, ServerForgets, RivalMoves,
             AwaitFails, ShutdownCloses, ShutdownReturns
    <3>2. ~\E p \in Stream : AcceptStream(p) \/ StreamStep(p)
      BY DEF AcceptStream, StreamStep
    <3> QED BY <3>1, <3>2
            DEF Next, Runner, Top, Wait, AfterStart, Dial, CheckClosed, RegisterSession,
                SendRequests, ReadReply, SessionEnds, Cleanup
  <2>2. ~Streams!Live(s)
    BY <2>1, FinitelyManyStreams, Streams!NoneInProgress DEF Drain, TunnelInv
  <2> QED BY <2>2 DEF Streams!Live, Proxy!Live
<1> QED BY <1>1, TunnelInvariant, PTL DEF Spec, DrainsBeforeReturn

=============================================================================
