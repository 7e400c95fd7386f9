-------------------------- MODULE ClientProxyProofs --------------------------
(***************************************************************************)
(* Machine-checked facts about the client's end of the proxied streams, for *)
(* any finite number of them: however they end, nothing of them is left.    *)
(***************************************************************************)
EXTENDS ClientProxy, FiniteSetTheorems, TLAPS

USE StreamAssumption

\* Before the copying, and after it.
Early == {"none", "accepted", "dial", "request", "exchange", "reply"}

\* What is there of a stream, by the place where its goroutine stands.
StreamInv(s) ==
    /\ at[s] \in Early => up[s] = "off" /\ down[s] = "off"
    /\ at[s] \in {"finish", "done"} => up[s] # "run" /\ down[s] # "run"
    /\ at[s] = "done" => remote[s] = "closed" /\ local[s] \in {"none", "closed"}

Counted == {s \in Stream : Live(s)}

ProxyInv == TypeOK /\ NothingLeaks /\ \A s \in Stream : StreamInv(s)

-----------------------------------------------------------------------------

\* The counts of the streams in progress are finite and those of NothingLeaks.
LEMMA CountsFinite ==
    ASSUME ProxyInv
    PROVE  /\ IsFiniteSet(tracked) /\ IsFiniteSet(Counted)
           /\ openConns = Cardinality(tracked) /\ wg = Cardinality(Counted)
           /\ Cardinality(tracked) \in Nat /\ Cardinality(Counted) \in Nat
<1>1. tracked \subseteq Stream /\ Counted \subseteq Stream
  BY DEF ProxyInv, TypeOK, Counted
<1>2. IsFiniteSet(tracked) /\ IsFiniteSet(Counted)
  BY <1>1, FS_Subset
<1>3. Cardinality(tracked) \in Nat /\ Cardinality(Counted) \in Nat
  BY <1>2, FS_CardinalityType
<1> QED BY <1>2, <1>3 DEF ProxyInv, NothingLeaks, Counted

\* A step of one stream inside its life leaves the counts alone.
LEMMA InsideStep ==
    ASSUME ProxyInv, NEW s \in Stream, UNCHANGED counters,
           at' \in [Stream -> Place], remote' \in [Stream -> {"none", "open", "eof", "closed"}],
           local' \in [Stream -> {"none", "open", "eof", "closed"}],
           told' \in [Stream -> BOOLEAN],
           up' \in [Stream -> Copying], down' \in [Stream -> Copying],
           \A p \in Stream \ {s} : /\ at'[p] = at[p] /\ remote'[p] = remote[p]
                                   /\ local'[p] = local[p]
                                   /\ up'[p] = up[p] /\ down'[p] = down[p],
           Live(s), at[s] # "accepted", Live(s)', at'[s] # "accepted", StreamInv(s)'
    PROVE  ProxyInv'
<1>1. TypeOK'
  BY DEF ProxyInv, TypeOK, counters
<1>2. \A p \in Stream : StreamInv(p)'
  BY DEF ProxyInv, StreamInv
<1>3. \A p \in Stream : Live(p)' <=> Live(p)
  BY DEF Live
<1>4. \A p \in Stream : at'[p] = "accepted" <=> at[p] = "accepted"
  OBVIOUS
<1>5. \A p \in Stream : (Live(p) /\ at[p] # "accepted")' <=> Live(p) /\ at[p] # "accepted"
  BY <1>3, <1>4
<1>6. /\ {p \in Stream : Live(p)}' = {p \in Stream : Live(p)}
      /\ {p \in Stream : Live(p) /\ at[p] # "accepted"}'
            = {p \in Stream : Live(p) /\ at[p] # "accepted"}
  BY <1>3, <1>5
<1>7. NothingLeaks'
  BY <1>2, <1>6 DEF ProxyInv, NothingLeaks, counters, StreamInv
<1> QED BY <1>1, <1>2, <1>7 DEF ProxyInv

LEMMA ProxyStarts == Init => ProxyInv
<1> SUFFICES ASSUME Init PROVE ProxyInv
  OBVIOUS
<1>1. TypeOK /\ \A s \in Stream : StreamInv(s)
  BY DEF Init, TypeOK, StreamInv, Place, Copying
<1>2. {s \in Stream : Live(s)} = {} /\ {s \in Stream : Live(s) /\ at[s] # "accepted"} = {}
  BY DEF Init, Live
<1>3. NothingLeaks
  BY <1>2, FS_EmptySet DEF Init, NothingLeaks
<1> QED BY <1>1, <1>3 DEF ProxyInv

LEMMA SpawnStep == ASSUME ProxyInv, NEW s \in Stream, Spawn(s) PROVE ProxyInv'
<1>0. /\ TypeOK /\ at[s] = "none" /\ at' = [at EXCEPT ![s] = "accepted"]
      /\ remote' = [remote EXCEPT ![s] = "open"] /\ wg' = wg + 1
      /\ UNCHANGED <<local, told, copies, tracked, openConns>>
  BY DEF ProxyInv, Spawn, Goto
<1>1. TypeOK'
  BY <1>0 DEF TypeOK, Place, copies
<1>2. \A p \in Stream : at'[p] = IF p = s THEN "accepted" ELSE at[p]
  BY <1>0 DEF TypeOK
<1>3. \A p \in Stream : StreamInv(p)'
  <2> SUFFICES ASSUME NEW p \in Stream PROVE StreamInv(p)'
    OBVIOUS
  <2>1. StreamInv(p) /\ remote'[p] = IF p = s THEN "open" ELSE remote[p]
    BY <1>0 DEF ProxyInv, TypeOK
  <2>2. CASE p = s
    BY <1>0, <1>2, <2>1, <2>2 DEF StreamInv, Early, copies
  <2>3. CASE p # s
    BY <1>0, <1>2, <2>1, <2>3 DEF StreamInv, copies
  <2> QED BY <2>2, <2>3
<1>4. Counted' = Counted \union {s} /\ s \notin Counted
  BY <1>0, <1>2 DEF Counted, Live
<1>5. wg' = Cardinality(Counted')
  <2>1. IsFiniteSet(Counted) /\ wg = Cardinality(Counted)
    BY CountsFinite DEF ProxyInv, NothingLeaks, Counted
  <2>2. Cardinality(Counted \union {s}) = Cardinality(Counted) + 1
    BY <1>4, <2>1, FS_AddElement
  <2> QED BY <1>0, <1>4, <2>1, <2>2
<1>6. tracked' = {p \in Stream : Live(p)' /\ at'[p] # "accepted"}
  BY <1>0, <1>2 DEF ProxyInv, NothingLeaks, Live
<1>7. NothingLeaks'
  BY <1>0, <1>3, <1>5, <1>6 DEF NothingLeaks, ProxyInv, StreamInv, Counted, Live
<1> QED BY <1>1, <1>3, <1>7 DEF ProxyInv

LEMMA BeginStep == ASSUME ProxyInv, NEW s \in Stream, Begin(s) PROVE ProxyInv'
<1>0. /\ TypeOK /\ at[s] = "accepted" /\ at' = [at EXCEPT ![s] = "dial"]
      /\ tracked' = tracked \union {s} /\ openConns' = openConns + 1
      /\ UNCHANGED <<remote, local, told, copies, wg>>
  BY DEF ProxyInv, Begin, Goto
<1>1. TypeOK'
  BY <1>0 DEF TypeOK, Place, copies
<1>2. \A p \in Stream : at'[p] = IF p = s THEN "dial" ELSE at[p]
  BY <1>0 DEF TypeOK
<1>3. \A p \in Stream : StreamInv(p)'
  BY <1>0, <1>2 DEF ProxyInv, StreamInv, Early, copies
<1>4. Counted' = Counted
  BY <1>0, <1>2 DEF Counted, Live
<1>5. tracked' = {p \in Stream : Live(p)' /\ at'[p] # "accepted"} /\ s \notin tracked
  BY <1>0, <1>2 DEF ProxyInv, NothingLeaks, Live
<1>6. openConns' = Cardinality(tracked')
  BY <1>0, <1>5, CountsFinite, FS_AddElement
<1>7. wg' = Cardinality(Counted')
  BY <1>0, <1>4, CountsFinite
<1>8. NothingLeaks'
  BY <1>3, <1>5, <1>6, <1>7 DEF NothingLeaks, StreamInv, Counted, Live
<1> QED BY <1>1, <1>3, <1>8 DEF ProxyInv

\* The steps between the two.
LEMMA MiddleStep ==
    ASSUME ProxyInv, NEW s \in Stream,
           \/ DialLocal(s) \/ ReadRequest(s) \/ Exchange(s) \/ Reply(s)
           \/ CopyUp(s) \/ CopyDown(s) \/ CopyDone(s)
    PROVE  ProxyInv'
<1>0. /\ TypeOK /\ StreamInv(s)
      /\ at \in [Stream -> Place] /\ remote \in [Stream -> {"none", "open", "eof", "closed"}]
      /\ local \in [Stream -> {"none", "open", "eof", "closed"}]
      /\ told \in [Stream -> BOOLEAN]
      /\ up \in [Stream -> Copying] /\ down \in [Stream -> Copying]
  BY DEF ProxyInv, TypeOK
<1>1. CASE DialLocal(s)
  <2>1. /\ UNCHANGED <<remote, told, copies, counters>> /\ at[s] = "dial"
        /\ \E place \in {"request", "finish"} : at' = [at EXCEPT ![s] = place]
        /\ \E l \in {"open", local[s]} : local' = [local EXCEPT ![s] = l]
    BY <1>0, <1>1 DEF DialLocal, Goto
  <2>2. StreamInv(s)' /\ Live(s) /\ Live(s)' /\ at'[s] # "accepted"
    BY <1>0, <2>1 DEF StreamInv, Live, Early, copies
  <2> QED BY <1>0, <2>1, <2>2, InsideStep DEF copies, Place
<1>2. CASE ReadRequest(s) \/ Exchange(s) \/ Reply(s)
  <2>1. /\ UNCHANGED <<remote, local, told, counters>>
        /\ at[s] \in {"request", "exchange", "reply"}
        /\ \/ /\ \E place \in {"exchange", "reply", "finish"} : at' = [at EXCEPT ![s] = place]
              /\ UNCHANGED copies
           \/ /\ at' = [at EXCEPT ![s] = "copy"]
              /\ up' = [up EXCEPT ![s] = "run"] /\ down' = [down EXCEPT ![s] = "run"]
    BY <1>2 DEF ReadRequest, Exchange, Reply, StartCopy, Goto
  <2>2. StreamInv(s)' /\ Live(s) /\ Live(s)' /\ at'[s] # "accepted"
    BY <1>0, <2>1 DEF StreamInv, Live, Early, copies
  <2> QED BY <1>0, <2>1, <2>2, InsideStep DEF copies, Place, Copying
<1>3. CASE CopyUp(s)
  <2>1. /\ UNCHANGED <<at, remote, local, down, counters>>
        /\ up[s] = "run" /\ up' = [up EXCEPT ![s] = "ended"]
        /\ told' = [told EXCEPT ![s] = TRUE]
    BY <1>3 DEF CopyUp
  <2>2. at[s] = "copy"
    BY <1>0, <2>1 DEF StreamInv, Early, Place
  <2>3. StreamInv(s)' /\ Live(s) /\ Live(s)' /\ at'[s] # "accepted"
    BY <1>0, <2>1, <2>2 DEF StreamInv, Live, Early
  <2> QED BY <1>0, <2>1, <2>2, <2>3, InsideStep DEF Copying
<1>4. CASE CopyDown(s)
  <2>1. /\ UNCHANGED <<at, remote, local, told, up, counters>>
        /\ down[s] = "run" /\ down' = [down EXCEPT ![s] = "ended"]
    BY <1>4 DEF CopyDown
  <2>2. at[s] = "copy"
    BY <1>0, <2>1 DEF StreamInv, Early, Place
  <2>3. StreamInv(s)' /\ Live(s) /\ Live(s)' /\ at'[s] # "accepted"
    BY <1>0, <2>1, <2>2 DEF StreamInv, Live, Early
  <2> QED BY <1>0, <2>1, <2>2, <2>3, InsideStep DEF Copying
<1>5. CASE CopyDone(s)
  <2>1. /\ UNCHANGED <<remote, local, told, copies, counters>>
        /\ at[s] = "copy" /\ at' = [at EXCEPT ![s] = "finish"]
        /\ up[s] = "ended" /\ down[s] = "ended"
    BY <1>5 DEF CopyDone, Goto
  <2>2. StreamInv(s)' /\ Live(s) /\ Live(s)' /\ at'[s] # "accepted"
    BY <1>0, <2>1 DEF StreamInv, Live, Early, copies
  <2> QED BY <1>0, <2>1, <2>2, InsideStep DEF copies, Place
<1> QED BY <1>1, <1>2, <1>3, <1>4, <1>5

LEMMA FinishStep == ASSUME ProxyInv, NEW s \in Stream, Finish(s) PROVE ProxyInv'
<1>0. /\ TypeOK /\ at[s] = "finish" /\ at' = [at EXCEPT ![s] = "done"]
      /\ local' = [local EXCEPT ![s] = IF local[s] = "none" THEN "none" ELSE "closed"]
      /\ remote' = [remote EXCEPT ![s] = "closed"]
      /\ tracked' = tracked \ {s}
      /\ openConns' = IF openConns > 0 THEN openConns - 1 ELSE 0
      /\ wg' = wg - 1 /\ UNCHANGED <<told, copies>>
  BY DEF ProxyInv, TypeOK, Finish, Goto
<1>1. \A p \in Stream : at'[p] = IF p = s THEN "done" ELSE at[p]
  BY <1>0 DEF TypeOK
<1>2. \A p \in Stream : StreamInv(p)'
  BY <1>0, <1>1 DEF ProxyInv, StreamInv, TypeOK, Early, copies
<1>3. s \in Counted /\ Counted' = Counted \ {s}
  BY <1>0, <1>1 DEF Counted, Live
<1>4. s \in tracked /\ tracked' = {p \in Stream : Live(p)' /\ at'[p] # "accepted"}
  BY <1>0, <1>1 DEF ProxyInv, NothingLeaks, Live
<1>5. Cardinality(tracked') = Cardinality(tracked) - 1 /\ Cardinality(tracked') \in Nat
  BY <1>0, <1>4, CountsFinite, FS_RemoveElement, FS_CardinalityType
<1>6. Cardinality(Counted') = Cardinality(Counted) - 1 /\ Cardinality(Counted') \in Nat
  BY <1>3, CountsFinite, FS_RemoveElement, FS_CardinalityType
<1>7. openConns' = Cardinality(tracked') /\ wg' = Cardinality(Counted')
  BY <1>0, <1>5, <1>6, CountsFinite
<1>8. TypeOK'
  BY <1>0, <1>5, <1>6, <1>7 DEF TypeOK, Place, copies
<1>9. NothingLeaks'
  BY <1>2, <1>4, <1>7 DEF NothingLeaks, StreamInv, Counted, Live
<1> QED BY <1>2, <1>8, <1>9 DEF ProxyInv

\* What others do to the connections of streams in progress.
LEMMA ConnectionsStep ==
    ASSUME ProxyInv, UNCHANGED <<at, told, copies, counters>>,
           remote' \in [Stream -> {"none", "open", "eof", "closed"}],
           local' \in [Stream -> {"none", "open", "eof", "closed"}],
           \A s \in Stream : at[s] = "done" => /\ remote'[s] \in {remote[s], "closed"}
                                               /\ local'[s] = local[s]
    PROVE  ProxyInv'
<1>1. TypeOK'
  BY DEF ProxyInv, TypeOK, copies, counters
<1>2. \A s \in Stream : StreamInv(s)'
  BY DEF ProxyInv, StreamInv, copies
<1>3. NothingLeaks'
  BY <1>2 DEF ProxyInv, NothingLeaks, StreamInv, Live, counters
<1> QED BY <1>1, <1>2, <1>3 DEF ProxyInv

\* The two ends and the session.
LEMMA EnvironmentStep ==
    ASSUME ProxyInv, SessionCloses \/ \E s \in Stream : Environment(s)
    PROVE  ProxyInv'
<1>1. /\ UNCHANGED <<at, told, copies, counters>>
      /\ remote \in [Stream -> {"none", "open", "eof", "closed"}]
      /\ local \in [Stream -> {"none", "open", "eof", "closed"}]
  BY DEF ProxyInv, TypeOK, SessionCloses, Environment, PublicCloses, StreamResets, LocalCloses
<1>2. /\ remote' \in [Stream -> {"none", "open", "eof", "closed"}]
      /\ local' \in [Stream -> {"none", "open", "eof", "closed"}]
      /\ \A s \in Stream : at[s] = "done" => remote'[s] = remote[s] /\ local'[s] = local[s]
  BY <1>1 DEF SessionCloses, Severed, Environment, PublicCloses, StreamResets, LocalCloses, Live
<1> QED BY <1>1, <1>2, ConnectionsStep

LEMMA ProxyKeeps == ProxyInv /\ [Next]_proxyVars => ProxyInv'
<1> SUFFICES ASSUME ProxyInv, [Next]_proxyVars PROVE ProxyInv'
  OBVIOUS
<1>1. CASE UNCHANGED proxyVars
  BY <1>1 DEF proxyVars, copies, counters, ProxyInv, TypeOK, NothingLeaks, StreamInv, Live
<1>2. CASE Next
  BY <1>2, SpawnStep, BeginStep, MiddleStep, FinishStep, EnvironmentStep DEF Next, ProxyStream
<1> QED BY <1>1, <1>2

\* A WaitGroup at zero means that no stream is in progress.
LEMMA NoneInProgress == ASSUME ProxyInv, wg = 0, NEW s \in Stream PROVE ~Live(s)
<1>1. Counted = {}
  BY CountsFinite, FS_EmptySet
<1> QED BY <1>1 DEF Counted

LEMMA ProxyInvariant == Spec => []ProxyInv
BY ProxyStarts, ProxyKeeps, PTL DEF Spec

\* The connections, the goroutines and the counters of the streams are well
\* typed in every reachable state; no counter goes below zero.
THEOREM ProxyTyped == Spec => []TypeOK
BY ProxyInvariant, PTL DEF ProxyInv

\* However a stream ends, its connections are closed, nothing copies on them,
\* and it is out of every count.
THEOREM NothingLeaksHolds == Spec => []NothingLeaks
BY ProxyInvariant, PTL DEF ProxyInv

=============================================================================
