------------------------- MODULE IngressProxyProofs -------------------------
(***************************************************************************)
(* Machine-checked facts about proxied requests, for any requests, users,   *)
(* sizes and limit: the flows of all requests together use the bandwidth    *)
(* counter only through its calls, so what BandwidthStoreProofs establishes *)
(* for any callers holds at the ingress; and what was forwarded for a user  *)
(* on account of a day is covered by what was charged that day, but for the *)
(* heads of plain responses.  The second is a matter of counting: the heads *)
(* and the bytes paid for but not yet forwarded are sets, and every step    *)
(* adds to them or takes from them one numbered block.                      *)
(***************************************************************************)
EXTENDS IngressProxy, FiniteSetTheorems, TLAPS

Counter == INSTANCE BandwidthStoreProofs
              WITH Caller <- Flow, Size <- {RequestSize, ChunkSize}

USE RequestUserAssumption, ChoiceAssumption, BytesAssumption, QuotaAssumption,
    FailingAssumption

-----------------------------------------------------------------------------
(* The ingress as a caller of the counter.                                  *)

\* A call as the ingress makes it is a call of the counter.
LEMMA ChargeIsACall ==
    ASSUME NEW f \in Flow, NEW n \in {RequestSize, ChunkSize}, Charge(f, n)
    PROVE  [Counter!Next]_storeVars
<1>1. UserOf(f) \in User
  BY DEF UserOf, Flow
<1>2. Store!Consume(f, UserOf(f), n) => Counter!Consume(f, UserOf(f), n)
  BY DEF Store!Consume, Counter!Consume
<1>3. Counter!Consume(f, UserOf(f), n) => Counter!Next
  BY <1>1 DEF Counter!Next
<1> QED BY <1>2, <1>3 DEF Charge

\* A statement of a flow's call is a statement of the counter.
LEMMA StatementIsAStatement ==
    ASSUME NEW f \in Flow, Store!Statement(f)
    PROVE  Counter!Next
<1>1. Counter!Statement(f)
  BY DEF Store!Statement, Store!Entry, Store!Update, Store!Insert, Store!Refusal, Store!args,
         Counter!Statement, Counter!Entry, Counter!Update, Counter!Insert, Counter!Refusal,
         Counter!args, Store!NoRow, Counter!NoRow, Store!MaxAttempts, Counter!MaxAttempts
<1> QED BY <1>1 DEF Counter!Next

\* Every step of the ingress is a step of the counter or leaves it alone.
LEMMA CounterStep == [Next]_vars => [Counter!Next]_(Counter!storeVars)
<1> SUFFICES ASSUME [Next]_vars PROVE [Counter!Next]_storeVars
  BY DEF Counter!storeVars, storeVars
<1>1. CASE Midnight
  BY <1>1 DEF Midnight, Store!Midnight, Counter!Midnight, Store!args, Counter!args, Counter!Next
<1>2. ASSUME NEW r \in Request, Reserve(r)
      PROVE  [Counter!Next]_storeVars
  BY <1>2, ChargeIsACall DEF Reserve, Flow, Dir
<1>3. ASSUME NEW f \in Flow, ReadChunk(f)
      PROVE  [Counter!Next]_storeVars
  BY <1>3, ChargeIsACall DEF ReadChunk
<1>4. ASSUME NEW f \in Flow, StoreStep(f)
      PROVE  [Counter!Next]_storeVars
  BY <1>4, StatementIsAStatement DEF StoreStep
<1>5. ASSUME NEW f \in Flow,
             Charged(f) \/ ClaimNotice(f) \/ SendNotice(f) \/ WriteChunk(f) \/ EndCopy(f)
      PROVE  UNCHANGED storeVars
  BY <1>5 DEF Charged, ClaimNotice, SendNotice, WriteChunk, EndCopy
<1>6. ASSUME NEW r \in Request,
             Reject(r) \/ OverQuota(r) \/ Open(r) \/ Respond(r) \/ Finish(r)
      PROVE  UNCHANGED storeVars
  BY <1>6 DEF Reject, OverQuota, Open, Respond, Finish
<1>7. ASSUME NEW u \in User, MinutePasses(u)
      PROVE  UNCHANGED storeVars
  BY <1>7 DEF MinutePasses
<1>8. CASE UNCHANGED vars
  BY <1>8 DEF vars
<1> QED BY <1>1, <1>2, <1>3, <1>4, <1>5, <1>6, <1>7, <1>8 DEF Next, FlowStep

\* All requests and directions together are one more use of the counter: seen
\* through its variables, the ingress implements BandwidthStore.
THEOREM ChargesImplementStore == Spec => Counter!Spec
<1>1. Init => Counter!Init
  <2>1. \A f \in Flow : UserOf(f) \in User
    BY DEF UserOf, Flow
  <2> QED BY <2>1 DEF Init, Store!Init, Counter!Init, Store!NoRow, Counter!NoRow, Store!Day,
                      Counter!Day
<1> QED BY <1>1, CounterStep, PTL DEF Spec, Counter!Spec

\* However many requests and directions charge a user at once, and whatever
\* statements fail, the user's counter of a day never passes the limit.
THEOREM CounterWithinLimit == Spec => []Counter!UsedWithinLimit
<1>1. Counter!Spec => []Counter!UsedWithinLimit
  BY Counter!LimitHolds DEF Counter!SizeAssumption
<1> QED BY <1>1, ChargesImplementStore, PTL

-----------------------------------------------------------------------------
(* Types.                                                                   *)

OwnTypes ==
    /\ handler \in [Request -> {"start", "reserve", "respond", "copy", "done"}]
    /\ status \in [Request -> {"none", "404", "429", "502", "proxied"}]
    /\ flow \in [Flow -> {"off", "charging", "notify", "notice", "refused",
                          "granted", "read", "ended"}]
    /\ closed \in [Request -> BOOLEAN]
    /\ chunks \in [Flow -> 0..MaxChunks]
    /\ notified \in [User -> BOOLEAN]
    /\ forwarded \in [User -> [Store!Day -> Nat]]
    /\ free \in [User -> [Store!Day -> Nat]]

\* Bytes entered in a book go to the account of one user and one day.
LEMMA EnterBytes ==
    ASSUME NEW book \in [User -> [Store!Day -> Nat]],
           NEW u \in User, NEW d \in Store!Day, NEW n \in Nat,
           NEW new, new = [book EXCEPT ![u][d] = @ + n]
    PROVE  /\ new \in [User -> [Store!Day -> Nat]]
           /\ \A v \in User, e \in Store!Day :
                 new[v][e] = book[v][e] + (IF v = u /\ e = d THEN n ELSE 0)
<1>1. new = [book EXCEPT ![u] = [book[u] EXCEPT ![d] = book[u][d] + n]]
  OBVIOUS
<1>2. [book[u] EXCEPT ![d] = book[u][d] + n] \in [Store!Day -> Nat]
  OBVIOUS
<1>3. \A v \in User, e \in Store!Day :
          new[v][e] = IF v = u /\ e = d THEN book[v][e] + n ELSE book[v][e]
  BY <1>1
<1>4. \A v \in User, e \in Store!Day : book[v][e] \in Nat
  OBVIOUS
<1> QED BY <1>1, <1>2, <1>3, <1>4

\* A charge keeps the types of what it writes.
LEMMA ChargeTyped ==
    ASSUME OwnTypes, Store!TypeOK, NEW f \in Flow, NEW n \in Nat, Charge(f, n)
    PROVE  /\ flow' \in [Flow -> {"off", "charging", "notify", "notice", "refused",
                                  "granted", "read", "ended"}]
           /\ free' \in [User -> [Store!Day -> Nat]]
<1>1. UserOf(f) \in User /\ today[f] \in Store!Day
  BY DEF UserOf, Flow, Store!TypeOK
<1>2. CASE UNCHANGED free
  BY <1>2 DEF Charge, OwnTypes
<1>3. CASE free' = [free EXCEPT ![UserOf(f)][today[f]] = @ + n]
  <2>1. free' \in [User -> [Store!Day -> Nat]]
    BY <1>1, <1>3, EnterBytes DEF OwnTypes
  <2> QED BY <2>1 DEF Charge, OwnTypes
<1> QED BY <1>2, <1>3 DEF Charge

\* A step of the ingress keeps its own variables in their domains; what a flow
\* charges, and when, is typed by the counter.
LEMMA TypeStep == OwnTypes /\ Store!TypeOK /\ [Next]_vars => OwnTypes'
<1> SUFFICES ASSUME OwnTypes, Store!TypeOK, [Next]_vars PROVE OwnTypes'
  OBVIOUS
<1>0. /\ \A f \in Flow : /\ f[1] \in Request /\ UserOf(f) \in User
                         /\ today[f] \in Store!Day /\ bytes[f] \in Nat
      /\ clock \in Store!Day
  BY DEF UserOf, Flow, Store!TypeOK
<1> USE DEF OwnTypes
<1>1. CASE Midnight
  BY <1>1 DEF Midnight, books
<1>2. ASSUME NEW u \in User, MinutePasses(u)
      PROVE  OwnTypes'
  BY <1>2 DEF MinutePasses, books
<1>3. ASSUME NEW r \in Request, Reject(r)
      PROVE  OwnTypes'
  BY <1>3 DEF Reject, Answer, books
<1>4. ASSUME NEW r \in Request, Reserve(r)
      PROVE  OwnTypes'
  BY <1>4, ChargeTyped DEF Reserve, Flow, Dir
<1>5. ASSUME NEW r \in Request, OverQuota(r)
      PROVE  OwnTypes'
  BY <1>5 DEF OverQuota, Answer, books
<1>6. ASSUME NEW r \in Request, Open(r)
      PROVE  OwnTypes'
  <2>1. RequestUser[r] \in User /\ today[<<r, "up">>] \in Store!Day
    BY <1>0 DEF Flow, Dir
  <2>2. forwarded' \in [User -> [Store!Day -> Nat]]
    <3>1. CASE UNCHANGED forwarded
      BY <3>1
    <3>2. CASE forwarded' = [forwarded EXCEPT
                 ![RequestUser[r]][today[<<r, "up">>]] = @ + RequestSize]
      <4>1. RequestSize \in Nat /\ forwarded \in [User -> [Store!Day -> Nat]]
        OBVIOUS
      <4> QED BY <2>1, <3>2, <4>1, EnterBytes
    <3> QED BY <1>6, <3>1, <3>2 DEF Open
  <2>3. /\ handler' \in [Request -> {"start", "reserve", "respond", "copy", "done"}]
        /\ status' \in [Request -> {"none", "404", "429", "502", "proxied"}]
    <3>1. \/ /\ handler' = [handler EXCEPT ![r] = "respond"] /\ UNCHANGED status
          \/ /\ handler' = [handler EXCEPT ![r] = "done"]
             /\ status' = [status EXCEPT ![r] = "502"]
      BY <1>6 DEF Open, Answer
    <3> QED BY <3>1
  <2>4. flow' \in [Flow -> {"off", "charging", "notify", "notice", "refused",
                           "granted", "read", "ended"}]
    BY <1>6 DEF Open
  <2>5. UNCHANGED <<closed, chunks, notified, free>>
    BY <1>6 DEF Open
  <2> QED BY <2>2, <2>3, <2>4, <2>5
<1>7. ASSUME NEW r \in Request, Respond(r)
      PROVE  OwnTypes'
  <2>1. RequestUser[r] \in User /\ HeaderSize \in Nat
    OBVIOUS
  <2>2. forwarded' \in [User -> [Store!Day -> Nat]]
    <3>1. CASE UNCHANGED forwarded
      BY <3>1
    <3>2. CASE forwarded' = [forwarded EXCEPT ![RequestUser[r]][clock] = @ + HeaderSize]
      BY <1>0, <2>1, <3>2, EnterBytes
    <3>3. CASE r \in Upgrade /\ forwarded' = [forwarded EXCEPT ![RequestUser[r]][clock] = @]
      BY <3>3
    <3> QED BY <1>7, <3>1, <3>2, <3>3 DEF Respond
  <2>3. /\ handler' \in [Request -> {"start", "reserve", "respond", "copy", "done"}]
        /\ status' \in [Request -> {"none", "404", "429", "502", "proxied"}]
    <3>1. \/ /\ handler' = [handler EXCEPT ![r] = "copy"]
             /\ status' = [status EXCEPT ![r] = "proxied"]
          \/ /\ handler' = [handler EXCEPT ![r] = "done"]
             /\ status' = [status EXCEPT ![r] = "502"]
      BY <1>7 DEF Respond, Answer
    <3> QED BY <3>1
  <2>4. flow' \in [Flow -> {"off", "charging", "notify", "notice", "refused",
                           "granted", "read", "ended"}]
    BY <1>7 DEF Respond
  <2>5. UNCHANGED <<closed, chunks, notified, free>>
    BY <1>7 DEF Respond
  <2> QED BY <2>2, <2>3, <2>4, <2>5
<1>8. ASSUME NEW r \in Request, Finish(r)
      PROVE  OwnTypes'
  BY <1>8 DEF Finish, books
<1>9. ASSUME NEW f \in Flow, StoreStep(f)
      PROVE  OwnTypes'
  BY <1>9 DEF StoreStep, books
<1>10. ASSUME NEW f \in Flow, Charged(f)
       PROVE  OwnTypes'
  <2>1. free' \in [User -> [Store!Day -> Nat]]
    <3>1. CASE pc[f] = "failed"
      <4>1. free' = [free EXCEPT ![UserOf(f)][today[f]] = @ + bytes[f]]
        BY <1>10, <3>1 DEF Charged
      <4> QED BY <1>0, <4>1, EnterBytes
    <3>2. CASE pc[f] # "failed"
      <4>1. free' = [free EXCEPT ![UserOf(f)][today[f]] = @]
        BY <1>10, <3>2 DEF Charged
      <4> QED BY <4>1
    <3> QED BY <3>1, <3>2
  <2> QED BY <1>10, <2>1 DEF Charged
<1>11. ASSUME NEW f \in Flow, ClaimNotice(f) \/ SendNotice(f)
       PROVE  OwnTypes'
  <2>1. notified' \in [User -> BOOLEAN]
    BY <1>0, <1>11 DEF ClaimNotice, SendNotice
  <2>2. flow' \in [Flow -> {"off", "charging", "notify", "notice", "refused",
                           "granted", "read", "ended"}]
    <3>1. \E x \in {"refused", "notice"} : flow' = [flow EXCEPT ![f] = x]
      BY <1>11 DEF ClaimNotice, SendNotice
    <3> QED BY <3>1
  <2>3. UNCHANGED <<handler, status, closed, chunks, forwarded, free>>
    BY <1>11 DEF ClaimNotice, SendNotice, books
  <2> QED BY <2>1, <2>2, <2>3
<1>12. ASSUME NEW f \in Flow, ReadChunk(f)
       PROVE  OwnTypes'
  <2>1. chunks[f] + 1 \in 0..MaxChunks
    BY <1>12 DEF ReadChunk
  <2> QED BY <1>12, <2>1, ChargeTyped DEF ReadChunk
<1>13. ASSUME NEW f \in Flow, WriteChunk(f)
       PROVE  OwnTypes'
  <2>1. forwarded' \in [User -> [Store!Day -> Nat]]
    BY <1>0, <1>13, EnterBytes DEF WriteChunk
  <2> QED BY <1>13, <2>1 DEF WriteChunk
<1>14. ASSUME NEW f \in Flow, EndCopy(f)
       PROVE  OwnTypes'
  BY <1>0, <1>14 DEF EndCopy, books
<1>15. CASE UNCHANGED vars
  BY <1>15 DEF vars, books
<1> QED BY <1>1, <1>2, <1>3, <1>4, <1>5, <1>6, <1>7, <1>8, <1>9, <1>10, <1>11, <1>12,
           <1>13, <1>14, <1>15 DEF Next, FlowStep

\* Every reachable state of the ingress and its counter is well typed.
THEOREM IngressTyped == Spec => []TypeOK
<1>1. Init => OwnTypes
  BY DEF Init, OwnTypes
<1>2. Counter!Spec => []Counter!TypeOK
  BY Counter!TypeCorrectness DEF Counter!SizeAssumption
<1>3. Counter!TypeOK => Store!TypeOK
  BY DEF Store!TypeOK, Counter!TypeOK, Store!Day, Counter!Day, Store!NoRow,
         Counter!NoRow, Store!CallState, Counter!CallState, Store!Outcome, Counter!Outcome,
         Store!MaxAttempts, Counter!MaxAttempts
<1>4. OwnTypes /\ Store!TypeOK => TypeOK
  BY DEF OwnTypes, TypeOK
<1> QED BY <1>1, <1>2, <1>3, <1>4, TypeStep, ChargesImplementStore, PTL DEF Spec

-----------------------------------------------------------------------------
(* Counting.                                                                *)

\* The numbers a + 1 to a + n under one key.
Block(x, a, n) == {x} \X ((a + 1)..(a + n))

\* Adding a block of n numbers that were not there adds n.
LEMMA AddBlock ==
    ASSUME NEW S, IsFiniteSet(S), NEW x, NEW a \in Nat, NEW n \in Nat,
           S \cap Block(x, a, n) = {}
    PROVE  /\ IsFiniteSet(S \union Block(x, a, n))
           /\ Cardinality(S \union Block(x, a, n)) = Cardinality(S) + n
<1> DEFINE B == Block(x, a, n)
<1>1. IsFiniteSet((a + 1)..(a + n)) /\ Cardinality((a + 1)..(a + n)) = n
  <2>1. a + 1 \in Int /\ a + n \in Int
    OBVIOUS
  <2>2. /\ IsFiniteSet((a + 1)..(a + n))
        /\ Cardinality((a + 1)..(a + n)) =
              IF a + 1 > a + n THEN 0 ELSE (a + n) - (a + 1) + 1
    BY <2>1, FS_Interval
  <2> QED BY <2>2
<1>2. IsFiniteSet({x}) /\ Cardinality({x}) = 1
  BY FS_Singleton
<1>3. IsFiniteSet(B) /\ Cardinality(B) = n
  <2>1. IsFiniteSet(B) /\ Cardinality(B) = 1 * n
    BY <1>1, <1>2, FS_Product DEF Block
  <2> QED BY <2>1
<1>4. /\ IsFiniteSet(S \union B)
      /\ Cardinality(S \union B) =
            Cardinality(S) + Cardinality(B) - Cardinality(S \cap B)
  BY <1>3, FS_Union
<1>5. Cardinality(S) \in Nat /\ Cardinality({}) = 0
  BY FS_CardinalityType, FS_EmptySet
<1> QED BY <1>3, <1>4, <1>5

\* What a row says is a number.
LEMMA UsedType ==
    ASSUME Store!TypeOK, NEW u \in User, NEW d \in Store!Day
    PROVE  Store!Used(u, d) \in Nat
BY DEF Store!TypeOK, Store!Used, Store!NoRow

\* A statement charges n bytes to the row of a user and a day.
Enters(u, d, n) == rows' = [rows EXCEPT ![u][d] = Store!Used(u, d) + n]

\* Charging n bytes to a row charges nothing to any other row.
LEMMA UsedAdds ==
    ASSUME Store!TypeOK, NEW u \in User, NEW d \in Store!Day, NEW n \in Nat,
           Enters(u, d, n)
    PROVE  \A v \in User, e \in Store!Day :
               Store!Used(v, e)' = Store!Used(v, e) + (IF v = u /\ e = d THEN n ELSE 0)
<1> SUFFICES ASSUME NEW v \in User, NEW e \in Store!Day
             PROVE  Store!Used(v, e)' =
                        Store!Used(v, e) + (IF v = u /\ e = d THEN n ELSE 0)
  OBVIOUS
<1> DEFINE a == Store!Used(u, d)
<1>1. a \in Nat /\ a + n \in Nat /\ Store!Used(v, e) \in Nat
  BY UsedType
<1>2. /\ rows' = [rows EXCEPT ![u] = [rows[u] EXCEPT ![d] = a + n]]
      /\ rows \in [User -> [Store!Day -> Nat \union {Store!NoRow}]]
  BY DEF Store!TypeOK, Enters
<1>3. rows'[v][e] = IF v = u /\ e = d THEN a + n ELSE rows[v][e]
  BY <1>2
<1>4. CASE v = u /\ e = d
  <2>1. rows'[v][e] = a + n /\ a + n # -1
    BY <1>1, <1>3, <1>4
  <2>2. Store!Used(v, e)' = IF rows'[v][e] = -1 THEN 0 ELSE rows'[v][e]
    BY DEF Store!Used, Store!NoRow
  <2> QED BY <1>4, <2>1, <2>2
<1>5. CASE ~(v = u /\ e = d)
  <2>1. rows'[v][e] = rows[v][e]
    BY <1>3, <1>5
  <2>2. Store!Used(v, e)' = Store!Used(v, e)
    BY <2>1 DEF Store!Used, Store!NoRow
  <2> QED BY <1>1, <1>5, <2>2
<1> QED BY <1>4, <1>5

\* A step proxies no further request.
HeadsKept == \A r \in Request : status'[r] = "proxied" <=> status[r] = "proxied"

\* Such a step sends no heads.
LEMMA HeadsSame ==
    ASSUME HeadsKept, NEW u \in User
    PROVE  HeadBytes(u)' = HeadBytes(u) /\ Heads(u)' = Heads(u)
<1>1. {r \in Request \ Upgrade : RequestUser[r] = u /\ status'[r] = "proxied"} =
          {r \in Request \ Upgrade : RequestUser[r] = u /\ status[r] = "proxied"}
  BY DEF HeadsKept
<1> QED BY <1>1 DEF Heads, HeadBytes

\* A plain request that is proxied sends its head to its user's account.
LEMMA HeadsAdd ==
    ASSUME NEW r \in Request \ Upgrade, status[r] # "proxied",
           OwnTypes, status' = [status EXCEPT ![r] = "proxied"],
           NEW u \in User, IsFiniteSet(HeadBytes(u))
    PROVE  /\ IsFiniteSet(HeadBytes(u)')
           /\ Heads(u)' = Heads(u) + (IF u = RequestUser[r] THEN HeaderSize ELSE 0)
<1> DEFINE B == Block(r, 0, HeaderSize)
           Plain == {q \in Request \ Upgrade : RequestUser[q] = u /\ status[q] = "proxied"}
           Plain2 == {q \in Request \ Upgrade : RequestUser[q] = u /\ status'[q] = "proxied"}
<1>0. /\ HeadBytes(u) = Plain \X (1..HeaderSize)
      /\ HeadBytes(u)' = Plain2 \X (1..HeaderSize)
      /\ B = {r} \X (1..HeaderSize)
  BY DEF HeadBytes, Block
<1>1. CASE u = RequestUser[r]
  <2>1. Plain2 = Plain \union {r} /\ r \notin Plain
    BY <1>1 DEF OwnTypes
  <2> HIDE DEF Plain, Plain2, B
  <2>2. HeadBytes(u)' = HeadBytes(u) \union B /\ HeadBytes(u) \cap B = {}
    BY <1>0, <2>1
  <2>3. /\ IsFiniteSet(HeadBytes(u) \union B)
        /\ Cardinality(HeadBytes(u) \union B) = Cardinality(HeadBytes(u)) + HeaderSize
    BY <2>2, AddBlock DEF B
  <2> QED BY <1>1, <2>2, <2>3 DEF Heads
<1>2. CASE u # RequestUser[r]
  <2>1. Plain2 = Plain
    BY <1>2 DEF OwnTypes
  <2> HIDE DEF Plain, Plain2, B
  <2>2. HeadBytes(u)' = HeadBytes(u)
    BY <1>0, <2>1
  <2>3. Heads(u) \in Nat
    BY FS_CardinalityType DEF Heads
  <2> QED BY <1>2, <2>2, <2>3 DEF Heads
<1> QED BY <1>1, <1>2

-----------------------------------------------------------------------------
(* What a flow has been granted and has not forwarded yet.                  *)

\* What the flow charges when it charges: the request, then its chunks.
Amount(f) == IF handler[f[1]] = "reserve" THEN RequestSize ELSE ChunkSize

\* The bytes of the flow are paid for, or let pass, and not forwarded yet.
Owes(f) ==
    \/ flow[f] = "granted"
    \/ flow[f] = "charging" /\ pc[f] = "allowed"

\* The bytes owed to a user's clients on account of a day, numbered within each
\* flow.
OwedBytes(u, d) ==
    {p \in Flow \X (1..(RequestSize + ChunkSize)) :
        /\ UserOf(p[1]) = u /\ today[p[1]] = d
        /\ Owes(p[1]) /\ p[2] <= Amount(p[1])}

\* A step leaves alone what the flow owes, and the day it was charged to.
Kept(f) == /\ Owes(f)' <=> Owes(f)
           /\ Owes(f) => Amount(f)' = Amount(f) /\ today'[f] = today[f]

\* Amounts are numbers, and no larger than what OwedBytes counts up to.
LEMMA AmountType ==
    ASSUME NEW f
    PROVE  /\ Amount(f) \in 0..(RequestSize + ChunkSize)
           /\ Amount(f)' \in 0..(RequestSize + ChunkSize)
BY DEF Amount

\* If every flow keeps what it owes, so does every user.
LEMMA OwedKept ==
    ASSUME \A f \in Flow : Kept(f), NEW u \in User, NEW d
    PROVE  OwedBytes(u, d)' = OwedBytes(u, d)
BY DEF OwedBytes, Kept, UserOf, Flow, Dir

\* A flow that begins to owe adds its amount to what its user is owed.
LEMMA OwedAdds ==
    ASSUME NEW f \in Flow, ~Owes(f), Owes(f)', \A g \in Flow \ {f} : Kept(g),
           NEW u \in User, NEW d, IsFiniteSet(OwedBytes(u, d))
    PROVE  /\ IsFiniteSet(OwedBytes(u, d)')
           /\ Cardinality(OwedBytes(u, d)') = Cardinality(OwedBytes(u, d)) +
                  (IF u = UserOf(f) /\ d = today'[f] THEN Amount(f)' ELSE 0)
<1> DEFINE B == Block(f, 0, Amount(f)')
<1>1. CASE u = UserOf(f) /\ d = today'[f]
  <2>1. OwedBytes(u, d)' = OwedBytes(u, d) \union B
    <3>1. ASSUME NEW g \in Flow \ {f}, NEW k
          PROVE  <<g, k>> \in OwedBytes(u, d)' <=> <<g, k>> \in OwedBytes(u, d)
      BY DEF OwedBytes, Kept, UserOf
    <3>2. ASSUME NEW k
          PROVE  <<f, k>> \in OwedBytes(u, d)' <=> k \in 1..Amount(f)'
      BY <1>1, AmountType DEF OwedBytes, UserOf
    <3>3. ASSUME NEW k
          PROVE  <<f, k>> \notin OwedBytes(u, d)
      BY DEF OwedBytes
    <3>4. \A g, k : <<g, k>> \in B <=> g = f /\ k \in 1..Amount(f)'
      BY AmountType DEF Block
    <3> HIDE DEF B
    <3>5. \A p \in Flow \X (1..(RequestSize + ChunkSize)) :
              p \in OwedBytes(u, d)' <=> p \in OwedBytes(u, d) \union B
      BY <3>1, <3>2, <3>3, <3>4
    <3>6. /\ OwedBytes(u, d)' \subseteq Flow \X (1..(RequestSize + ChunkSize))
          /\ OwedBytes(u, d) \subseteq Flow \X (1..(RequestSize + ChunkSize))
      BY DEF OwedBytes
    <3>7. B \subseteq Flow \X (1..(RequestSize + ChunkSize))
      BY AmountType DEF B, Block
    <3> QED BY <3>5, <3>6, <3>7
  <2>2. OwedBytes(u, d) \cap B = {}
    BY DEF OwedBytes, Block
  <2>3. Amount(f)' \in Nat
    BY AmountType
  <2> HIDE DEF B
  <2>4. /\ IsFiniteSet(OwedBytes(u, d) \union B)
        /\ Cardinality(OwedBytes(u, d) \union B) = Cardinality(OwedBytes(u, d)) + Amount(f)'
    BY <2>2, <2>3, AddBlock DEF B
  <2> QED BY <1>1, <2>1, <2>4
<1>2. CASE ~(u = UserOf(f) /\ d = today'[f])
  <2>1. OwedBytes(u, d)' = OwedBytes(u, d)
    BY <1>2 DEF OwedBytes, Kept, UserOf
  <2>2. Cardinality(OwedBytes(u, d)) \in Nat
    BY FS_CardinalityType
  <2> QED BY <1>2, <2>1, <2>2
<1> QED BY <1>1, <1>2

\* A flow that ceases to owe takes its amount from what its user is owed.
LEMMA OwedDrops ==
    ASSUME NEW f \in Flow, Owes(f), ~Owes(f)', \A g \in Flow \ {f} : Kept(g),
           NEW u \in User, NEW d, IsFiniteSet(OwedBytes(u, d))
    PROVE  /\ IsFiniteSet(OwedBytes(u, d)')
           /\ Cardinality(OwedBytes(u, d)) = Cardinality(OwedBytes(u, d)') +
                  (IF u = UserOf(f) /\ d = today[f] THEN Amount(f) ELSE 0)
<1> DEFINE B == Block(f, 0, Amount(f))
<1>0. IsFiniteSet(OwedBytes(u, d)')
  <2>1. OwedBytes(u, d)' \subseteq OwedBytes(u, d)
    BY DEF OwedBytes, Kept, UserOf
  <2> QED BY <2>1, FS_Subset
<1>1. CASE u = UserOf(f) /\ d = today[f]
  <2>1. OwedBytes(u, d) = OwedBytes(u, d)' \union B
    <3>1. ASSUME NEW g \in Flow \ {f}, NEW k
          PROVE  <<g, k>> \in OwedBytes(u, d)' <=> <<g, k>> \in OwedBytes(u, d)
      BY DEF OwedBytes, Kept, UserOf
    <3>2. ASSUME NEW k
          PROVE  <<f, k>> \in OwedBytes(u, d) <=> k \in 1..Amount(f)
      BY <1>1, AmountType DEF OwedBytes, UserOf
    <3>3. ASSUME NEW k
          PROVE  <<f, k>> \notin OwedBytes(u, d)'
      BY DEF OwedBytes
    <3>4. \A g, k : <<g, k>> \in B <=> g = f /\ k \in 1..Amount(f)
      BY AmountType DEF Block
    <3> HIDE DEF B
    <3>5. \A p \in Flow \X (1..(RequestSize + ChunkSize)) :
              p \in OwedBytes(u, d) <=> p \in OwedBytes(u, d)' \union B
      BY <3>1, <3>2, <3>3, <3>4
    <3>6. /\ OwedBytes(u, d)' \subseteq Flow \X (1..(RequestSize + ChunkSize))
          /\ OwedBytes(u, d) \subseteq Flow \X (1..(RequestSize + ChunkSize))
      BY DEF OwedBytes
    <3>7. B \subseteq Flow \X (1..(RequestSize + ChunkSize))
      BY AmountType DEF B, Block
    <3> QED BY <3>5, <3>6, <3>7
  <2>2. OwedBytes(u, d)' \cap B = {}
    BY DEF OwedBytes, Block
  <2>3. Amount(f) \in Nat
    BY AmountType
  <2> HIDE DEF B
  <2>4. Cardinality(OwedBytes(u, d)' \union B) = Cardinality(OwedBytes(u, d)') + Amount(f)
    BY <1>0, <2>2, <2>3, AddBlock DEF B
  <2> QED BY <1>0, <1>1, <2>1, <2>4
<1>2. CASE ~(u = UserOf(f) /\ d = today[f])
  <2>1. OwedBytes(u, d)' = OwedBytes(u, d)
    BY <1>2 DEF OwedBytes, Kept, UserOf
  <2>2. Cardinality(OwedBytes(u, d)) \in Nat
    BY FS_CardinalityType
  <2> QED BY <1>2, <2>1, <2>2
<1> QED BY <1>0, <1>1, <1>2

-----------------------------------------------------------------------------
(* Where a flow stands while its request stands where it does.              *)

\* A flow charges only between the steps of its request that wait for it, and
\* the call it makes of the counter is for its user and its amount.  A request
\* is not answered before its goroutine is done or copies the answer.
FlowInv(f) ==
    /\ handler[f[1]] \in {"start", "reserve", "respond"} => status[f[1]] = "none"
    /\ handler[f[1]] \in {"start", "respond"} => flow[f] = "off"
    /\ handler[f[1]] = "done" => flow[f] \in {"off", "ended"}
    /\ handler[f[1]] = "reserve" =>
          flow[f] # "read" /\ (f[2] = "down" => flow[f] = "off")
    /\ flow[f] = "charging" =>
          /\ pc[f] # "idle" /\ who[f] = UserOf(f) /\ Counted(UserOf(f))
          /\ bytes[f] = Amount(f) /\ bytes[f] > 0
    /\ pc[f] \in {"entry", "update", "insert"} => flow[f] = "charging"

\* What a statement of a flow's call may do: go on, charge nothing, or charge
\* the row of its user and day with its bytes and allow them.
LEMMA StatementEffect ==
    ASSUME Store!TypeOK, NEW f \in Flow, Store!Statement(f)
    PROVE  /\ pc[f] \in {"entry", "update", "insert"}
           /\ UNCHANGED <<clock, who, bytes, today>>
           /\ \E v \in {"update", "insert", "allowed", "denied", "failed"} :
                 pc' = [pc EXCEPT ![f] = v]
           /\ \/ /\ UNCHANGED rows
                 /\ pc'[f] # "allowed" \/ DailyLimit = 0 \/ bytes[f] = 0
              \/ /\ pc'[f] = "allowed"
                 /\ rows' = [rows EXCEPT ![who[f]][today[f]] =
                                 Store!Used(who[f], today[f]) + bytes[f]]
<1> USE DEF Store!TypeOK, Store!NoRow, Store!args
<1>1. CASE Store!Entry(f)
  BY <1>1 DEF Store!Entry, Store!Refusal
<1>2. CASE Store!Update(f)
  <2> DEFINE row == rows[who[f]][today[f]]
  <2>1. CASE row # -1 /\ rows' = [rows EXCEPT ![who[f]][today[f]] = @ + bytes[f]]
             /\ pc' = [pc EXCEPT ![f] = "allowed"]
    <3>1. rows' = [rows EXCEPT ![who[f]][today[f]] =
                       Store!Used(who[f], today[f]) + bytes[f]]
      BY <2>1 DEF Store!Used
    <3> QED BY <1>2, <2>1, <3>1 DEF Store!Update
  <2>2. CASE UNCHANGED rows /\ pc' = [pc EXCEPT ![f] = "insert"]
    BY <1>2, <2>2 DEF Store!Update
  <2>3. CASE UNCHANGED rows /\ pc' = [pc EXCEPT ![f] = "failed"]
    BY <1>2, <2>3 DEF Store!Update
  <2> QED BY <1>2, <2>1, <2>2, <2>3 DEF Store!Update
<1>3. CASE Store!Insert(f)
  <2> DEFINE row == rows[who[f]][today[f]]
  <2>1. CASE row = -1 /\ rows' = [rows EXCEPT ![who[f]][today[f]] = bytes[f]]
             /\ pc' = [pc EXCEPT ![f] = "allowed"]
    <3>1. Store!Used(who[f], today[f]) + bytes[f] = bytes[f]
      BY <2>1 DEF Store!Used
    <3> QED BY <1>3, <2>1, <3>1 DEF Store!Insert
  <2>2. CASE UNCHANGED rows
             /\ \E v \in {"update", "denied", "failed"} : pc' = [pc EXCEPT ![f] = v]
    BY <1>3, <2>2 DEF Store!Insert
  <2> QED BY <1>3, <2>1, <2>2 DEF Store!Insert, Store!Refusal
<1> QED BY <1>1, <1>2, <1>3 DEF Store!Statement

\* A charge makes a call of the counter, or is granted at once.
LEMMA ChargeEffect ==
    ASSUME OwnTypes, Store!TypeOK, NEW f \in Flow, NEW n \in Nat, Charge(f, n)
    PROVE  /\ UNCHANGED rows
           /\ \/ /\ pc' = [pc EXCEPT ![f] = "entry"]
                 /\ who' = [who EXCEPT ![f] = UserOf(f)]
                 /\ bytes' = [bytes EXCEPT ![f] = n]
                 /\ today' = [today EXCEPT ![f] = clock]
                 /\ Counted(UserOf(f)) /\ n > 0
                 /\ flow' = [flow EXCEPT ![f] = "charging"]
                 /\ UNCHANGED free
              \/ /\ UNCHANGED <<pc, who, bytes, today>>
                 /\ flow' = [flow EXCEPT ![f] = "granted"]
                 /\ free' = [free EXCEPT ![UserOf(f)][today[f]] = @ + n]
BY DEF Charge, Store!Consume, storeVars

\* What a charge does to a flow and its call, the books left aside.
LEMMA ChargeCalls ==
    ASSUME OwnTypes, Store!TypeOK, NEW f \in Flow, NEW n \in Nat, Charge(f, n)
    PROVE  /\ \A g \in Flow \ {f} : UNCHANGED <<flow[g], pc[g], who[g], bytes[g]>>
           /\ \/ /\ pc'[f] = "entry" /\ who'[f] = UserOf(f) /\ bytes'[f] = n
                 /\ Counted(UserOf(f)) /\ n > 0 /\ flow'[f] = "charging"
              \/ UNCHANGED <<pc[f], who[f], bytes[f]>> /\ flow'[f] = "granted"
<1>1. /\ flow \in [Flow -> {"off", "charging", "notify", "notice", "refused",
                           "granted", "read", "ended"}]
      /\ pc \in [Flow -> Store!CallState] /\ who \in [Flow -> User]
      /\ bytes \in [Flow -> Nat]
  BY DEF OwnTypes, Store!TypeOK
<1>2. \/ /\ pc' = [pc EXCEPT ![f] = "entry"] /\ who' = [who EXCEPT ![f] = UserOf(f)]
         /\ bytes' = [bytes EXCEPT ![f] = n]
         /\ Counted(UserOf(f)) /\ n > 0 /\ flow' = [flow EXCEPT ![f] = "charging"]
      \/ UNCHANGED <<pc, who, bytes>> /\ flow' = [flow EXCEPT ![f] = "granted"]
  BY ChargeEffect
<1> QED BY <1>1, <1>2

\* A step keeps flows and requests together.
LEMMA FlowInvStep ==
    ASSUME OwnTypes, Store!TypeOK, \A f \in Flow : FlowInv(f), [Next]_vars
    PROVE  \A g \in Flow : FlowInv(g)'
<1> SUFFICES ASSUME NEW g \in Flow PROVE FlowInv(g)'
  OBVIOUS
<1>0. /\ g = <<g[1], g[2]>> /\ g[1] \in Request /\ g[2] \in Dir
      /\ \A r \in Request, d \in Dir : <<r, d>> \in Flow
      /\ \A f \in Flow : f[1] \in Request
  BY DEF Flow
<1> USE DEF OwnTypes, FlowInv, Amount, UserOf, Counted
<1>1. CASE UNCHANGED <<handler, status, flow, pc, who, bytes>>
  BY <1>1
<1>2. ASSUME NEW r \in Request, Reject(r) PROVE FlowInv(g)'
  BY <1>0, <1>2 DEF Reject, Answer, storeVars
<1>3. ASSUME NEW r \in Request, Reserve(r) PROVE FlowInv(g)'
  <2> DEFINE f == <<r, "up">>
  <2>1. f \in Flow /\ RequestSize \in Nat
    BY <1>0 DEF Dir
  <2>2. g[1] = r /\ g # f => g[2] = "down"
    BY <1>0 DEF Dir
  <2> HIDE DEF f
  <2>3. f[1] = r /\ f[2] = "up"
    BY DEF f
  <2>4. Charge(f, RequestSize) /\ handler[r] = "start"
        /\ handler' = [handler EXCEPT ![r] = "reserve"] /\ UNCHANGED status
    BY <1>3 DEF Reserve, f
  <2>5. CASE g = f
    <3>1. handler'[g[1]] = "reserve" /\ status'[g[1]] = "none" /\ g[2] = "up"
      BY <1>0, <2>3, <2>4, <2>5
    <3>2. pc[g] \notin {"entry", "update", "insert"}
      BY <1>0, <2>3, <2>4, <2>5
    <3>3. \/ /\ pc'[g] = "entry" /\ who'[g] = UserOf(g) /\ bytes'[g] = RequestSize
             /\ Counted(UserOf(g)) /\ RequestSize > 0 /\ flow'[g] = "charging"
          \/ UNCHANGED <<pc[g], who[g], bytes[g]>> /\ flow'[g] = "granted"
      BY <2>1, <2>4, <2>5, ChargeCalls
    <3> QED BY <3>1, <3>2, <3>3
  <2>6. CASE g # f
    <3>1. flow'[g] = flow[g] /\ pc'[g] = pc[g] /\ who'[g] = who[g] /\ bytes'[g] = bytes[g]
      BY <2>1, <2>4, <2>6, ChargeCalls
    <3> QED BY <1>0, <2>2, <2>3, <2>4, <2>6, <3>1
  <2> QED BY <2>5, <2>6
<1>4. ASSUME NEW r \in Request, OverQuota(r) PROVE FlowInv(g)'
  <2>1. /\ UNCHANGED <<pc, who, bytes>> /\ status' = [status EXCEPT ![r] = "429"]
        /\ handler[r] = "reserve" /\ flow[<<r, "up">>] = "refused"
        /\ handler' = [handler EXCEPT ![r] = "done"]
        /\ flow' = [flow EXCEPT ![<<r, "up">>] = "ended"]
    BY <1>4 DEF OverQuota, Answer, storeVars
  <2>2. CASE g[1] # r
    <3>1. g # <<r, "up">> /\ UNCHANGED <<handler[g[1]], status[g[1]]>>
      BY <1>0, <2>1, <2>2
    <3>2. flow'[g] = flow[g]
      BY <1>0, <2>1, <3>1
    <3> QED BY <1>0, <2>1, <3>1, <3>2
  <2>3. CASE g = <<r, "up">>
    BY <1>0, <2>1, <2>3
  <2>4. CASE g = <<r, "down">>
    <3>1. flow'[g] = flow[g] /\ flow[g] = "off" /\ handler'[g[1]] = "done"
      BY <1>0, <2>1, <2>4
    <3> QED BY <1>0, <2>1, <3>1
  <2>5. g[1] = r => g = <<r, "up">> \/ g = <<r, "down">>
    BY <1>0 DEF Dir
  <2> QED BY <2>2, <2>3, <2>4, <2>5
<1>5. ASSUME NEW r \in Request, Open(r) PROVE FlowInv(g)'
  <2>1. /\ UNCHANGED <<pc, who, bytes>> /\ handler[r] = "reserve"
        /\ flow' = [flow EXCEPT ![<<r, "up">>] = "off"] /\ flow[<<r, "up">>] = "granted"
        /\ \/ handler' = [handler EXCEPT ![r] = "respond"] /\ UNCHANGED status
           \/ /\ handler' = [handler EXCEPT ![r] = "done"]
              /\ status' = [status EXCEPT ![r] = "502"]
    BY <1>5 DEF Open, Answer, storeVars
  <2>2. CASE g[1] # r
    <3>1. UNCHANGED <<handler[g[1]], status[g[1]], flow[g]>>
      BY <1>0, <2>1, <2>2
    <3> QED BY <1>0, <2>1, <3>1
  <2>3. CASE g = <<r, "up">>
    <3>1. flow'[g] = "off" /\ handler'[r] \in {"respond", "done"}
      BY <1>0, <2>1, <2>3
    <3>2. handler'[r] = "respond" => status'[r] = "none"
      BY <1>0, <2>1, <2>3
    <3>3. pc[g] \notin {"entry", "update", "insert"}
      BY <1>0, <2>1, <2>3
    <3> QED BY <2>1, <2>3, <3>1, <3>2, <3>3
  <2>4. CASE g = <<r, "down">>
    <3>1. flow'[g] = "off" /\ flow[g] = "off" /\ handler'[r] \in {"respond", "done"}
      BY <1>0, <2>1, <2>4
    <3>2. handler'[r] = "respond" => status'[r] = "none"
      BY <1>0, <2>1, <2>4
    <3>3. pc[g] \notin {"entry", "update", "insert"}
      BY <1>0, <3>1
    <3> QED BY <2>1, <2>4, <3>1, <3>2, <3>3
  <2>5. g[1] = r => g = <<r, "up">> \/ g = <<r, "down">>
    BY <1>0 DEF Dir
  <2> QED BY <2>2, <2>3, <2>4, <2>5
<1>6. ASSUME NEW r \in Request, Respond(r) PROVE FlowInv(g)'
  BY <1>0, <1>6 DEF Respond, Answer, storeVars, Dir
<1>7. ASSUME NEW r \in Request, Finish(r) PROVE FlowInv(g)'
  BY <1>0, <1>7 DEF Finish, storeVars
<1>8. ASSUME NEW f \in Flow, StoreStep(f) PROVE FlowInv(g)'
  <2>1. UNCHANGED <<handler, status, flow>> /\ Store!Statement(f)
    BY <1>8 DEF StoreStep
  <2>2. /\ pc[f] \in {"entry", "update", "insert"} /\ UNCHANGED <<who, bytes>>
        /\ \A h \in Flow \ {f} : pc'[h] = pc[h]
        /\ pc'[f] # "idle"
    <3>1. /\ pc[f] \in {"entry", "update", "insert"} /\ UNCHANGED <<who, bytes>>
          /\ \E v \in {"update", "insert", "allowed", "denied", "failed"} :
                pc' = [pc EXCEPT ![f] = v]
      BY <2>1, StatementEffect
    <3>2. pc \in [Flow -> Store!CallState]
      BY DEF Store!TypeOK
    <3> QED BY <3>1, <3>2
  <2> QED BY <2>1, <2>2
<1>9. ASSUME NEW f \in Flow, Charged(f) PROVE FlowInv(g)'
  BY <1>0, <1>9 DEF Charged, storeVars
<1>10. ASSUME NEW f \in Flow, ClaimNotice(f) \/ SendNotice(f) PROVE FlowInv(g)'
  BY <1>0, <1>10 DEF ClaimNotice, SendNotice, storeVars
<1>11. ASSUME NEW f \in Flow, ReadChunk(f) PROVE FlowInv(g)'
  <2>1. /\ flow[f] = "read" /\ handler[f[1]] = "copy" /\ UNCHANGED <<handler, status>>
        /\ Charge(f, ChunkSize)
    BY <1>0, <1>11 DEF ReadChunk
  <2>2. ChunkSize \in Nat
    OBVIOUS
  <2>3. CASE g = f
    <3>1. pc[g] \notin {"entry", "update", "insert"}
      BY <2>1, <2>3
    <3>2. \/ /\ pc'[g] = "entry" /\ who'[g] = UserOf(g) /\ bytes'[g] = ChunkSize
             /\ Counted(UserOf(g)) /\ ChunkSize > 0 /\ flow'[g] = "charging"
          \/ UNCHANGED <<pc[g], who[g], bytes[g]>> /\ flow'[g] = "granted"
      BY <2>1, <2>2, <2>3, ChargeCalls
    <3> QED BY <2>1, <2>3, <3>1, <3>2
  <2>4. CASE g # f
    <3>1. flow'[g] = flow[g] /\ pc'[g] = pc[g] /\ who'[g] = who[g] /\ bytes'[g] = bytes[g]
      BY <2>1, <2>2, <2>4, ChargeCalls
    <3> QED BY <2>1, <3>1
  <2> QED BY <2>3, <2>4
<1>12. ASSUME NEW f \in Flow, WriteChunk(f) \/ EndCopy(f) PROVE FlowInv(g)'
  BY <1>0, <1>12 DEF WriteChunk, EndCopy, storeVars
<1> QED BY <1>1, <1>2, <1>3, <1>4, <1>5, <1>6, <1>7, <1>8, <1>9, <1>10, <1>11, <1>12
        DEF Next, FlowStep, Midnight, Store!Midnight, Store!args, MinutePasses, vars, storeVars

-----------------------------------------------------------------------------
(* The balance of a user.                                                   *)

\* On account of every day, what was forwarded for a user and what is still owed
\* is covered by what was charged, what was let pass and the heads.
Balance ==
    \A u \in User, d \in Store!Day :
        /\ IsFiniteSet(HeadBytes(u)) /\ IsFiniteSet(OwedBytes(u, d))
        /\ forwarded[u][d] + Cardinality(OwedBytes(u, d))
               <= Store!Used(u, d) + free[u][d] + Heads(u)

\* The terms of the balance are numbers.
LEMMA BalanceTypes ==
    ASSUME OwnTypes, Store!TypeOK, Balance, NEW u \in User, NEW d \in Store!Day
    PROVE  /\ Cardinality(OwedBytes(u, d)) \in Nat /\ Store!Used(u, d) \in Nat
           /\ forwarded[u][d] \in Nat /\ free[u][d] \in Nat /\ Heads(u) \in Nat
BY UsedType, FS_CardinalityType DEF Balance, OwnTypes, Heads

\* A step that moves no bytes keeps the balance.
LEMMA BalanceKept ==
    ASSUME Balance, HeadsKept, \A f \in Flow : Kept(f), UNCHANGED <<rows, forwarded, free>>
    PROVE  Balance'
<1> SUFFICES ASSUME NEW u \in User, NEW d \in Store!Day
             PROVE  /\ IsFiniteSet(HeadBytes(u)') /\ IsFiniteSet(OwedBytes(u, d)')
                    /\ forwarded'[u][d] + Cardinality(OwedBytes(u, d)')
                           <= Store!Used(u, d)' + free'[u][d] + Heads(u)'
  BY DEF Balance
<1>0. /\ IsFiniteSet(HeadBytes(u)) /\ IsFiniteSet(OwedBytes(u, d))
      /\ forwarded[u][d] + Cardinality(OwedBytes(u, d))
             <= Store!Used(u, d) + free[u][d] + Heads(u)
  BY DEF Balance
<1>1. /\ OwedBytes(u, d)' = OwedBytes(u, d) /\ HeadBytes(u)' = HeadBytes(u)
      /\ Heads(u)' = Heads(u)
  BY OwedKept, HeadsSame
<1>2. Store!Used(u, d)' = Store!Used(u, d)
  BY DEF Store!Used, Store!NoRow
<1> QED BY <1>0, <1>1, <1>2

\* Bytes that are let pass are entered as free.
LEMMA BalancePasses ==
    ASSUME OwnTypes, Store!TypeOK, Balance, HeadsKept, NEW f \in Flow, ~Owes(f), Owes(f)',
           \A g \in Flow \ {f} : Kept(g), UNCHANGED <<rows, today, forwarded>>,
           free' = [free EXCEPT ![UserOf(f)][today[f]] = @ + Amount(f)']
    PROVE  Balance'
<1> SUFFICES ASSUME NEW u \in User, NEW d \in Store!Day
             PROVE  /\ IsFiniteSet(HeadBytes(u)') /\ IsFiniteSet(OwedBytes(u, d)')
                    /\ forwarded'[u][d] + Cardinality(OwedBytes(u, d)')
                           <= Store!Used(u, d)' + free'[u][d] + Heads(u)'
  BY DEF Balance
<1>0. /\ IsFiniteSet(HeadBytes(u)) /\ IsFiniteSet(OwedBytes(u, d))
      /\ forwarded[u][d] + Cardinality(OwedBytes(u, d))
             <= Store!Used(u, d) + free[u][d] + Heads(u)
  BY DEF Balance
<1>1. /\ IsFiniteSet(OwedBytes(u, d)')
      /\ Cardinality(OwedBytes(u, d)') = Cardinality(OwedBytes(u, d)) +
             (IF u = UserOf(f) /\ d = today'[f] THEN Amount(f)' ELSE 0)
  BY <1>0, OwedAdds
<1>2. /\ Store!Used(u, d)' = Store!Used(u, d)
      /\ HeadBytes(u)' = HeadBytes(u) /\ Heads(u)' = Heads(u)
  BY HeadsSame DEF Store!Used, Store!NoRow
<1>3. free'[u][d] = free[u][d] + (IF u = UserOf(f) /\ d = today'[f] THEN Amount(f)' ELSE 0)
  <2> DEFINE n == Amount(f)'
  <2>1. UserOf(f) \in User /\ today[f] \in Store!Day /\ today' = today
    BY DEF UserOf, Flow, Store!TypeOK
  <2>2. n \in Nat /\ free' = [free EXCEPT ![UserOf(f)][today[f]] = @ + n]
    BY AmountType
  <2>3. free \in [User -> [Store!Day -> Nat]]
    BY DEF OwnTypes
  <2> HIDE DEF n
  <2>4. free'[u][d] = free[u][d] + (IF u = UserOf(f) /\ d = today[f] THEN n ELSE 0)
    BY <2>1, <2>2, <2>3, EnterBytes
  <2> QED BY <2>1, <2>4 DEF n
<1>4. (IF u = UserOf(f) /\ d = today'[f] THEN Amount(f)' ELSE 0) \in Nat
  BY AmountType
<1>5. UNCHANGED forwarded
  OBVIOUS
<1> QED BY <1>0, <1>1, <1>2, <1>3, <1>4, <1>5, BalanceTypes

\* Bytes that are charged are entered in the row of the call's user and day.
LEMMA BalanceCharges ==
    ASSUME OwnTypes, Store!TypeOK, Balance, HeadsKept, NEW f \in Flow, ~Owes(f), Owes(f)',
           \A g \in Flow \ {f} : Kept(g), UNCHANGED <<today, forwarded, free>>,
           rows' = [rows EXCEPT ![UserOf(f)][today[f]] =
                        Store!Used(UserOf(f), today[f]) + Amount(f)']
    PROVE  Balance'
<1> SUFFICES ASSUME NEW u \in User, NEW d \in Store!Day
             PROVE  /\ IsFiniteSet(HeadBytes(u)') /\ IsFiniteSet(OwedBytes(u, d)')
                    /\ forwarded'[u][d] + Cardinality(OwedBytes(u, d)')
                           <= Store!Used(u, d)' + free'[u][d] + Heads(u)'
  BY DEF Balance
<1>0. /\ IsFiniteSet(HeadBytes(u)) /\ IsFiniteSet(OwedBytes(u, d))
      /\ forwarded[u][d] + Cardinality(OwedBytes(u, d))
             <= Store!Used(u, d) + free[u][d] + Heads(u)
  BY DEF Balance
<1>1. /\ IsFiniteSet(OwedBytes(u, d)')
      /\ Cardinality(OwedBytes(u, d)') = Cardinality(OwedBytes(u, d)) +
             (IF u = UserOf(f) /\ d = today'[f] THEN Amount(f)' ELSE 0)
  BY <1>0, OwedAdds
<1>2. HeadBytes(u)' = HeadBytes(u) /\ Heads(u)' = Heads(u)
  BY HeadsSame
<1>3. Store!Used(u, d)' =
          Store!Used(u, d) + (IF u = UserOf(f) /\ d = today'[f] THEN Amount(f)' ELSE 0)
  <2> DEFINE n == Amount(f)'
  <2>1. UserOf(f) \in User /\ today[f] \in Store!Day /\ today' = today
    BY DEF UserOf, Flow, Store!TypeOK
  <2>2. /\ n \in Nat
        /\ rows' = [rows EXCEPT ![UserOf(f)][today[f]] =
                        Store!Used(UserOf(f), today[f]) + n]
    BY AmountType
  <2> HIDE DEF n
  <2>3. \A v \in User, e \in Store!Day : Store!Used(v, e)' =
            Store!Used(v, e) + (IF v = UserOf(f) /\ e = today[f] THEN n ELSE 0)
    <3>1. PICK day \in Store!Day : day = today[f]
      BY <2>1
    <3>2. PICK size \in Nat : size = n
      BY <2>2
    <3>3. PICK owner \in User : owner = UserOf(f)
      BY <2>1
    <3>4. Enters(owner, day, size)
      BY <2>2, <3>1, <3>2, <3>3 DEF Enters
    <3>5. \A v \in User, e \in Store!Day : Store!Used(v, e)' =
              Store!Used(v, e) + (IF v = owner /\ e = day THEN size ELSE 0)
      BY <3>4, UsedAdds
    <3> QED BY <3>1, <3>2, <3>3, <3>5
  <2>4. Store!Used(u, d)' =
            Store!Used(u, d) + (IF u = UserOf(f) /\ d = today[f] THEN n ELSE 0)
    BY <2>3
  <2> QED BY <2>1, <2>4 DEF n
<1>4. (IF u = UserOf(f) /\ d = today'[f] THEN Amount(f)' ELSE 0) \in Nat
  BY AmountType
<1>5. UNCHANGED <<forwarded, free>>
  OBVIOUS
<1> QED BY <1>0, <1>1, <1>2, <1>3, <1>4, <1>5, BalanceTypes

\* Bytes are forwarded, or dropped, once they are owed.
LEMMA BalanceForwards ==
    ASSUME OwnTypes, Store!TypeOK, Balance, HeadsKept, NEW f \in Flow, Owes(f), ~Owes(f)',
           \A g \in Flow \ {f} : Kept(g), UNCHANGED <<rows, free>>,
           \/ UNCHANGED forwarded
           \/ forwarded' = [forwarded EXCEPT ![UserOf(f)][today[f]] = @ + Amount(f)]
    PROVE  Balance'
<1> SUFFICES ASSUME NEW u \in User, NEW d \in Store!Day
             PROVE  /\ IsFiniteSet(HeadBytes(u)') /\ IsFiniteSet(OwedBytes(u, d)')
                    /\ forwarded'[u][d] + Cardinality(OwedBytes(u, d)')
                           <= Store!Used(u, d)' + free'[u][d] + Heads(u)'
  BY DEF Balance
<1>0. /\ IsFiniteSet(HeadBytes(u)) /\ IsFiniteSet(OwedBytes(u, d))
      /\ forwarded[u][d] + Cardinality(OwedBytes(u, d))
             <= Store!Used(u, d) + free[u][d] + Heads(u)
  BY DEF Balance
<1>1. /\ IsFiniteSet(OwedBytes(u, d)')
      /\ Cardinality(OwedBytes(u, d)) = Cardinality(OwedBytes(u, d)') +
             (IF u = UserOf(f) /\ d = today[f] THEN Amount(f) ELSE 0)
  BY <1>0, OwedDrops
<1>2. /\ Store!Used(u, d)' = Store!Used(u, d)
      /\ HeadBytes(u)' = HeadBytes(u) /\ Heads(u)' = Heads(u)
  BY HeadsSame DEF Store!Used, Store!NoRow
<1>3. /\ (IF u = UserOf(f) /\ d = today[f] THEN Amount(f) ELSE 0) \in Nat
      /\ Cardinality(OwedBytes(u, d)') \in Nat
  BY <1>1, AmountType, FS_CardinalityType
<1>4. /\ forwarded'[u][d] \in Nat
      /\ forwarded'[u][d] <= forwarded[u][d] +
             (IF u = UserOf(f) /\ d = today[f] THEN Amount(f) ELSE 0)
  <2>1. UserOf(f) \in User /\ today[f] \in Store!Day /\ Amount(f) \in Nat
    BY AmountType DEF UserOf, Flow, Store!TypeOK
  <2>2. forwarded \in [User -> [Store!Day -> Nat]]
    BY DEF OwnTypes
  <2>3. CASE UNCHANGED forwarded
    BY <1>3, <2>2, <2>3
  <2>4. CASE forwarded' = [forwarded EXCEPT ![UserOf(f)][today[f]] = @ + Amount(f)]
    <3>1. /\ forwarded' \in [User -> [Store!Day -> Nat]]
          /\ forwarded'[u][d] = forwarded[u][d] +
                 (IF u = UserOf(f) /\ d = today[f] THEN Amount(f) ELSE 0)
      BY <2>1, <2>2, <2>4, EnterBytes
    <3> QED BY <3>1
  <2> QED BY <2>3, <2>4
<1>5. UNCHANGED free
  OBVIOUS
<1> QED BY <1>0, <1>1, <1>2, <1>3, <1>4, <1>5, BalanceTypes

\* The head of a plain response passes on top of everything else.
LEMMA BalanceHead ==
    ASSUME OwnTypes, Store!TypeOK, Balance, NEW r \in Request \ Upgrade,
           status[r] # "proxied", status' = [status EXCEPT ![r] = "proxied"],
           \A f \in Flow : Kept(f), UNCHANGED <<rows, free>>,
           forwarded' = [forwarded EXCEPT ![RequestUser[r]][clock] = @ + HeaderSize]
    PROVE  Balance'
<1> SUFFICES ASSUME NEW u \in User, NEW d \in Store!Day
             PROVE  /\ IsFiniteSet(HeadBytes(u)') /\ IsFiniteSet(OwedBytes(u, d)')
                    /\ forwarded'[u][d] + Cardinality(OwedBytes(u, d)')
                           <= Store!Used(u, d)' + free'[u][d] + Heads(u)'
  BY DEF Balance
<1>0. /\ IsFiniteSet(HeadBytes(u)) /\ IsFiniteSet(OwedBytes(u, d))
      /\ forwarded[u][d] + Cardinality(OwedBytes(u, d))
             <= Store!Used(u, d) + free[u][d] + Heads(u)
  BY DEF Balance
<1>1. OwedBytes(u, d)' = OwedBytes(u, d)
  BY OwedKept
<1>2. Store!Used(u, d)' = Store!Used(u, d)
  BY DEF Store!Used, Store!NoRow
<1>3. /\ IsFiniteSet(HeadBytes(u)')
      /\ Heads(u)' = Heads(u) + (IF u = RequestUser[r] THEN HeaderSize ELSE 0)
  BY <1>0, HeadsAdd
<1>4. forwarded'[u][d] =
          forwarded[u][d] + (IF u = RequestUser[r] /\ d = clock THEN HeaderSize ELSE 0)
  <2>1. RequestUser[r] \in User /\ clock \in Store!Day /\ HeaderSize \in Nat
    BY DEF Store!TypeOK
  <2>2. forwarded \in [User -> [Store!Day -> Nat]]
    BY DEF OwnTypes
  <2> QED BY <2>1, <2>2, EnterBytes
<1>5. UNCHANGED free /\ HeaderSize \in Nat
  OBVIOUS
<1> QED BY <1>0, <1>1, <1>2, <1>3, <1>4, <1>5, BalanceTypes

\* A charge makes no flow owe anything yet, or lets its bytes pass.
LEMMA BalanceCharge ==
    ASSUME OwnTypes, Store!TypeOK, Balance, HeadsKept, NEW f \in Flow, NEW n \in Nat,
           Charge(f, n), ~Owes(f), Amount(f)' = n, UNCHANGED forwarded,
           \A g \in Flow \ {f} : Owes(g) => Amount(g)' = Amount(g)
    PROVE  Balance'
<1>1. \A g \in Flow \ {f} : Kept(g)
  BY ChargeEffect DEF Kept, Owes, OwnTypes, Store!TypeOK
<1>2. CASE /\ pc' = [pc EXCEPT ![f] = "entry"] /\ UNCHANGED free
           /\ flow' = [flow EXCEPT ![f] = "charging"]
  <2>1. Kept(f)
    BY <1>2 DEF Kept, Owes, OwnTypes, Store!TypeOK
  <2> QED BY <1>1, <1>2, <2>1, BalanceKept, ChargeEffect
<1>3. CASE /\ flow' = [flow EXCEPT ![f] = "granted"] /\ UNCHANGED today
           /\ free' = [free EXCEPT ![UserOf(f)][today[f]] = @ + n]
  <2>1. Owes(f)'
    BY <1>3 DEF Owes, OwnTypes
  <2> QED BY <1>1, <1>3, <2>1, BalancePasses, ChargeEffect
<1> QED BY <1>2, <1>3, ChargeEffect

\* A step keeps every user's balance.
LEMMA BalanceStep ==
    ASSUME OwnTypes, Store!TypeOK, \A f \in Flow : FlowInv(f), Balance, [Next]_vars
    PROVE  Balance'
<1>0. /\ \A g \in Flow : g = <<g[1], g[2]>> /\ g[1] \in Request /\ g[2] \in Dir
      /\ \A r \in Request, d \in Dir : <<r, d>> \in Flow
  BY DEF Flow
<1>1. CASE UNCHANGED <<handler, status, flow, pc, today, rows, forwarded, free>>
  BY <1>1, BalanceKept DEF Kept, Owes, Amount, HeadsKept
<1>2. ASSUME NEW r \in Request, Reject(r) \/ OverQuota(r) \/ Finish(r)
      PROVE  Balance'
  <2>1. ASSUME NEW g \in Flow PROVE Kept(g)
    <3>1. CASE Reject(r)
      BY <1>0, <3>1 DEF Reject, Answer, storeVars, Kept, Owes, Amount, OwnTypes, FlowInv
    <3>2. CASE OverQuota(r)
      <4>1. g # <<r, "up">> => flow'[g] = flow[g]
        BY <3>2 DEF OverQuota, OwnTypes
      <4>2. g[1] = r => ~Owes(g) /\ ~Owes(g)'
        <5>1. g[1] = r /\ g # <<r, "up">> => flow[g] = "off"
          BY <1>0, <3>2 DEF OverQuota, FlowInv, Dir
        <5>2. flow[<<r, "up">>] = "refused" /\ flow'[<<r, "up">>] = "ended"
          BY <1>0, <3>2 DEF OverQuota, OwnTypes, Dir
        <5> QED BY <4>1, <5>1, <5>2 DEF Owes
      <4>3. g[1] # r => UNCHANGED <<handler[g[1]], flow[g], pc[g], today[g]>>
        BY <1>0, <3>2, <4>1 DEF OverQuota, Answer, storeVars, OwnTypes
      <4> QED BY <4>2, <4>3 DEF Kept, Owes, Amount
    <3>3. CASE Finish(r)
      BY <1>0, <3>3 DEF Finish, storeVars, Kept, Owes, Amount, OwnTypes, FlowInv
    <3> QED BY <1>2, <3>1, <3>2, <3>3
  <2>2. UNCHANGED <<rows, forwarded, free>>
    BY <1>2 DEF Reject, OverQuota, Finish, storeVars, books
  <2>3. HeadsKept
    <3>1. <<r, "up">> \in Flow
      BY <1>0 DEF Dir
    <3>2. CASE Reject(r) \/ OverQuota(r)
      BY <3>1, <3>2 DEF Reject, OverQuota, Answer, HeadsKept, OwnTypes, FlowInv
    <3>3. CASE Finish(r)
      BY <3>3 DEF Finish, HeadsKept
    <3> QED BY <1>2, <3>2, <3>3
  <2> QED BY <2>1, <2>2, <2>3, BalanceKept
<1>11. ASSUME NEW r \in Request, Respond(r) PROVE Balance'
  <2>1. ASSUME NEW g \in Flow PROVE Kept(g)
    BY <1>0, <1>11 DEF Respond, Answer, storeVars, Kept, Owes, Amount, OwnTypes, FlowInv
  <2>2. /\ UNCHANGED <<rows, free>> /\ handler[r] = "respond" /\ <<r, "up">> \in Flow
        /\ forwarded \in [User -> [Store!Day -> Nat]]
    BY <1>0, <1>11 DEF Respond, storeVars, Dir, OwnTypes
  <2>3. status[r] = "none"
    BY <2>2 DEF FlowInv
  <2>4. CASE UNCHANGED forwarded /\ status' = [status EXCEPT ![r] = "502"]
    <3>1. HeadsKept
      BY <2>3, <2>4 DEF HeadsKept, OwnTypes
    <3> QED BY <2>1, <2>2, <2>4, <3>1, BalanceKept
  <2>5. CASE /\ status' = [status EXCEPT ![r] = "proxied"] /\ r \in Upgrade
             /\ forwarded' = [forwarded EXCEPT ![RequestUser[r]][clock] = @]
    <3>1. UNCHANGED forwarded
      BY <2>2, <2>5
    <3>2. \A u \in User : HeadBytes(u)' = HeadBytes(u) /\ Heads(u)' = Heads(u)
      <4> SUFFICES ASSUME NEW u \in User PROVE HeadBytes(u)' = HeadBytes(u)
        BY DEF Heads
      <4>1. {q \in Request \ Upgrade : RequestUser[q] = u /\ status'[q] = "proxied"} =
                {q \in Request \ Upgrade : RequestUser[q] = u /\ status[q] = "proxied"}
        BY <2>5 DEF OwnTypes
      <4> QED BY <4>1 DEF HeadBytes
    <3>3. \A u \in User, d \in Store!Day : /\ OwedBytes(u, d)' = OwedBytes(u, d)
                                         /\ Store!Used(u, d)' = Store!Used(u, d)
      BY <2>1, <2>2, OwedKept DEF Store!Used, Store!NoRow
    <3>4. UNCHANGED Store!Day
      BY DEF Store!Day
    <3> QED BY <2>2, <3>1, <3>2, <3>3, <3>4 DEF Balance
  <2>6. CASE /\ status' = [status EXCEPT ![r] = "proxied"] /\ r \notin Upgrade
             /\ forwarded' = [forwarded EXCEPT ![RequestUser[r]][clock] = @ + HeaderSize]
    BY <2>1, <2>2, <2>3, <2>6, BalanceHead
  <2> QED BY <1>11, <2>4, <2>5, <2>6 DEF Respond, Answer
<1>3. ASSUME NEW r \in Request, Reserve(r) PROVE Balance'
  <2> DEFINE f == <<r, "up">>
  <2>1. f \in Flow /\ RequestSize \in Nat
    BY <1>0 DEF Dir
  <2>2. /\ Charge(f, RequestSize) /\ handler[r] = "start" /\ UNCHANGED forwarded
        /\ handler' = [handler EXCEPT ![r] = "reserve"]
    BY <1>3 DEF Reserve
  <2>5. HeadsKept
    BY <1>3 DEF Reserve, HeadsKept
  <2>3. ~Owes(f) /\ Amount(f)' = RequestSize
    BY <2>1, <2>2 DEF Owes, Amount, FlowInv, OwnTypes
  <2>4. \A g \in Flow \ {f} : Owes(g) => Amount(g)' = Amount(g)
    BY <1>0, <2>2 DEF Owes, Amount, FlowInv, OwnTypes
  <2> HIDE DEF f
  <2> QED BY <2>1, <2>2, <2>3, <2>4, <2>5, BalanceCharge
<1>4. ASSUME NEW r \in Request, Open(r) PROVE Balance'
  <2> DEFINE f == <<r, "up">>
  <2>1. f \in Flow /\ f[1] = r /\ UserOf(f) = RequestUser[r]
    BY <1>0 DEF Dir, UserOf
  <2>2. Owes(f) /\ ~Owes(f)' /\ Amount(f) = RequestSize
    BY <1>4, <2>1 DEF Open, Owes, Amount, OwnTypes
  <2>3. \A g \in Flow \ {f} : Kept(g)
    BY <1>0, <1>4 DEF Open, Answer, storeVars, Kept, Owes, Amount, FlowInv, OwnTypes, Dir
  <2>4. /\ UNCHANGED <<rows, free>>
        /\ \/ UNCHANGED forwarded
           \/ forwarded' = [forwarded EXCEPT ![RequestUser[r]][today[f]] = @ + RequestSize]
    BY <1>4 DEF Open, storeVars
  <2>5. HeadsKept
    BY <1>4, <2>1 DEF Open, Answer, HeadsKept, OwnTypes, FlowInv
  <2> HIDE DEF f
  <2> QED BY <2>1, <2>2, <2>3, <2>4, <2>5, BalanceForwards
<1>5. ASSUME NEW f \in Flow, StoreStep(f) PROVE Balance'
  <2>1. /\ UNCHANGED <<handler, flow, forwarded, free>> /\ Store!Statement(f) /\ HeadsKept
        /\ UNCHANGED today
    BY <1>5, StatementEffect DEF StoreStep, books, HeadsKept
  <2>2. /\ flow[f] = "charging" /\ who[f] = UserOf(f) /\ bytes[f] = Amount(f)
        /\ bytes[f] > 0 /\ DailyLimit > 0 /\ ~Owes(f)
    BY <2>1, StatementEffect DEF FlowInv, Counted, Owes, Store!TypeOK
  <2>3. \A g \in Flow \ {f} : Kept(g)
    <3>1. \A g \in Flow \ {f} : pc'[g] = pc[g]
      BY <2>1, StatementEffect DEF Store!TypeOK
    <3> QED BY <2>1, <3>1 DEF Kept, Owes, Amount
  <2>4. CASE UNCHANGED rows /\ pc'[f] # "allowed"
    <3>1. Kept(f)
      BY <2>1, <2>2, <2>4 DEF Kept, Owes, Amount
    <3> QED BY <2>1, <2>3, <2>4, <3>1, BalanceKept
  <2>5. CASE /\ pc'[f] = "allowed"
             /\ rows' = [rows EXCEPT ![who[f]][today[f]] =
                             Store!Used(who[f], today[f]) + bytes[f]]
    <3>1. Owes(f)' /\ Amount(f)' = Amount(f)
      BY <2>1, <2>2, <2>5 DEF Owes, Amount
    <3>2. rows' = [rows EXCEPT ![UserOf(f)][today[f]] =
                       Store!Used(UserOf(f), today[f]) + Amount(f)']
      BY <2>2, <2>5, <3>1
    <3> QED BY <2>1, <2>2, <2>3, <3>1, <3>2, BalanceCharges
  <2>6. \/ /\ UNCHANGED rows
           /\ pc'[f] # "allowed" \/ DailyLimit = 0 \/ bytes[f] = 0
        \/ /\ pc'[f] = "allowed"
           /\ rows' = [rows EXCEPT ![who[f]][today[f]] =
                           Store!Used(who[f], today[f]) + bytes[f]]
    BY <2>1, StatementEffect
  <2> QED BY <2>2, <2>4, <2>5, <2>6
<1>6. ASSUME NEW f \in Flow, Charged(f) PROVE Balance'
  <2>1. /\ flow[f] = "charging" /\ pc[f] \in {"allowed", "denied", "failed"}
        /\ UNCHANGED <<handler, pc, today, rows, forwarded>> /\ HeadsKept
        /\ flow' = [flow EXCEPT ![f] = IF pc[f] = "denied" THEN "notify" ELSE "granted"]
        /\ free' = [free EXCEPT ![UserOf(f)][today[f]] =
                        IF pc[f] = "failed" THEN @ + bytes[f] ELSE @]
    BY <1>6 DEF Charged, storeVars, HeadsKept
  <2>2. \A g \in Flow \ {f} : Kept(g)
    BY <2>1 DEF Kept, Owes, Amount, OwnTypes
  <2>3. CASE pc[f] = "failed"
    <3>1. ~Owes(f) /\ Owes(f)' /\ Amount(f)' = bytes[f]
      BY <2>1, <2>3 DEF Owes, Amount, OwnTypes, FlowInv
    <3> QED BY <2>1, <2>2, <2>3, <3>1, BalancePasses
  <2>4. CASE pc[f] # "failed"
    <3>1. Kept(f)
      BY <2>1, <2>4 DEF Kept, Owes, Amount, OwnTypes
    <3>2. UNCHANGED free
      BY <2>1, <2>4 DEF OwnTypes
    <3> QED BY <2>1, <2>2, <3>1, <3>2, BalanceKept
  <2> QED BY <2>3, <2>4
<1>7. ASSUME NEW f \in Flow, ClaimNotice(f) \/ SendNotice(f) PROVE Balance'
  <2>1. \A g \in Flow : Kept(g)
    BY <1>7 DEF ClaimNotice, SendNotice, storeVars, Kept, Owes, Amount, OwnTypes
  <2>2. UNCHANGED <<rows, forwarded, free>> /\ HeadsKept
    BY <1>7 DEF ClaimNotice, SendNotice, storeVars, books, HeadsKept
  <2> QED BY <2>1, <2>2, BalanceKept
<1>8. ASSUME NEW f \in Flow, ReadChunk(f) PROVE Balance'
  <2>1. /\ flow[f] = "read" /\ UNCHANGED <<handler, forwarded>> /\ HeadsKept
        /\ Charge(f, ChunkSize) /\ ChunkSize \in Nat
    BY <1>8 DEF ReadChunk, HeadsKept
  <2>2. ~Owes(f) /\ Amount(f)' = ChunkSize
    BY <1>0, <2>1 DEF Owes, Amount, FlowInv, OwnTypes
  <2>3. \A g \in Flow \ {f} : Owes(g) => Amount(g)' = Amount(g)
    BY <2>1 DEF Amount
  <2> QED BY <2>1, <2>2, <2>3, BalanceCharge
<1>9. ASSUME NEW f \in Flow, WriteChunk(f) PROVE Balance'
  <2>1. Owes(f) /\ ~Owes(f)' /\ Amount(f) = ChunkSize
    BY <1>9 DEF WriteChunk, Owes, Amount, OwnTypes
  <2>2. \A g \in Flow \ {f} : Kept(g)
    BY <1>9 DEF WriteChunk, storeVars, Kept, Owes, Amount, OwnTypes
  <2>3. /\ UNCHANGED <<rows, free>> /\ HeadsKept
        /\ forwarded' = [forwarded EXCEPT ![UserOf(f)][today[f]] = @ + ChunkSize]
    BY <1>9 DEF WriteChunk, storeVars, HeadsKept
  <2> QED BY <2>1, <2>2, <2>3, BalanceForwards
<1>10. ASSUME NEW f \in Flow, EndCopy(f) PROVE Balance'
  <2>1. \A g \in Flow \ {f} : Kept(g)
    BY <1>10 DEF EndCopy, storeVars, Kept, Owes, Amount, OwnTypes
  <2>2. UNCHANGED <<rows, forwarded, free>> /\ ~Owes(f)' /\ HeadsKept
    BY <1>10 DEF EndCopy, storeVars, books, Owes, OwnTypes, HeadsKept
  <2>3. CASE Owes(f)
    BY <2>1, <2>2, <2>3, BalanceForwards
  <2>4. CASE ~Owes(f)
    <3>1. Kept(f)
      BY <2>2, <2>4 DEF Kept
    <3> QED BY <2>1, <2>2, <3>1, BalanceKept
  <2> QED BY <2>3, <2>4
<1> QED BY <1>1, <1>2, <1>3, <1>4, <1>5, <1>6, <1>7, <1>8, <1>9, <1>10, <1>11
        DEF Next, FlowStep, Midnight, Store!Midnight, Store!args, MinutePasses, vars, storeVars,
            books

\* In every reachable state flows and requests fit together and every user's
\* balance holds.
THEOREM BalanceHolds == Spec => []((\A f \in Flow : FlowInv(f)) /\ Balance)
<1>1. Init => (\A f \in Flow : FlowInv(f)) /\ Balance
  <2> SUFFICES ASSUME Init PROVE (\A f \in Flow : FlowInv(f)) /\ Balance
    OBVIOUS
  <2>1. \A f \in Flow : FlowInv(f)
    BY DEF Init, Store!Init, FlowInv, Flow
  <2>2. \A u \in User, d \in Store!Day : OwedBytes(u, d) = {} /\ HeadBytes(u) = {}
    BY DEF Init, OwedBytes, Owes, HeadBytes
  <2>3. Store!TypeOK
    <3>1. \A f \in Flow : UserOf(f) \in User
      BY DEF UserOf, Flow
    <3>2. who \in [Flow -> User]
      BY <3>1 DEF Init
    <3>3. clock \in Store!Day /\ rows \in [User -> [Store!Day -> Nat \union {Store!NoRow}]]
      BY DEF Init, Store!Init, Store!Day, Store!NoRow
    <3>4. /\ pc \in [Flow -> Store!CallState] /\ bytes \in [Flow -> Nat]
          /\ today \in [Flow -> Store!Day] /\ attempt \in [Flow -> 0..Store!MaxAttempts]
      BY DEF Init, Store!Init, Store!Day, Store!CallState, Store!MaxAttempts
    <3> QED BY <3>2, <3>3, <3>4 DEF Store!TypeOK
  <2>4. ASSUME NEW u \in User, NEW d \in Store!Day
        PROVE  /\ IsFiniteSet(HeadBytes(u)) /\ IsFiniteSet(OwedBytes(u, d))
               /\ forwarded[u][d] + Cardinality(OwedBytes(u, d))
                      <= Store!Used(u, d) + free[u][d] + Heads(u)
    <3>1. Store!Used(u, d) \in Nat
      BY <2>3, UsedType
    <3>2. /\ IsFiniteSet(OwedBytes(u, d)) /\ Cardinality(OwedBytes(u, d)) = 0
          /\ IsFiniteSet(HeadBytes(u)) /\ Heads(u) = 0
      BY <2>2, FS_EmptySet DEF Heads
    <3>3. forwarded[u][d] = 0 /\ free[u][d] = 0
      BY DEF Init
    <3> QED BY <3>1, <3>2, <3>3
  <2> QED BY <2>1, <2>4 DEF Balance
<1>2. TypeOK => OwnTypes /\ Store!TypeOK
  BY DEF TypeOK, OwnTypes
<1>3. TypeOK /\ (\A f \in Flow : FlowInv(f)) /\ Balance /\ [Next]_vars
          => ((\A f \in Flow : FlowInv(f)) /\ Balance)'
  BY <1>2, FlowInvStep, BalanceStep
<1> QED BY <1>1, <1>3, IngressTyped, PTL DEF Spec

\* On account of any day, nothing is forwarded for a user that was neither
\* charged nor let pass, except the heads of plain responses.
THEOREM NothingUnpaidHolds == Spec => []NothingUnpaid
<1>1. TypeOK /\ Balance => NothingUnpaid
  <2> SUFFICES ASSUME TypeOK, Balance, NEW u \in User, NEW d \in Store!Day
               PROVE  forwarded[u][d] <= Store!Used(u, d) + free[u][d] + Heads(u)
    BY DEF NothingUnpaid
  <2>1. OwnTypes /\ Store!TypeOK
    BY DEF TypeOK, OwnTypes
  <2>2. forwarded[u][d] + Cardinality(OwedBytes(u, d))
            <= Store!Used(u, d) + free[u][d] + Heads(u)
    BY DEF Balance
  <2> QED BY <2>1, <2>2, BalanceTypes
<1> QED BY <1>1, BalanceHolds, IngressTyped, PTL

\* The quota holds end to end and day by day: on account of one day a counted
\* user never moves more than the daily limit, plus what a failing database let
\* through and the heads of plain responses.
THEOREM TrafficWithinQuotaHolds == Spec => []TrafficWithinQuota
<1>1. TypeOK /\ Balance /\ NothingUnpaid /\ Counter!UsedWithinLimit => TrafficWithinQuota
  <2> SUFFICES ASSUME TypeOK, Balance, NothingUnpaid, Counter!UsedWithinLimit,
                      NEW u \in User, NEW d \in Store!Day, Counted(u)
               PROVE  forwarded[u][d] <= DailyLimit + free[u][d] + Heads(u)
    BY DEF TrafficWithinQuota
  <2>1. OwnTypes /\ Store!TypeOK /\ DailyLimit > 0 /\ DailyLimit \in Nat
    BY DEF TypeOK, OwnTypes, Counted
  <2>2. Store!Used(u, d) <= DailyLimit
    BY <2>1 DEF Counter!UsedWithinLimit, Counter!Used, Counter!Day, Counter!NoRow,
                Store!Used, Store!Day, Store!NoRow
  <2>3. forwarded[u][d] <= Store!Used(u, d) + free[u][d] + Heads(u)
    BY DEF NothingUnpaid
  <2> QED BY <2>1, <2>2, <2>3, BalanceTypes
<1> QED BY <1>1, CounterWithinLimit, NothingUnpaidHolds, BalanceHolds, IngressTyped, PTL

=============================================================================
