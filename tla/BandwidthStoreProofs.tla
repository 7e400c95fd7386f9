------------------------ MODULE BandwidthStoreProofs ------------------------
(***************************************************************************)
(* Machine-checked facts about the bandwidth counter, for any number of     *)
(* concurrent callers, any sizes, any limit and any number of days.         *)
(***************************************************************************)
EXTENDS BandwidthStore, TLAPS

\* A call starts with no attempt made.  At a statement it counts at least one byte and no more than the
\* limit; once it has been retried the row of its day exists; and once it has
\* been retried and stands at the INSERT again, its bytes do not fit.
CallInv(c) ==
    /\ pc[c] = "entry" => attempt[c] = 0
    /\ pc[c] \in {"update", "insert"} =>
          /\ DailyLimit > 0 /\ bytes[c] > 0 /\ bytes[c] <= DailyLimit
          /\ attempt[c] < MaxAttempts
          /\ attempt[c] > 0 => rows[who[c]][today[c]] # NoRow
    /\ pc[c] = "insert" /\ attempt[c] > 0 =>
          rows[who[c]][today[c]] + bytes[c] > DailyLimit

Inv == TypeOK /\ UsedWithinLimit /\ \A c \in Caller : CallInv(c)

USE SizeAssumption, LimitAssumption, DayAssumption, FaultAssumption
USE DEF Day, NoRow, MaxAttempts, Outcome, CallState, storeVars, args

-----------------------------------------------------------------------------

\* What replacing the row of user u and day d by v does to the table.
LEMMA PutRow ==
    ASSUME rows \in [User -> [Day -> Nat \union {NoRow}]],
           NEW u \in User, NEW d \in Day, NEW v \in Nat,
           rows' = [rows EXCEPT ![u][d] = v]
    PROVE  /\ rows' \in [User -> [Day -> Nat \union {NoRow}]]
           /\ \A x \in User, y \in Day :
                 rows'[x][y] = IF x = u /\ y = d THEN v ELSE rows[x][y]
<1>1. rows' = [rows EXCEPT ![u] = [rows[u] EXCEPT ![d] = v]]
  OBVIOUS
<1>2. [rows[u] EXCEPT ![d] = v] \in [Day -> Nat \union {NoRow}]
  OBVIOUS
<1>3. \A x \in User, y \in Day :
          rows'[x][y] = IF x = u /\ y = d THEN v ELSE rows[x][y]
  BY <1>1
<1>4. rows' \in [User -> [Day -> Nat \union {NoRow}]]
  BY <1>1, <1>2
<1> QED BY <1>3, <1>4

\* A statement leaves the table alone or raises one row within the limit.
LEMMA RowStep ==
    ASSUME Inv, NEW c \in Caller, Statement(c)
    PROVE  \/ UNCHANGED rows
           \/ \E v \in Nat : /\ v >= rows[who[c]][today[c]]
                             /\ v <= DailyLimit
                             /\ rows' = [rows EXCEPT ![who[c]][today[c]] = v]
<1> USE DEF Inv, TypeOK
<1> DEFINE row == rows[who[c]][today[c]]
<1>0. row \in Nat \union {NoRow} /\ bytes[c] \in Nat
  OBVIOUS
<1>1. CASE Update(c) /\ row # NoRow /\ row + bytes[c] <= DailyLimit
           /\ rows' = [rows EXCEPT ![who[c]][today[c]] = row + bytes[c]]
  <2>1. row + bytes[c] \in Nat /\ row + bytes[c] >= row
    BY <1>0, <1>1
  <2> QED BY <1>1, <2>1
<1>2. CASE Insert(c) /\ row = NoRow
           /\ rows' = [rows EXCEPT ![who[c]][today[c]] = bytes[c]]
  <2>1. bytes[c] <= DailyLimit /\ bytes[c] >= row
    BY <1>0, <1>2 DEF Insert, CallInv
  <2> QED BY <1>0, <1>2, <2>1
<1>3. CASE UNCHANGED rows
  BY <1>3
<1> QED BY <1>1, <1>2, <1>3 DEF Statement, Entry, Update, Insert

\* A step keeps the table a table, never lets a row shrink, and keeps every
\* row within the limit.
LEMMA TableStep ==
    ASSUME Inv, [Next]_storeVars
    PROVE  /\ rows' \in [User -> [Day -> Nat \union {NoRow}]]
           /\ \A u \in User, d \in Day : rows'[u][d] >= rows[u][d]
           /\ UsedWithinLimit'
<1> USE DEF Inv, TypeOK
<1>1. CASE UNCHANGED rows
  <2>1. \A u \in User, d \in Day : rows[u][d] \in Nat \union {NoRow}
    OBVIOUS
  <2>2. \A u \in User, d \in Day : rows'[u][d] >= rows[u][d]
    BY <1>1, <2>1
  <2> QED BY <1>1, <2>2 DEF UsedWithinLimit, Used
<1>2. ASSUME NEW c \in Caller, NEW v \in Nat,
             v >= rows[who[c]][today[c]], v <= DailyLimit,
             rows' = [rows EXCEPT ![who[c]][today[c]] = v]
      PROVE  /\ rows' \in [User -> [Day -> Nat \union {NoRow}]]
             /\ \A u \in User, d \in Day : rows'[u][d] >= rows[u][d]
             /\ UsedWithinLimit'
  <2>1. who[c] \in User /\ today[c] \in Day
    OBVIOUS
  <2>2. /\ rows' \in [User -> [Day -> Nat \union {NoRow}]]
        /\ \A x \in User, y \in Day : rows'[x][y] =
              IF x = who[c] /\ y = today[c] THEN v ELSE rows[x][y]
    BY <1>2, <2>1, PutRow
  <2>3. \A x \in User, y \in Day : rows[x][y] \in Nat \union {NoRow}
    OBVIOUS
  <2>4. \A x \in User, y \in Day : rows'[x][y] >= rows[x][y]
    BY <1>2, <2>2, <2>3
  <2> QED BY <1>2, <2>2, <2>4 DEF UsedWithinLimit, Used
<1>3. ASSUME NEW c \in Caller, Statement(c)
      PROVE  /\ rows' \in [User -> [Day -> Nat \union {NoRow}]]
             /\ \A u \in User, d \in Day : rows'[u][d] >= rows[u][d]
             /\ UsedWithinLimit'
  BY <1>1, <1>2, <1>3, RowStep
<1> QED BY <1>1, <1>3 DEF Next, Midnight, Consume

\* A step keeps every variable in its domain.
LEMMA TypeStep == Inv /\ [Next]_storeVars => TypeOK'
<1> SUFFICES ASSUME Inv, [Next]_storeVars PROVE TypeOK'
  OBVIOUS
<1>0. rows' \in [User -> [Day -> Nat \union {NoRow}]]
  BY TableStep
<1> USE DEF Inv, TypeOK
<1>1. CASE Midnight
  BY <1>0, <1>1 DEF Midnight
<1>2. ASSUME NEW c \in Caller, NEW u \in User, NEW n \in Size, Consume(c, u, n)
      PROVE  TypeOK'
  BY <1>0, <1>2 DEF Consume
<1>3. ASSUME NEW c \in Caller, Entry(c) PROVE TypeOK'
  BY <1>0, <1>3 DEF Entry, Refusal
<1>4. ASSUME NEW c \in Caller, Update(c) PROVE TypeOK'
  BY <1>0, <1>4 DEF Update
<1>5. ASSUME NEW c \in Caller, Insert(c) PROVE TypeOK'
  <2>1. attempt' \in [Caller -> 0..MaxAttempts]
    BY <1>5 DEF Insert, CallInv
  <2>2. pc' \in [Caller -> CallState]
    BY <1>5 DEF Insert, Refusal
  <2> QED BY <1>0, <1>5, <2>1, <2>2 DEF Insert
<1>6. CASE UNCHANGED storeVars
  BY <1>6
<1> QED BY <1>1, <1>2, <1>3, <1>4, <1>5, <1>6 DEF Next, Statement

\* A step keeps what is known of every call.
LEMMA CallStep == Inv /\ [Next]_storeVars => \A k \in Caller : CallInv(k)'
<1> SUFFICES ASSUME Inv, [Next]_storeVars, NEW k \in Caller PROVE CallInv(k)'
  OBVIOUS
<1>1. /\ rows[who[k]][today[k]] \in Nat \union {NoRow}
      /\ rows'[who[k]][today[k]] \in Nat \union {NoRow}
      /\ rows'[who[k]][today[k]] >= rows[who[k]][today[k]]
  BY TableStep DEF Inv, TypeOK
<1> USE DEF Inv, TypeOK, CallInv
<1>2. CASE UNCHANGED <<pc, args, attempt>>
  BY <1>1, <1>2
<1>3. ASSUME NEW c \in Caller, NEW u \in User, NEW n \in Size, Consume(c, u, n)
      PROVE  CallInv(k)'
  BY <1>1, <1>3 DEF Consume
<1>4. ASSUME NEW c \in Caller, Entry(c) PROVE CallInv(k)'
  BY <1>1, <1>4 DEF Entry, Refusal
<1>5. ASSUME NEW c \in Caller, Update(c) PROVE CallInv(k)'
  <2>1. CASE c = k
    BY <1>1, <1>5, <2>1 DEF Update
  <2>2. CASE c # k
    <3>1. pc'[k] = pc[k] /\ UNCHANGED <<args, attempt>>
      BY <1>5, <2>2 DEF Update
    <3> QED BY <1>1, <3>1
  <2> QED BY <2>1, <2>2
<1>6. ASSUME NEW c \in Caller, Insert(c) PROVE CallInv(k)'
  <2>1. CASE c = k
    BY <1>1, <1>6, <2>1 DEF Insert, Refusal
  <2>2. CASE c # k
    BY <1>1, <1>6, <2>2 DEF Insert, Refusal
  <2> QED BY <2>1, <2>2
<1> QED BY <1>2, <1>3, <1>4, <1>5, <1>6 DEF Next, Midnight, Statement

\* The inductive invariant holds in every reachable state.
THEOREM Invariance == Spec => []Inv
<1>1. Init => Inv
  BY DEF Init, Inv, TypeOK, UsedWithinLimit, Used, CallInv
<1>2. Inv /\ [Next]_storeVars => Inv'
  BY TypeStep, TableStep, CallStep DEF Inv
<1> QED BY <1>1, <1>2, PTL DEF Spec

\* Type correctness: in particular a call makes at most three attempts.
THEOREM TypeCorrectness == Spec => []TypeOK
<1>1. Inv => TypeOK
  BY DEF Inv
<1> QED BY <1>1, Invariance, PTL

\* The daily limit is never exceeded, whatever statements fail or interleave.
THEOREM LimitHolds == Spec => []UsedWithinLimit
<1>1. Inv => UsedWithinLimit
  BY DEF Inv
<1> QED BY <1>1, Invariance, PTL

\* A call charges the day it was made on, which is never a day to come.
NoChargeAhead ==
    /\ \A c \in Caller : today[c] <= clock
    /\ \A u \in User, d \in Day : d > clock => rows[u][d] = NoRow

\* A step charges no day that has not come.
LEMMA AheadStep ==
    ASSUME Inv, NoChargeAhead, [Next]_storeVars
    PROVE  NoChargeAhead'
<1> USE DEF Inv, TypeOK
<1>1. CASE Midnight
  BY <1>1 DEF Midnight, NoChargeAhead
<1>2. ASSUME NEW c \in Caller, NEW u \in User, NEW n \in Size, Consume(c, u, n)
      PROVE  NoChargeAhead'
  BY <1>2 DEF Consume, NoChargeAhead
<1>3. ASSUME NEW c \in Caller, Statement(c) PROVE NoChargeAhead'
  <2>1. UNCHANGED <<clock, today>>
    BY <1>3 DEF Statement, Entry, Update, Insert
  <2>2. CASE UNCHANGED rows
    BY <2>1, <2>2 DEF NoChargeAhead
  <2>3. ASSUME NEW v \in Nat, rows' = [rows EXCEPT ![who[c]][today[c]] = v]
        PROVE  NoChargeAhead'
    <3>1. who[c] \in User /\ today[c] \in Day /\ today[c] <= clock
      BY DEF NoChargeAhead
    <3>2. \A u \in User, d \in Day : rows'[u][d] =
              IF u = who[c] /\ d = today[c] THEN v ELSE rows[u][d]
      BY <2>3, <3>1, PutRow
    <3>3. ASSUME NEW u \in User, NEW d \in Day, d > clock
          PROVE  rows'[u][d] = NoRow
      <4>1. d # today[c]
        BY <3>1, <3>3
      <4>2. rows[u][d] = NoRow
        BY <3>3 DEF NoChargeAhead
      <4> QED BY <3>2, <4>1, <4>2
    <3> QED BY <2>1, <3>3 DEF NoChargeAhead
  <2> QED BY <1>3, <2>2, <2>3, RowStep
<1>4. CASE UNCHANGED storeVars
  BY <1>4 DEF NoChargeAhead
<1> QED BY <1>1, <1>2, <1>3, <1>4 DEF Next

\* No day is charged before it has come, however long a call is delayed.
THEOREM NothingChargedAhead == Spec => []NoChargeAhead
<1>1. Init => NoChargeAhead
  BY DEF Init, NoChargeAhead
<1>2. Inv /\ NoChargeAhead /\ [Next]_storeVars => NoChargeAhead'
  BY AheadStep
<1> QED BY <1>1, <1>2, Invariance, PTL DEF Spec

-----------------------------------------------------------------------------
(* What holds when no statement fails.                                      *)

Goes(c, v) == pc' = [pc EXCEPT ![c] = v] /\ UNCHANGED args

\* The four things a statement can come to: go on, grant what is not counted,
\* charge a row and grant, or deny what does not fit.
LEMMA StatementCases ==
    ASSUME Inv, NEW c \in Caller, Statement(c), Failing = {}
    PROVE  \/ (Goes(c, "update") \/ Goes(c, "insert")) /\ UNCHANGED rows
           \/ /\ Goes(c, "allowed") /\ UNCHANGED rows
              /\ DailyLimit = 0 \/ bytes[c] = 0
           \/ /\ Goes(c, "allowed")
              /\ Used(who[c], today[c]) + bytes[c] <= DailyLimit
              /\ rows' = [rows EXCEPT ![who[c]][today[c]] =
                              Used(who[c], today[c]) + bytes[c]]
           \/ /\ Goes(c, "denied") /\ UNCHANGED rows
              /\ DailyLimit # 0
              /\ Used(who[c], today[c]) + bytes[c] > DailyLimit
<1> DEFINE row == rows[who[c]][today[c]]
<1>0. /\ row \in Nat \union {NoRow} /\ bytes[c] \in Nat
      /\ attempt[c] \in 0..MaxAttempts
  BY DEF Inv, TypeOK
<1>1. CASE Entry(c)
  <2>1. CASE DailyLimit = 0 \/ bytes[c] = 0
    BY <1>1, <2>1 DEF Entry, Goes
  <2>2. CASE ~(DailyLimit = 0 \/ bytes[c] = 0) /\ bytes[c] > DailyLimit
    <3>1. Used(who[c], today[c]) \in Nat
      BY <1>0 DEF Used
    <3>2. Goes(c, "denied") /\ UNCHANGED rows
      BY <1>1, <2>2 DEF Entry, Refusal, Goes
    <3>3. Used(who[c], today[c]) + bytes[c] > DailyLimit
      BY <1>0, <2>2, <3>1
    <3> QED BY <2>2, <3>2, <3>3
  <2>3. CASE ~(DailyLimit = 0 \/ bytes[c] = 0) /\ ~(bytes[c] > DailyLimit)
    BY <1>1, <2>3 DEF Entry, Goes
  <2> QED BY <2>1, <2>2, <2>3
<1>2. CASE Update(c)
  BY <1>0, <1>2 DEF Update, Used, Goes
<1>3. CASE Insert(c)
  <2>1. CASE row = NoRow
    <3>1. bytes[c] <= DailyLimit
      BY <1>3 DEF Insert, Inv, CallInv
    <3> QED BY <1>0, <1>3, <2>1, <3>1 DEF Insert, Used, Goes
  <2>2. CASE row # NoRow /\ attempt[c] + 1 < MaxAttempts
    BY <1>3, <2>2 DEF Insert, Goes
  <2>3. CASE row # NoRow /\ ~(attempt[c] + 1 < MaxAttempts)
    <3>1. attempt[c] > 0
      BY <1>0, <2>3
    <3>2. row + bytes[c] > DailyLimit /\ DailyLimit > 0
      BY <1>3, <3>1 DEF Insert, Inv, CallInv
    <3> QED BY <1>3, <2>3, <3>2 DEF Insert, Refusal, Used, Goes
  <2> QED BY <2>1, <2>2, <2>3
<1> QED BY <1>1, <1>2, <1>3 DEF Statement

\* A step never makes a denial unjustified, and denies only what does not fit.
LEMMA DenialStep ==
    ASSUME Inv, DenialIsJustified, [Next]_storeVars, Failing = {}
    PROVE  DenialIsJustified'
<1> SUFFICES ASSUME NEW k \in Caller, pc'[k] = "denied"
             PROVE  Used(who[k], today[k])' + bytes'[k] > DailyLimit
  BY DEF DenialIsJustified
<1>1. \A u \in User, d \in Day :
          /\ rows[u][d] \in Nat \union {NoRow}
          /\ rows'[u][d] \in Nat \union {NoRow}
          /\ rows'[u][d] >= rows[u][d]
  BY TableStep DEF Inv, TypeOK
<1> USE DEF Inv, TypeOK
<1>2. CASE pc[k] = "denied" /\ UNCHANGED <<who[k], bytes[k], today[k]>>
  <2>1. \A u \in User, d \in Day : /\ Used(u, d) \in Nat /\ Used(u, d)' \in Nat
                                   /\ Used(u, d)' >= Used(u, d)
    BY <1>1 DEF Used
  <2>2. Used(who[k], today[k]) + bytes[k] > DailyLimit
    BY <1>2 DEF DenialIsJustified
  <2>3. Used(who[k], today[k])' >= Used(who[k], today[k])
    BY <1>1, <1>2 DEF Used
  <2> QED BY <1>2, <2>1, <2>2, <2>3
<1>3. CASE Statement(k)
  <2>1. ~Goes(k, "update") /\ ~Goes(k, "insert") /\ ~Goes(k, "allowed")
    BY DEF Goes
  <2>2. /\ Goes(k, "denied") /\ UNCHANGED rows
        /\ Used(who[k], today[k]) + bytes[k] > DailyLimit
    BY <1>3, <2>1, StatementCases
  <2> QED BY <2>2 DEF Used, Goes
<1>4. ASSUME NEW c \in Caller \ {k}, Statement(c)
      PROVE  pc[k] = "denied" /\ UNCHANGED <<who[k], bytes[k], today[k]>>
  BY <1>4 DEF Statement, Entry, Update, Insert
<1>5. ASSUME NEW c \in Caller, NEW u \in User, NEW n \in Size, Consume(c, u, n)
      PROVE  pc[k] = "denied" /\ UNCHANGED <<who[k], bytes[k], today[k]>>
  BY <1>5 DEF Consume
<1> QED BY <1>2, <1>3, <1>4, <1>5 DEF Next, Midnight

\* While no statement fails, every denial means the bytes did not fit.
THEOREM DenialHolds ==
    ASSUME Failing = {}
    PROVE  Spec => []DenialIsJustified
<1>1. Init => DenialIsJustified
  BY DEF Init, DenialIsJustified
<1>2. Inv /\ DenialIsJustified /\ [Next]_storeVars => DenialIsJustified'
  BY DenialStep
<1> QED BY <1>1, <1>2, Invariance, PTL DEF Spec

\* A charge of row u, d seen through the refinement mapping.
LEMMA UsageStep ==
    ASSUME Inv, NEW u \in User, NEW d \in Day, NEW n \in Nat,
           rows' = [rows EXCEPT ![u][d] = Used(u, d) + n]
    PROVE  Usage' = [Usage EXCEPT ![u][d] = @ + n]
<1>1. Used(u, d) + n \in Nat
  BY DEF Inv, TypeOK, Used
<1>2. \A x \in User, y \in Day : rows'[x][y] =
          IF x = u /\ y = d THEN Used(u, d) + n ELSE rows[x][y]
  BY <1>1, PutRow DEF Inv, TypeOK
<1>3. \A x \in User, y \in Day : Used(x, y)' =
          IF x = u /\ y = d THEN Used(u, d) + n ELSE Used(x, y)
  BY <1>1, <1>2 DEF Used
<1>4. Usage' = [Usage EXCEPT ![u] = [Usage[u] EXCEPT ![d] = Used(u, d) + n]]
  BY <1>3 DEF Usage
<1>5. Usage[u][d] = Used(u, d)
  BY DEF Usage
<1> QED BY <1>4, <1>5

\* A call that ends, seen through the refinement mapping.
LEMMA DecideStep ==
    ASSUME Inv, NEW c \in Caller, NEW v \in Outcome,
           pc[c] \in {"entry", "update", "insert"},
           pc' = [pc EXCEPT ![c] = v], UNCHANGED args
    PROVE  /\ Quota!Decide(c, v)
           /\ Call[c] = [state |-> "pending", user |-> who[c],
                         bytes |-> bytes[c], day |-> today[c]]
<1>1. Call[c] = [state |-> "pending", user |-> who[c],
                 bytes |-> bytes[c], day |-> today[c]]
  BY DEF Call
<1>2. Call'[c] = [state |-> v, user |-> who[c],
                  bytes |-> bytes[c], day |-> today[c]]
  BY DEF Call, Inv, TypeOK
<1>3. [Call[c] EXCEPT !.state = v] = Call'[c]
  BY <1>1, <1>2
<1>4. \A k \in Caller \ {c} : Call'[k] = Call[k]
  BY DEF Call, Inv, TypeOK
<1>5. Call' = [k \in Caller |-> Call'[k]] /\ Call = [k \in Caller |-> Call[k]]
  BY DEF Call
<1>6. Call' = [Call EXCEPT ![c] = Call'[c]]
  BY <1>4, <1>5
<1> QED BY <1>1, <1>3, <1>6 DEF Quota!Decide

\* A step is a step of the quota or leaves it unchanged.
LEMMA QuotaStep ==
    ASSUME Inv, [Next]_storeVars, Failing = {}
    PROVE  [Quota!Next]_Quota!vars
<1>1. CASE UNCHANGED <<rows, pc, args>>
  BY <1>1 DEF Quota!vars, Usage, Used, Call
<1>2. ASSUME NEW c \in Caller, NEW u \in User, NEW n \in Size, Consume(c, u, n)
      PROVE  Quota!Ask(c)
  <2>1. Call' = [Call EXCEPT ![c] = [state |-> "pending", user |-> u,
                                     bytes |-> n, day |-> clock]]
    BY <1>2 DEF Consume, Call, Inv, TypeOK
  <2>2. Call[c].state # "pending"
    BY <1>2 DEF Consume, Call, Inv, TypeOK
  <2>3. Usage' = Usage /\ clock \in Day
    BY <1>2 DEF Consume, Usage, Used, Inv, TypeOK
  <2> QED BY <2>1, <2>2, <2>3 DEF Quota!Ask
<1>3. ASSUME NEW c \in Caller, Statement(c)
      PROVE  Quota!Grant(c) \/ Quota!Deny(c) \/ UNCHANGED <<rows, Call>>
  <2> DEFINE Pending == [state |-> "pending", user |-> who[c],
                         bytes |-> bytes[c], day |-> today[c]]
  <2>0. /\ who[c] \in User /\ today[c] \in Day /\ bytes[c] \in Nat
        /\ Usage[who[c]][today[c]] = Used(who[c], today[c])
        /\ pc[c] \in {"entry", "update", "insert"}
    BY <1>3 DEF Inv, TypeOK, Usage, Statement, Entry, Update, Insert
  <2>1. CASE (Goes(c, "update") \/ Goes(c, "insert")) /\ UNCHANGED rows
    BY <2>0, <2>1 DEF Goes, Call, Inv, TypeOK
  <2>2. CASE /\ Goes(c, "allowed") /\ UNCHANGED rows
             /\ DailyLimit = 0 \/ bytes[c] = 0
    <3>1. UNCHANGED Usage
      BY <2>2 DEF Usage, Used
    <3>2. Quota!Decide(c, "allowed") /\ Call[c] = Pending
      BY <2>0, <2>2, DecideStep DEF Goes
    <3> QED BY <2>2, <3>1, <3>2 DEF Quota!Grant
  <2>3. CASE /\ Goes(c, "allowed")
             /\ Used(who[c], today[c]) + bytes[c] <= DailyLimit
             /\ rows' = [rows EXCEPT ![who[c]][today[c]] =
                             Used(who[c], today[c]) + bytes[c]]
    <3> DEFINE u == who[c]
               d == today[c]
               n == bytes[c]
    <3>0. u \in User /\ d \in Day /\ n \in Nat /\ rows' = [rows EXCEPT ![u][d] = Used(u, d) + n]
      BY <2>0, <2>3
    <3>1. Usage' = [Usage EXCEPT ![u][d] = @ + n]
      <4> HIDE DEF u, d, n
      <4> QED BY <3>0, UsageStep
    <3>2. Quota!Decide(c, "allowed") /\ Call[c] = Pending
      BY <2>0, <2>3, DecideStep DEF Goes
    <3>3. /\ Call[c].state = "pending" /\ Call[c].user = who[c]
          /\ Call[c].bytes = bytes[c] /\ Call[c].day = today[c]
      BY <3>2
    <3>4. Quota!Fits(Call[c])
      BY <2>0, <2>3, <3>3 DEF Quota!Fits
    <3>5. Usage' = [Usage EXCEPT ![Call[c].user][Call[c].day] = @ + Call[c].bytes]
      BY <3>1, <3>3
    <3>6. Quota!Grant(c)
      BY <3>2, <3>3, <3>4, <3>5, Zenon DEF Quota!Grant
    <3> QED BY <3>6
  <2>4. CASE /\ Goes(c, "denied") /\ UNCHANGED rows
             /\ DailyLimit # 0
             /\ Used(who[c], today[c]) + bytes[c] > DailyLimit
    <3>1. UNCHANGED Usage
      BY <2>4 DEF Usage, Used
    <3>2. Quota!Decide(c, "denied") /\ Call[c] = Pending
      BY <2>0, <2>4, DecideStep DEF Goes
    <3>3. Used(who[c], today[c]) \in Nat
      BY <2>0 DEF Used, Inv, TypeOK
    <3>4. ~Quota!Fits(Call[c])
      BY <2>0, <2>4, <3>2, <3>3 DEF Quota!Fits
    <3>5. Call[c].state = "pending"
      BY <3>2
    <3>6. Quota!Deny(c)
      BY <2>4, <3>1, <3>2, <3>4, <3>5, Zenon DEF Quota!Deny
    <3> QED BY <3>6
  <2> QED BY <1>3, <2>1, <2>2, <2>3, <2>4, StatementCases
<1> QED BY <1>1, <1>2, <1>3 DEF Next, Midnight, Quota!Next, Quota!vars, Usage, Used

\* While no statement fails, the loop of UPDATE, INSERT and retries is the
\* atomic decision its comment promises.
THEOREM QuotaImplemented ==
    ASSUME Failing = {}
    PROVE  Spec => ImplementsQuota
<1>1. Init => Quota!Init
  BY DEF Init, Quota!Init, Quota!Idle, Usage, Used, Call
<1>2. Inv /\ [Next]_storeVars => [Quota!Next]_Quota!vars
  BY QuotaStep
<1> QED BY <1>1, <1>2, Invariance, PTL DEF Spec, ImplementsQuota, Quota!Spec

=============================================================================
