--------------------------- MODULE BandwidthStore ---------------------------
(***************************************************************************)
(* The daily bandwidth counter in SQLite and the loop that charges it       *)
(* (ConsumeUserBandwidthWithinLimit in internal/storage/db.go).  Every SQL  *)
(* statement is one step; nothing holds the database between two of them,   *)
(* so the statements of concurrent calls and midnight interleave freely.    *)
(***************************************************************************)
EXTENDS Integers

CONSTANTS
    Caller,         \* goroutines that may be charging
    User,
    Size,           \* byte counts that are charged
    DailyLimit,     \* 0 means no limit
    LastDay,        \* bound on the number of midnights
    Failing         \* callers whose statements may fail (locked, disk full, ...)

ASSUME SizeAssumption  == Size \subseteq Nat
ASSUME LimitAssumption == DailyLimit \in Nat
ASSUME DayAssumption   == LastDay \in Nat
ASSUME FaultAssumption == Failing \subseteq Caller

Day == 0..LastDay
NoRow == -1       \* the user has no row for the day
MaxAttempts == 3

VARIABLES
    clock,     \* the current day
    rows,      \* bytes_used of the row of a user and a day, or NoRow
    pc,        \* where a caller's call stands; an outcome when it returned
    who, bytes, today, attempt   \* the call's arguments and locals

storeVars == <<clock, rows, pc, who, bytes, today, attempt>>
args == <<who, bytes, today>>

Outcome == {"allowed", "denied", "failed"}
CallState == {"idle", "entry", "update", "insert"} \union Outcome

Used(u, d) == IF rows[u][d] = NoRow THEN 0 ELSE rows[u][d]

Init ==
    /\ clock = 0
    /\ rows = [u \in User |-> [d \in Day |-> NoRow]]
    /\ pc = [c \in Caller |-> "idle"]
    /\ who \in [Caller -> User]
    /\ bytes = [c \in Caller |-> 0]
    /\ today = [c \in Caller |-> 0]
    /\ attempt = [c \in Caller |-> 0]

Midnight ==
    /\ clock < LastDay
    /\ clock' = clock + 1
    /\ UNCHANGED <<rows, pc, args, attempt>>

\* A call is made; today is read from the clock.
Consume(c, u, n) ==
    /\ pc[c] \notin {"entry", "update", "insert"}
    /\ pc' = [pc EXCEPT ![c] = "entry"]
    /\ who' = [who EXCEPT ![c] = u]
    /\ bytes' = [bytes EXCEPT ![c] = n]
    /\ today' = [today EXCEPT ![c] = clock]
    /\ attempt' = [attempt EXCEPT ![c] = 0]
    /\ UNCHANGED <<clock, rows>>

\* The reads of today's usage that accompany an answer only fill bytesUsed and
\* err.  An error turns a denial into a failure; it does not undo a grant.
Refusal(c) == {"denied"} \union (IF c \in Failing THEN {"failed"} ELSE {})

\* The early returns, before any statement.
Entry(c) ==
    /\ pc[c] = "entry"
    /\ \E next \in IF DailyLimit = 0 \/ bytes[c] = 0 THEN {"allowed"}
                   ELSE IF bytes[c] > DailyLimit THEN Refusal(c)
                   ELSE {"update"} :
          pc' = [pc EXCEPT ![c] = next]
    /\ UNCHANGED <<clock, rows, args, attempt>>

\* Mutation: the WHERE clause forgets the bytes being added.
UpdateIgnoresBytes(c) ==
    LET row == rows[who[c]][today[c]] IN
    /\ pc[c] = "update"
    /\ IF row # NoRow /\ row <= DailyLimit
       THEN /\ rows' = [rows EXCEPT ![who[c]][today[c]] = @ + bytes[c]]
            /\ pc' = [pc EXCEPT ![c] = "allowed"]
       ELSE pc' = [pc EXCEPT ![c] = "insert"] /\ UNCHANGED rows
    /\ UNCHANGED <<clock, args, attempt>>

\* UPDATE ... WHERE user, date AND bytes_used + ? <= ?; the row may be missing.
Update(c) ==
    LET row == rows[who[c]][today[c]] IN
    /\ pc[c] = "update"
    /\ \/ /\ row # NoRow
          /\ row + bytes[c] <= DailyLimit
          /\ rows' = [rows EXCEPT ![who[c]][today[c]] = @ + bytes[c]]
          /\ pc' = [pc EXCEPT ![c] = "allowed"]
       \/ /\ row = NoRow \/ row + bytes[c] > DailyLimit
          /\ pc' = [pc EXCEPT ![c] = "insert"]
          /\ UNCHANGED rows
       \/ /\ c \in Failing
          /\ pc' = [pc EXCEPT ![c] = "failed"]
          /\ UNCHANGED rows
    /\ UNCHANGED <<clock, args, attempt>>

\* Mutation: a UNIQUE violation is not retried.
InsertOnce(c) ==
    LET row == rows[who[c]][today[c]] IN
    /\ pc[c] = "insert"
    /\ IF row = NoRow
       THEN /\ rows' = [rows EXCEPT ![who[c]][today[c]] = bytes[c]]
            /\ pc' = [pc EXCEPT ![c] = "allowed"]
       ELSE pc' = [pc EXCEPT ![c] = "denied"] /\ UNCHANGED rows
    /\ UNCHANGED <<clock, args, attempt>>

\* Mutation: an upsert in place of the INSERT.
InsertAdds(c) ==
    /\ pc[c] = "insert"
    /\ rows' = [rows EXCEPT ![who[c]][today[c]] =
                    Used(who[c], today[c]) + bytes[c]]
    /\ pc' = [pc EXCEPT ![c] = "allowed"]
    /\ UNCHANGED <<clock, args, attempt>>

\* INSERT of the day's first row.  Only a UNIQUE violation is retried; any
\* other error is taken for an exhausted limit.
Insert(c) ==
    LET row == rows[who[c]][today[c]] IN
    /\ pc[c] = "insert"
    /\ \/ /\ row = NoRow
          /\ rows' = [rows EXCEPT ![who[c]][today[c]] = bytes[c]]
          /\ pc' = [pc EXCEPT ![c] = "allowed"]
          /\ UNCHANGED attempt
       \/ /\ row # NoRow
          /\ attempt' = [attempt EXCEPT ![c] = @ + 1]
          /\ \E next \in IF attempt[c] + 1 < MaxAttempts THEN {"update"} ELSE Refusal(c) :
                pc' = [pc EXCEPT ![c] = next]
          /\ UNCHANGED rows
       \/ /\ c \in Failing
          /\ \E next \in Refusal(c) : pc' = [pc EXCEPT ![c] = next]
          /\ UNCHANGED <<rows, attempt>>
    /\ UNCHANGED <<clock, args>>

Statement(c) == Entry(c) \/ Update(c) \/ Insert(c)

Next ==
    \/ Midnight
    \/ \E c \in Caller : Statement(c) \/ \E u \in User, n \in Size : Consume(c, u, n)

Spec == Init /\ [][Next]_storeVars

-----------------------------------------------------------------------------
(* Properties.                                                              *)

TypeOK ==
    /\ clock \in Day
    /\ rows \in [User -> [Day -> Nat \union {NoRow}]]
    /\ pc \in [Caller -> CallState]
    /\ who \in [Caller -> User]
    /\ bytes \in [Caller -> Nat]
    /\ today \in [Caller -> Day]
    /\ attempt \in [Caller -> 0..MaxAttempts]

\* No interleaving of updates, inserts and retries takes a user's counter of a
\* day over the limit.
UsedWithinLimit ==
    DailyLimit > 0 => \A u \in User, d \in Day : Used(u, d) <= DailyLimit

\* A call is denied only if its bytes do not fit in what is left of its day:
\* losing the race for the first row of the day is no reason.
DenialIsJustified ==
    \A c \in Caller : pc[c] = "denied" =>
        Used(who[c], today[c]) + bytes[c] > DailyLimit

\* The loop implements the one-step decision its comment promises.
Usage == [u \in User |-> [d \in Day |-> Used(u, d)]]

Call == [c \in Caller |->
    IF pc[c] = "idle" THEN [state |-> "idle"]
    ELSE [state |-> IF pc[c] \in Outcome THEN pc[c] ELSE "pending",
          user |-> who[c], bytes |-> bytes[c], day |-> today[c]]]

Quota == INSTANCE DailyQuota WITH usage <- Usage, call <- Call

ImplementsQuota == Quota!Spec

=============================================================================
