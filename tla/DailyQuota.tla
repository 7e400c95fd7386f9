----------------------------- MODULE DailyQuota -----------------------------
(***************************************************************************)
(* What ConsumeUserBandwidthWithinLimit promises its callers: each call is  *)
(* decided in one step, against the usage of the day it was made on.  A     *)
(* grant charges all of its bytes, a denial means they did not fit, and a   *)
(* failure charges nothing.                                                 *)
(***************************************************************************)
EXTENDS Integers

CONSTANTS Caller, User, Day, Size, DailyLimit

VARIABLES
    usage,   \* bytes charged to a user on a day
    call     \* per caller: the call being made and how it ended

vars == <<usage, call>>

Idle == [state |-> "idle"]

Fits(k) == usage[k.user][k.day] + k.bytes <= DailyLimit

Init ==
    /\ usage = [u \in User |-> [d \in Day |-> 0]]
    /\ call = [c \in Caller |-> Idle]

Ask(c) ==
    /\ call[c].state # "pending"
    /\ \E u \in User, n \in Size, d \in Day :
          call' = [call EXCEPT ![c] = [state |-> "pending", user |-> u,
                                       bytes |-> n, day |-> d]]
    /\ UNCHANGED usage

Decide(c, verdict) == call' = [call EXCEPT ![c].state = verdict]

\* Without a limit, and for no bytes, nothing is counted.
Grant(c) ==
    LET k == call[c] IN
    /\ k.state = "pending"
    /\ Decide(c, "allowed")
    /\ \/ /\ DailyLimit = 0 \/ k.bytes = 0
          /\ UNCHANGED usage
       \/ /\ Fits(k)
          /\ usage' = [usage EXCEPT ![k.user][k.day] = @ + k.bytes]

Deny(c) ==
    /\ call[c].state = "pending"
    /\ DailyLimit # 0
    /\ ~Fits(call[c])
    /\ Decide(c, "denied")
    /\ UNCHANGED usage

Fail(c) ==
    /\ call[c].state = "pending"
    /\ Decide(c, "failed")
    /\ UNCHANGED usage

Next == \E c \in Caller : Ask(c) \/ Grant(c) \/ Deny(c) \/ Fail(c)

Spec == Init /\ [][Next]_vars

=============================================================================
