-------------------------------- MODULE Login --------------------------------
(***************************************************************************)
(* Signing in, and linking, through the Telegram bot: a browser asks for a  *)
(* pending login (internal/dashboard/handler.go), a person opens the bot    *)
(* with its hash and presses a button, the bot's loop                       *)
(* (internal/telegram/bot.go) fetches the updates and decides the pending   *)
(* login (internal/telegram/pending_login.go), and the first poll with the  *)
(* hash to find it approved, whatever browser it comes from, goes on as a   *)
(* request of Accounts, beside the dashboard's other requests.              *)
(*                                                                          *)
(* Telegram keeps every update until a call of getUpdates confirms it; the  *)
(* store and the loop's position live in the process and die with it.       *)
(***************************************************************************)
EXTENDS Accounts, Sequences

CONSTANTS
    Hash,            \* hashes generateHash may give, each once
    MaxUpdates,      \* bound on the updates that people send
    MaxRestarts      \* bound on the crashes of the server

ASSUME LoginAssumption == MaxUpdates \in Nat /\ MaxRestarts \in Nat

VARIABLES
    login,      \* the PendingLogin objects
    stored,     \* the keys of the store's map
    poll,       \* the polls that have got their login, before the switch
    shown,      \* <<identity, hash>>: has the buttons of this login
    updates,    \* all updates, in the order Telegram numbers them
    confirmed,  \* those up to here Telegram has dropped
    bot,        \* the loop: lastUpdateID, and the rest of the batch
    handled,    \* updates handled at least once (history)
    handed,     \* how many polls were given the approved login (history)
    restarts

storeVars == <<login, stored>>
botVars == <<shown, confirmed, bot, handled>>
vars == <<accountVars, storeVars, botVars, poll, updates, handed, restarts>>

Status == {"pending", "approved", "rejected"}

\* user: the account to link to; old: created more than PendingLoginTTL ago.
PendingLogin == [status : Status, user : User \union {None},
                 tg : Telegram \union {None}, old : BOOLEAN]

PollRequest == [browser : Browser, hash : Hash]

ASSUME HashAssumption == None \notin PendingLogin \union PollRequest

Update == [kind : {"start", "approve", "reject"}, from : Telegram, hash : Hash]

\* at "photo": handleAuthApprove, between Get and Approve.
BotState == [at : {"fetch", "handle", "photo"}, last : 0..MaxUpdates,
             next : 1..MaxUpdates + 1, end : 0..MaxUpdates]

BotStarts == [at |-> "fetch", last |-> 0, next |-> 1, end |-> 0]

LoginStart ==
    /\ login = [h \in Hash |-> None]
    /\ stored = {}
    /\ poll = [r \in Request |-> None]
    /\ shown = {}
    /\ updates = << >>
    /\ confirmed = 0
    /\ bot = BotStarts
    /\ handled = {}
    /\ handed = [h \in Hash |-> 0]
    /\ restarts = 0

LoginInit == Init /\ LoginStart

-----------------------------------------------------------------------------
(* PendingLoginStore: every method is one critical section.                 *)

Create(h, u) ==
    /\ login[h] = None
    /\ login' = [login EXCEPT ![h] = [status |-> "pending", user |-> u,
                                      tg |-> None, old |-> FALSE]]
    /\ stored' = stored \union {h}

\* Get returns the stored object, not a copy.
Get(h) == h \in stored /\ ~login[h].old

Approve(h, t) ==
    IF Get(h) /\ login[h].status = "pending"
    THEN /\ login' = [login EXCEPT ![h].status = "approved", ![h].tg = t]
         /\ UNCHANGED stored
    ELSE /\ stored' = {k \in stored : k = h => ~login[k].old}
         /\ UNCHANGED login

\* Reject does not look at the age.
Reject(h) ==
    /\ login' = IF h \in stored /\ login[h].status = "pending"
                THEN [login EXCEPT ![h].status = "rejected"] ELSE login
    /\ UNCHANGED stored

Delete(h) == stored' = stored \ {h} /\ UNCHANGED login

\* Mutation: the entry is left to the cleaner.
ConsumeKeeps(h) == UNCHANGED storeVars

Consume(h) == Delete(h)

\* Time passes an entry's PendingLoginTTL.
Age(h) ==
    /\ h \in stored /\ ~login[h].old
    /\ login' = [login EXCEPT ![h].old = TRUE]
    /\ UNCHANGED <<stored, accountVars, botVars, poll, updates, handed, restarts>>

\* Mutation: only logins that nobody has decided are dropped.
ExpiredPending == {h \in stored : login[h].old /\ login[h].status = "pending"}

Expired == {h \in stored : login[h].old}

cleanup ==
    /\ Expired # {}
    /\ stored' = stored \ Expired
    /\ UNCHANGED <<login, accountVars, botVars, poll, updates, handed, restarts>>

-----------------------------------------------------------------------------
(* The browser and the dashboard.                                           *)

\* The session's user, if it can be read, makes it a linking.
InitTelegramAuth(b) ==
    /\ \E h \in Hash, u \in {cookie[b], None} : Create(h, u)
    /\ UNCHANGED <<accountVars, botVars, poll, updates, handed, restarts>>

Free(r) == req[r].at = "idle" /\ poll[r] = None

\* Any browser that has the hash may ask, at any time and as often as it likes:
\* the page that asked for the login, or whoever has its link.  A hash that is
\* unknown or too old is answered at once.
Poll(b, r) ==
    /\ Free(r)
    /\ \E h \in Hash : Get(h) /\ poll' = [poll EXCEPT ![r] = [browser |-> b, hash |-> h]]
    /\ UNCHANGED <<accountVars, storeVars, botVars, updates, handed, restarts>>

\* The handler of an approved login begins, for the browser of the poll.
Enter(r, b, p) ==
    req' = [req EXCEPT ![r] =
        [Idle EXCEPT !.at = IF p.user = None THEN "find" ELSE "check",
                     !.kind = IF p.user = None THEN "botLogin" ELSE "botLink",
                     !.browser = b, !.own = p.user, !.ident = p.tg]]

\* Who has pressed the button that approves a login.
Approvers(h) ==
    {t \in Telegram : \E n \in 1..Len(updates) :
        updates[n] = [kind |-> "approve", from |-> t, hash |-> h]}

\* The switch on the status, read through the pointer without the lock.  A torn
\* read fits no case; its empty answer has the effect of "pending".  A browser
\* that is given the login has the word of the person who approved it.
PollTelegramAuth(r) ==
    /\ poll[r] # None
    /\ poll' = [poll EXCEPT ![r] = None]
    /\ LET h == poll[r].hash  b == poll[r].browser  p == login[h] IN
          \/ /\ p.status = "pending" \/ (p.status = "approved" /\ h \notin stored)
             /\ UNCHANGED <<storeVars, req, vouched, handed>>
          \/ /\ p.status = "rejected"
             /\ Delete(h)
             /\ UNCHANGED <<req, vouched, handed>>
          \/ /\ p.status = "approved" /\ h \in stored
             /\ Consume(h)
             /\ Enter(r, b, p)
             /\ vouched' = vouched \union ({b} \X ({p.tg} \intersect Approvers(h)))
             /\ handed' = [handed EXCEPT ![h] = @ + 1]
    /\ UNCHANGED <<tables, cookie, owned, botVars, updates, restarts>>

\* The requests of Accounts, those of the bot's two handlers among them.
Serve(r) ==
    /\ \/ poll[r] = None /\ \E b \in Browser : Send(b, r)
       \/ Handle(r)
       \/ handleTelegramLoginFromBot(r)
       \/ handleTelegramLinkFromBot(r)
    /\ UNCHANGED <<storeVars, botVars, poll, updates, handed, restarts>>

-----------------------------------------------------------------------------
(* People and the bot.                                                      *)

\* Anybody who has the link starts the bot; who has the buttons presses one.
Press(t) ==
    /\ Len(updates) < MaxUpdates
    /\ \E h \in Hash, kind \in {"start", "approve", "reject"} :
          /\ login[h] # None
          /\ kind # "start" => <<t, h>> \in shown
          /\ updates' = Append(updates, [kind |-> kind, from |-> t, hash |-> h])
    /\ UNCHANGED <<accountVars, storeVars, botVars, poll, handed, restarts>>

Offset == bot.last + 1

\* getUpdates confirms what is before the offset and returns what is left: now,
\* or after another call, when there is nothing yet or the answer is lost.
Dropped == IF Offset - 1 > confirmed THEN Offset - 1 ELSE confirmed

getUpdates ==
    /\ bot.at = "fetch"
    /\ confirmed' = Dropped
    /\ \/ UNCHANGED bot
       \/ /\ Dropped < Len(updates)
          /\ bot' = [bot EXCEPT !.at = "handle", !.next = Dropped + 1, !.end = Len(updates)]
    /\ UNCHANGED <<accountVars, storeVars, poll, shown, updates, handled, handed, restarts>>

\* Mutation: the position moves to the end of the batch at its first update.
HandledBatch ==
    /\ bot' = [at |-> "fetch", last |-> bot.end, next |-> bot.next + 1, end |-> bot.end]
    /\ handled' = handled \union {bot.next}

\* handleUpdate returns: the position moves, and the batch ends or goes on.
Handled ==
    LET n == bot.next IN
    /\ bot' = [at |-> IF n = bot.end THEN "fetch" ELSE "handle", last |-> n,
               next |-> n + 1, end |-> bot.end]
    /\ handled' = handled \union {n}

Current == updates[bot.next]

\* The message with the buttons may fail to be sent.
handleAuthStart ==
    /\ bot.at = "handle" /\ Current.kind = "start"
    /\ \/ UNCHANGED shown
       \/ Get(Current.hash) /\ shown' = shown \union {<<Current.from, Current.hash>>}
    /\ Handled
    /\ UNCHANGED storeVars

\* The profile photo is fetched between Get and Approve.
FetchPhoto ==
    /\ bot.at = "handle" /\ Current.kind = "approve"
    /\ Get(Current.hash)
    /\ bot' = [bot EXCEPT !.at = "photo"]
    /\ UNCHANGED <<storeVars, shown, handled>>

handleAuthApprove ==
    /\ \/ bot.at = "photo" /\ Approve(Current.hash, Current.from)
       \/ /\ bot.at = "handle" /\ Current.kind = "approve"
          /\ ~Get(Current.hash)
          /\ UNCHANGED storeVars
    /\ Handled
    /\ UNCHANGED shown

handleAuthReject ==
    /\ bot.at = "handle" /\ Current.kind = "reject"
    /\ Reject(Current.hash)
    /\ Handled
    /\ UNCHANGED shown

handleUpdate ==
    /\ handleAuthStart \/ FetchPhoto \/ handleAuthApprove \/ handleAuthReject
    /\ UNCHANGED <<accountVars, poll, updates, confirmed, handed, restarts>>

\* The server dies and starts again.  Hashes are never given twice.
Restart ==
    /\ restarts < MaxRestarts
    /\ restarts' = restarts + 1
    /\ Crash
    /\ stored' = {}
    /\ poll' = [r \in Request |-> None]
    /\ bot' = BotStarts
    /\ UNCHANGED <<login, shown, updates, confirmed, handled, handed>>

-----------------------------------------------------------------------------

LoginNext ==
    \/ \E b \in Browser : InitTelegramAuth(b)
    \/ \E b \in Browser, r \in Request : Poll(b, r)
    \/ \E r \in Request : PollTelegramAuth(r) \/ Serve(r)
    \/ \E t \in Telegram : Press(t)
    \/ getUpdates \/ handleUpdate \/ Restart
    \/ \E h \in Hash : Age(h)
    \/ cleanup

LoginSpec == LoginInit /\ [][LoginNext]_vars

\* Time passes and the cleaner's ticker fires; nothing is assumed of browsers
\* and people.
LoginFairness == (\A h \in Hash : WF_vars(Age(h))) /\ WF_vars(cleanup)

LoginFairSpec == LoginSpec /\ LoginFairness

-----------------------------------------------------------------------------
(* Properties.                                                              *)

\* Types of the store, the loop and the polls.
LoginTypeOK ==
    /\ TypeOK
    /\ login \in [Hash -> PendingLogin \union {None}]
    /\ stored \subseteq {h \in Hash : login[h] # None}
    /\ poll \in [Request -> PollRequest \union {None}]
    /\ shown \subseteq Telegram \X Hash
    /\ updates \in Seq(Update) /\ Len(updates) <= MaxUpdates
    /\ confirmed \in 0..Len(updates)
    /\ bot \in BotState
    /\ handled \subseteq 1..MaxUpdates
    /\ handed \in [Hash -> Nat]
    /\ restarts \in 0..MaxRestarts

\* "One-time use" (Consume): however polls overlap and updates come again, an
\* approved login is given to one poll, and a rejected one to none.
HandedOnce ==
    \A h \in Hash : handed[h] > 0 => handed[h] = 1 /\ login[h].status = "approved"

\* Telegram is told to drop an update only after it was handled, crash or not:
\* no button press and no /start is lost.
NoUpdateLost == 1..confirmed \subseteq handled

\* A pending login does not stay in the store, whatever becomes of the browser
\* that asked for it and of the person who should decide it.
EntriesExpire == \A h \in Hash : h \in stored ~> h \notin stored

\* What the bot's loop needs of Telegram: it answers, sooner or later, the calls
\* of getUpdates and those that handleUpdate makes, which have no timeout.  All
\* updates of this model have a sender; handling one without (nil From) panics.
TelegramAnswers == WF_vars(getUpdates /\ bot' # bot) /\ WF_vars(handleUpdate)

\* Every update is handled in the end, through lost answers and restarts, as
\* long as Telegram answers.
UpdatesAreHandled ==
    TelegramAnswers => \A n \in 1..MaxUpdates : Len(updates) >= n ~> n \in handled

=============================================================================
