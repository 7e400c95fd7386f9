------------------------------ MODULE Accounts ------------------------------
(***************************************************************************)
(* Accounts and the dashboard's requests about them: the users, tokens and  *)
(* domains of internal/storage/db.go, and the handlers of                   *)
(* internal/dashboard/handler.go that sign in, link, accept the terms and   *)
(* replace the token.  A request is a goroutine; each of its SQL statements *)
(* is a step, and whatever lies between two of them (the code exchange with *)
(* Yandex, the download of an avatar) may take any time.                    *)
(*                                                                          *)
(* A browser sends the session cookie it has when the request leaves, and   *)
(* changes it when the response arrives.                                    *)
(***************************************************************************)
EXTENDS Integers, FiniteSets

CONSTANTS
    User,             \* ids the users table may give
    Telegram, Yandex, \* identities vouched for by Telegram and by Yandex
    Blank,            \* the empty Yandex id, of an answer that names nobody
    Browser,
    Request,          \* requests that can be in progress together
    Form,             \* <<kind, identity>>: the requests that browsers send
    Secret,           \* token strings
    DomainsPerUser,   \* config
    None              \* a NULL column, an absent cookie, an absent row

Identity == Telegram \union Yandex

\* What a browser can send: each is handled by the function named below.
Forms == {"telegram", "yandex", "yandexToken", "link", "terms", "token", "logout"}

\* The bot's two handlers take their request from the poll of a browser.
Kind == Forms \union {"botLogin", "botLink"}

\* The identity that a request comes with: the one in the widget's signed data,
\* or the id in Yandex's answer about the code or the access token.
Names(kind, x) ==
    CASE kind \in {"telegram", "link"} -> x \in Telegram
      [] kind \in {"yandex", "yandexToken"} -> x \in Yandex
      [] OTHER -> x = None

ASSUME FormAssumption == \A f \in Form : f \in Forms \X (Identity \union {None}) /\ Names(f[1], f[2])
ASSUME IdentityAssumption == /\ Telegram \intersect Yandex = {} /\ Blank \in Yandex
                             /\ None \notin User \union Identity \union Browser
ASSUME DomainsAssumption == DomainsPerUser \in Nat

VARIABLES
    users,     \* the users table
    tokens,    \* the secrets in the live rows of the tokens table, by user
    domains,   \* the number of rows of the domains table, by user
    cookie,    \* the session cookie of a browser, decoded
    req,       \* the requests in progress
    vouched,   \* <<browser, identity>>: has proved to be (history)
    owned      \* <<user, identity>>: was created for, or linked to (history)

tables == <<users, tokens, domains>>
accountVars == <<users, tokens, domains, cookie, req, vouched, owned>>

Row == [tg : Telegram \union {None}, ya : Yandex \union {None}, terms : BOOLEAN]

ASSUME RowAssumption == None \notin Row

Place == {"idle", "session", "find", "create", "portrait", "check", "link",
          "reread", "save", "write", "signin", "signout"}

\* own: the user of the cookie; user, row: the record in memory.
Task == [at : Place, kind : Kind, browser : Browser \union {None},
         own : User \union {None}, ident : Identity \union {None},
         user : User \union {None}, row : Row \union {None}]

Idle == [at |-> "idle", kind |-> "logout", browser |-> None, own |-> None,
         ident |-> None, user |-> None, row |-> None]

NewRow(x) == [tg |-> IF x \in Telegram THEN x ELSE None,
              ya |-> IF x \in Yandex THEN x ELSE None, terms |-> FALSE]

Rows == {u \in User : users[u] # None}

\* The rows of an identity, and what the UNIQUE indexes say of writing one.
Has(row, x) == row # None /\ x \in {row.tg, row.ya}
Holders(x) == {u \in User : Has(users[u], x)}
Unique(u, row) == \A x \in Identity : Has(row, x) => Holders(x) \subseteq {u}

Init ==
    /\ users = [u \in User |-> None]
    /\ tokens = [u \in User |-> {}]
    /\ domains = [u \in User |-> 0]
    /\ cookie = [b \in Browser |-> None]
    /\ req = [r \in Request |-> Idle]
    /\ vouched = {}
    /\ owned = {}

\* The database has one user, who registered as x in a browser.
Registered(u, b, x, s) ==
    /\ users = [v \in User |-> IF v = u THEN NewRow(x) ELSE None]
    /\ tokens = [v \in User |-> IF v = u THEN {s} ELSE {}]
    /\ domains = [v \in User |-> IF v = u THEN DomainsPerUser ELSE 0]
    /\ cookie = [c \in Browser |-> IF c = b THEN u ELSE None]
    /\ req = [r \in Request |-> Idle]
    /\ vouched = {<<b, x>>}
    /\ owned = {<<u, x>>}

Goto(r, place) == req' = [req EXCEPT ![r].at = place]

\* Go on with a record in memory, or without one.
Hold(r, place, u, row) ==
    req' = [req EXCEPT ![r].at = place, ![r].user = u, ![r].row = row]

\* An answer that leaves the cookie as it is; nothing depends on its arrival.
Answer(r) == req' = [req EXCEPT ![r] = Idle]

-----------------------------------------------------------------------------
(* Requests.                                                                *)

\* The first step after the checks that need no database: the hash, the OAuth
\* state and the code exchange, the CSRF token.  A request that fails one of
\* them is answered at once and changes nothing.
Entrance(kind) ==
    CASE kind = "telegram" -> "find"
      [] kind = "logout" -> "signout"
      [] OTHER -> "session"

\* Only the first step of those that begin with it looks at the cookie.
Presented(b, kind) == IF Entrance(kind) = "session" THEN cookie[b] ELSE None

\* Yandex's answer is taken as it is decoded: one without an id, an error or
\* not, names Blank and vouches for nobody.
Send(b, r) ==
    /\ req[r].at = "idle"
    /\ \E f \in Form :
       LET kind == f[1]  x == f[2] IN
          /\ req' = [req EXCEPT ![r] =
                [Idle EXCEPT !.at = Entrance(kind), !.kind = kind, !.browser = b,
                             !.own = Presented(b, kind), !.ident = x]]
          /\ vouched' = vouched \union ({b} \X ({x} \ {None, Blank}))
    /\ UNCHANGED <<tables, cookie, owned>>

\* getUserFromSession.  Yandex goes on without a user, whether there is no
\* session or the read failed; the linking form keeps the row it reads here.
ReadSession(r) ==
    /\ req[r].at = "session"
    /\ LET own == req[r].own IN
          \/ IF req[r].ident \in Yandex
             THEN req' = [req EXCEPT ![r].at = "find", ![r].own = None]
             ELSE Answer(r)
          \/ /\ own # None
             /\ \/ req[r].ident \in Yandex /\ Goto(r, "link")
                \/ req[r].kind = "link" /\ Hold(r, "check", own, users[own])
                \/ req[r].kind \in {"terms", "token"} /\ Goto(r, "write")
    /\ UNCHANGED <<tables, cookie, vouched, owned>>

\* A statement fails; the handler answers with an error.
Fail(r) ==
    /\ req[r].at \in {"find", "create", "link", "reread", "save", "write"}
    /\ Answer(r)
    /\ UNCHANGED <<tables, cookie, vouched, owned>>

\* Mutation: the query's condition is ignored; it returns the first row there is.
FindAnyone(r) ==
    /\ req[r].at = "find"
    /\ \/ Rows = {} /\ Goto(r, "create")
       \/ \E u \in Rows : Hold(r, "save", u, users[u])
    /\ UNCHANGED <<tables, cookie, vouched, owned>>

\* GetUserByTelegramID or GetUserByYandexID, to sign in.
Find(r) ==
    /\ req[r].at = "find"
    /\ \/ Holders(req[r].ident) = {} /\ Goto(r, "create")
       \/ \E u \in Holders(req[r].ident) : Hold(r, "save", u, users[u])
    /\ UNCHANGED <<tables, cookie, vouched, owned>>

\* GenerateSecureToken gives one that no live row has.
Fresh(s) == \A u \in User : s \notin tokens[u]

\* Mutation: no transaction; the token fails after the user was created.
CreateUserPiecemeal(r) ==
    /\ req[r].at = "create"
    /\ \E u \in User \ Rows :
          /\ Unique(u, NewRow(req[r].ident))
          /\ users' = [users EXCEPT ![u] = NewRow(req[r].ident)]
          /\ owned' = owned \union {<<u, req[r].ident>>}
    /\ Answer(r)
    /\ UNCHANGED <<tokens, domains, cookie, vouched>>

\* CreateUserWithTokenAndDomains, one transaction.  A row of this identity that
\* has appeared since Find, like a taken domain name, rolls it back (Fail).
\* With an avatar to save, the record is kept.
CreateUser(r) ==
    /\ req[r].at = "create"
    /\ \E u \in User \ Rows, s \in Secret :
          /\ Fresh(s)
          /\ Unique(u, NewRow(req[r].ident))
          /\ users' = [users EXCEPT ![u] = NewRow(req[r].ident)]
          /\ tokens' = [tokens EXCEPT ![u] = {s}]
          /\ domains' = [domains EXCEPT ![u] = DomainsPerUser]
          /\ owned' = owned \union {<<u, req[r].ident>>}
          /\ \/ Hold(r, "portrait", u, NewRow(req[r].ident))
             \/ Hold(r, "signin", u, None)
    /\ UNCHANGED <<cookie, vouched>>

\* Mutation: the columns have no unique index.
SaveAnything(u, row) == users' = [users EXCEPT ![u] = row]

\* UpdateUser is gorm's Save: it writes every column, as it was read.
Save(u, row) ==
    /\ Unique(u, row)
    /\ users' = [users EXCEPT ![u] = row]

\* The avatar of a new user; an error is ignored.
SavePortrait(r) ==
    /\ req[r].at = "portrait"
    /\ Save(req[r].user, req[r].row) \/ UNCHANGED users
    /\ Hold(r, "signin", req[r].user, None)
    /\ UNCHANGED <<tokens, domains, cookie, vouched, owned>>

\* The names and the avatar of a known user.  Linking ends here.
SaveUser(r) ==
    /\ req[r].at = "save"
    /\ Save(req[r].user, req[r].row)
    /\ IF req[r].kind \in {"link", "botLink"}
       THEN Answer(r)
       ELSE Hold(r, "signin", req[r].user, None)
    /\ UNCHANGED <<tokens, domains, cookie, vouched, owned>>

\* Is the Telegram account another user's?  A failed query counts as no.
Check(r) ==
    /\ req[r].at = "check"
    /\ \/ Goto(r, "link")
       \/ ~(Holders(req[r].ident) \subseteq {req[r].own}) /\ Answer(r)
    /\ UNCHANGED <<tables, cookie, vouched, owned>>

\* One column of a row.
Linked(row, x) == IF x \in Telegram THEN [row EXCEPT !.tg = x] ELSE [row EXCEPT !.ya = x]

\* LinkTelegramAccount and LinkYandexAccount: UPDATE one column.
Link(r) ==
    /\ req[r].at = "link"
    /\ LET u == req[r].own  x == req[r].ident IN
          /\ Unique(u, Linked(users[u], x))
          /\ users' = [users EXCEPT ![u] = Linked(@, x)]
          /\ owned' = owned \union {<<u, x>>}
          /\ CASE x \in Yandex -> Answer(r)
               [] req[r].kind = "link" -> Hold(r, "save", u, Linked(req[r].row, x))
               [] req[r].kind = "botLink" -> Goto(r, "reread")
    /\ UNCHANGED <<tokens, domains, cookie, vouched>>

\* The bot's handler reads the user again after linking.
Reread(r) ==
    /\ req[r].at = "reread"
    /\ Hold(r, "save", req[r].own, Linked(users[req[r].own], req[r].ident))
    /\ UNCHANGED <<tables, cookie, vouched, owned>>

\* UPDATE of one column.
SetTerms(r) ==
    /\ req[r].at = "write"
    /\ users' = [users EXCEPT ![req[r].own].terms = TRUE]
    /\ Answer(r)
    /\ UNCHANGED <<tokens, domains, cookie, vouched, owned>>

\* DELETE and INSERT in one transaction.
ReplaceToken(r) ==
    /\ req[r].at = "write"
    /\ \E s \in Secret : Fresh(s) /\ tokens' = [tokens EXCEPT ![req[r].own] = {s}]
    /\ Answer(r)
    /\ UNCHANGED <<users, domains, cookie, vouched, owned>>

SetSession(b, u) == cookie' = [cookie EXCEPT ![b] = u]
ClearSession(b) == cookie' = [cookie EXCEPT ![b] = None]

\* The response that changes the cookie arrives, or is lost with its connection.
Respond(r) ==
    /\ \/ req[r].at \in {"signin", "signout"} /\ UNCHANGED cookie
       \/ req[r].at = "signin" /\ SetSession(req[r].browser, req[r].user)
       \/ req[r].at = "signout" /\ ClearSession(req[r].browser)
    /\ req' = [req EXCEPT ![r] = Idle]
    /\ UNCHANGED <<tables, vouched, owned>>

-----------------------------------------------------------------------------
(* The handlers.                                                            *)

SignIn(r) ==
    Find(r) \/ CreateUser(r) \/ SavePortrait(r) \/ SaveUser(r) \/ Fail(r) \/ Respond(r)

LinkOrSignIn(r) == ReadSession(r) \/ Link(r) \/ SignIn(r)

TelegramCallback(r) == req[r].kind = "telegram" /\ SignIn(r)

YandexCallback(r) == req[r].kind = "yandex" /\ LinkOrSignIn(r)

YandexTokenAuth(r) == req[r].kind = "yandexToken" /\ LinkOrSignIn(r)

TelegramLinkCallback(r) ==
    /\ req[r].kind = "link"
    /\ ReadSession(r) \/ Check(r) \/ Link(r) \/ SaveUser(r) \/ Fail(r)

AcceptTerms(r) ==
    req[r].kind = "terms" /\ (ReadSession(r) \/ SetTerms(r) \/ Fail(r))

RegenerateToken(r) ==
    req[r].kind = "token" /\ (ReadSession(r) \/ ReplaceToken(r) \/ Fail(r))

Logout(r) == req[r].kind = "logout" /\ Respond(r)

\* The two below are entered by the poll of a browser (module Login).
handleTelegramLoginFromBot(r) == req[r].kind = "botLogin" /\ SignIn(r)

handleTelegramLinkFromBot(r) ==
    /\ req[r].kind = "botLink"
    /\ Check(r) \/ Link(r) \/ Reread(r) \/ SaveUser(r) \/ Fail(r)

\* The process dies with its requests, and starts again on the same database.
\* Without configured keys it no longer decodes the cookies it made.
Crash ==
    /\ req' = [r \in Request |-> Idle]
    /\ cookie' \in {cookie, [b \in Browser |-> None]}
    /\ UNCHANGED <<tables, vouched, owned>>

Handle(r) ==
    \/ TelegramCallback(r) \/ YandexCallback(r) \/ YandexTokenAuth(r)
    \/ TelegramLinkCallback(r) \/ AcceptTerms(r) \/ RegenerateToken(r) \/ Logout(r)

Next ==
    \/ \E b \in Browser, r \in Request : Send(b, r)
    \/ \E r \in Request : Handle(r)
    \/ Crash

Spec == Init /\ [][Next]_accountVars

-----------------------------------------------------------------------------
(* Properties.                                                              *)

\* Types of the tables, the cookies and the requests.
TypeOK ==
    /\ users \in [User -> Row \union {None}]
    /\ tokens \in [User -> SUBSET Secret]
    /\ domains \in [User -> {0, DomainsPerUser}]
    /\ cookie \in [Browser -> User \union {None}]
    /\ req \in [Request -> Task]
    /\ vouched \subseteq Browser \X Identity
    /\ owned \subseteq User \X Identity

\* A browser is signed in only as a user that was created for, or linked to, an
\* identity this browser has proved: no interleaving of find, create, link and
\* whole-row saves hands the session of one account to another's owner.  The
\* accounts that an answer without an id was taken for are shared by all who
\* get such an answer, and no others are.
SessionsAreVouched ==
    \A b \in Browser : cookie[b] # None =>
        \/ \E x \in Identity : <<b, x>> \in vouched /\ <<cookie[b], x>> \in owned
        \/ <<cookie[b], Blank>> \in owned

\* Two first sign-ins, a linking and a save of an old row, at once: an identity
\* is never left in two accounts (models.go, uniqueIndex).
OneAccountPerIdentity ==
    \A x \in Identity, u, v \in User :
        Has(users[u], x) /\ Has(users[v], x) => u = v

\* A user exists with one live token, no one else's, and all the domains, or
\* not at all, wherever a registration or a replacement of the token stops.
AccountsComplete ==
    \A u \in User :
        IF u \in Rows
        THEN /\ domains[u] = DomainsPerUser
             /\ \E s \in Secret : tokens[u] = {s}
             /\ \A v \in User \ {u} : tokens[u] \intersect tokens[v] = {}
        ELSE tokens[u] = {} /\ domains[u] = 0

\* models.go says of TermsAcceptedAt "nil if terms not yet accepted": what was
\* accepted stays accepted.  The code violates it: a sign-in that read the row
\* before the terms were accepted saves the whole row after.
AcceptedTermsStay ==
    [][\A u \in Rows : users[u].terms => users'[u].terms]_accountVars

=============================================================================
