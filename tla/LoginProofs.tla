----------------------------- MODULE LoginProofs -----------------------------
(***************************************************************************)
(* Machine-checked facts about the accounts and about the bot login, for    *)
(* any users, identities, browsers, requests in progress and updates.       *)
(***************************************************************************)
EXTENDS Login, TLAPS

USE IdentityAssumption, RowAssumption, DomainsAssumption, FormAssumption
USE DEF Identity

\* The record in memory holds only identities that are the user's.
HoldsOwn(q) ==
    /\ q.user \in Rows
    /\ q.row \in Row
    /\ \A x \in Identity : Has(q.row, x) => <<q.user, x>> \in owned

Linking == {"link", "botLink"}

\* What a request knows, by the place where it stands.
TaskInv(q) ==
    /\ q.own # None => q.own \in Rows
    /\ q.ident # None => q.ident = Blank \/ <<q.browser, q.ident>> \in vouched
    /\ q.ident # None /\ q.kind \in Linking => q.ident \in Telegram
    /\ q.at = "session" /\ q.kind \in Linking => q.ident # None
    /\ q.at \in {"find", "create"} => q.ident # None /\ q.kind \notin Linking
    /\ q.at \in {"check", "link", "reread", "write"} => q.own # None
    /\ q.at \in {"check", "link", "reread"} => q.ident # None
    /\ q.at \in {"check", "reread"} => q.kind \in Linking
    /\ q.at = "link" /\ q.ident \in Telegram => q.kind \in Linking
    /\ q.at = "reread" => <<q.own, q.ident>> \in owned
    /\ q.at \in {"check", "link"} /\ q.kind = "link" => q.user = q.own /\ HoldsOwn(q)
    /\ q.at \in {"portrait", "save"} => HoldsOwn(q)
    /\ q.at \in {"portrait", "signin"} \/ (q.at = "save" /\ q.kind \notin Linking) =>
          q.user \in Rows /\ q.ident # None /\ <<q.user, q.ident>> \in owned

RowsOwned ==
    \A u \in User, x \in Identity : Has(users[u], x) => <<u, x>> \in owned

CookiesLead == \A b \in Browser : cookie[b] # None => cookie[b] \in Rows

AccountInv ==
    /\ TypeOK
    /\ RowsOwned
    /\ OneAccountPerIdentity
    /\ AccountsComplete
    /\ SessionsAreVouched
    /\ CookiesLead
    /\ \A r \in Request : TaskInv(req[r])

-----------------------------------------------------------------------------
(* The tables only gain: rows, what is vouched for and what is owned.       *)

Grows == /\ Rows \subseteq Rows'
         /\ vouched \subseteq vouched' /\ owned \subseteq owned'

LEMMA TaskStays ==
    ASSUME NEW q, TaskInv(q), Grows
    PROVE  TaskInv(q)'
BY DEF TaskInv, Grows, HoldsOwn

\* A request that is over, or has not begun, knows nothing.
LEMMA IdleTask == Idle \in Task /\ TaskInv(Idle)
<1> DEFINE i == Idle
<1>1. /\ i.at = "idle" /\ i.kind = "logout" /\ i.browser = None /\ i.own = None
      /\ i.ident = None /\ i.user = None /\ i.row = None
  BY DEF Idle
<1>2. i \in Task
  BY DEF Idle, Task, Place, Kind, Forms
<1>3. TaskInv(i)
  <2> HIDE DEF i
  <2> QED BY <1>1 DEF TaskInv, Linking
<1> QED BY <1>2, <1>3

\* One request moves, and the tables gain.
LEMMA RequestMoves ==
    ASSUME req \in [Request -> Task], \A r \in Request : TaskInv(req[r]),
           NEW r \in Request, NEW t \in Task, req' = [req EXCEPT ![r] = t],
           Grows, TaskInv(t)'
    PROVE  req' \in [Request -> Task] /\ \A p \in Request : TaskInv(req[p])'
<1>1. req' \in [Request -> Task]
  OBVIOUS
<1>2. ASSUME NEW p \in Request PROVE TaskInv(req[p])'
  <2>1. CASE p = r
    <3>1. req'[p] = t
      BY <2>1
    <3> QED BY <3>1 DEF TaskInv, HoldsOwn
  <2>2. CASE p # r
    <3>1. req'[p] = req[p]
      BY <2>2
    <3> QED BY <3>1 DEF TaskInv, Grows, HoldsOwn
  <2> QED BY <2>1, <2>2
<1> QED BY <1>1, <1>2

\* What a request has from its beginning.
Keeps(t, q) == /\ t.kind = q.kind /\ t.browser = q.browser
               /\ t.own = q.own /\ t.ident = q.ident

\* What becomes of the record of a request that goes on, with or without a
\* record in memory, or that is only left to answer.
LEMMA GotoTask ==
    ASSUME req \in [Request -> Task], NEW r \in Request, NEW p \in Place, Goto(r, p)
    PROVE  \E t \in Task :
              /\ req' = [req EXCEPT ![r] = t]
              /\ t.at = p /\ Keeps(t, req[r])
              /\ t.user = req[r].user /\ t.row = req[r].row
<1> DEFINE t == [req[r] EXCEPT !.at = p]
<1>1. t \in Task
  BY DEF Task
<1>2. req' = [req EXCEPT ![r] = t]
  BY DEF Goto
<1>3. /\ t.at = p /\ Keeps(t, req[r])
      /\ t.user = req[r].user /\ t.row = req[r].row
  BY DEF Task, Keeps
<1> QED BY <1>1, <1>2, <1>3

LEMMA HoldTask ==
    ASSUME req \in [Request -> Task], NEW r \in Request, NEW p \in Place,
           NEW u \in User \union {None}, NEW row \in Row \union {None}, Hold(r, p, u, row)
    PROVE  \E t \in Task :
              /\ req' = [req EXCEPT ![r] = t]
              /\ t.at = p /\ Keeps(t, req[r])
              /\ t.user = u /\ t.row = row
<1> DEFINE t == [[[req[r] EXCEPT !.at = p] EXCEPT !.user = u] EXCEPT !.row = row]
<1>1. t \in Task
  BY DEF Task
<1>2. req' = [req EXCEPT ![r] = t]
  BY DEF Hold
<1>3. /\ t.at = p /\ Keeps(t, req[r])
      /\ t.user = u /\ t.row = row
  BY DEF Task, Keeps
<1> QED BY <1>1, <1>2, <1>3

LEMMA AnswerMove ==
    ASSUME req \in [Request -> Task], NEW r \in Request, Answer(r)
    PROVE  \E t \in Task : req' = [req EXCEPT ![r] = t] /\ TaskInv(t)
BY IdleTask DEF Answer

\* A step that leaves the tables and the cookies alone.
LEMMA QuietStep ==
    ASSUME AccountInv, NEW r \in Request, NEW t \in Task, TaskInv(t)',
           req' = [req EXCEPT ![r] = t], UNCHANGED <<tables, cookie, owned>>,
           vouched \subseteq vouched', vouched' \subseteq Browser \X Identity
    PROVE  AccountInv'
<1>1. Grows
  BY DEF Grows, Rows, tables
<1>2. req' \in [Request -> Task] /\ \A p \in Request : TaskInv(req[p])'
  BY <1>1, RequestMoves DEF AccountInv, TypeOK
<1>3. TypeOK'
  BY <1>2 DEF AccountInv, TypeOK, tables
<1>4. RowsOwned' /\ OneAccountPerIdentity' /\ AccountsComplete' /\ CookiesLead'
  BY DEF AccountInv, RowsOwned, OneAccountPerIdentity, AccountsComplete, CookiesLead,
         Rows, Has, tables
<1>5. SessionsAreVouched'
  BY DEF AccountInv, SessionsAreVouched
<1> QED BY <1>2, <1>3, <1>4, <1>5 DEF AccountInv

-----------------------------------------------------------------------------
(* The steps of a request.                                                  *)

LEMMA ReadSessionStep ==
    ASSUME AccountInv, NEW r \in Request, ReadSession(r) PROVE AccountInv'
<1> USE DEF AccountInv, TypeOK
<1> DEFINE q == req[r]
<1>0. q \in Task /\ TaskInv(q) /\ Grows /\ q.at = "session"
  BY DEF ReadSession, Grows, Rows, tables
<1>1. CASE q.ident \in Yandex /\ req' = [req EXCEPT ![r].at = "find", ![r].own = None]
  <2> DEFINE f == [[q EXCEPT !.at = "find"] EXCEPT !.own = None]
  <2>1. PICK t \in Task :
              /\ req' = [req EXCEPT ![r] = t]
              /\ t.at = "find" /\ t.own = None
              /\ t.kind = q.kind /\ t.browser = q.browser /\ t.ident = q.ident
    <3>1. f \in Task
      BY <1>0 DEF Task, Place
    <3>2. req' = [req EXCEPT ![r] = f]
      BY <1>1
    <3>3. /\ f.at = "find" /\ f.own = None
          /\ f.kind = q.kind /\ f.browser = q.browser /\ f.ident = q.ident
      BY <1>0 DEF Task
    <3> QED BY <3>1, <3>2, <3>3
  <2>2. TaskInv(t)
    BY <1>0, <1>1, <2>1 DEF TaskInv, Linking
  <2> QED BY <1>0, <2>1, <2>2, TaskStays, QuietStep DEF ReadSession
<1>2. CASE Answer(r)
  BY <1>0, <1>2, AnswerMove, TaskStays, QuietStep DEF ReadSession
<1>3. CASE q.own # None /\ q.ident \in Yandex /\ Goto(r, "link")
  <2>1. PICK t \in Task :
              /\ req' = [req EXCEPT ![r] = t]
              /\ t.at = "link" /\ Keeps(t, q)
    BY <1>3, GotoTask DEF Place
  <2>2. TaskInv(t)
    BY <1>0, <1>3, <2>1 DEF TaskInv, Linking, Keeps
  <2> QED BY <1>0, <2>1, <2>2, TaskStays, QuietStep DEF ReadSession
<1>4. CASE q.own # None /\ q.kind = "link" /\ Hold(r, "check", q.own, users[q.own])
  <2>1. q.own \in User /\ users[q.own] \in Row
    BY <1>0, <1>4 DEF TaskInv, Rows
  <2>2. PICK t \in Task :
              /\ req' = [req EXCEPT ![r] = t]
              /\ t.at = "check" /\ Keeps(t, q)
              /\ t.user = q.own /\ t.row = users[q.own]
    BY <1>4, <2>1, HoldTask DEF Place
  <2>3. HoldsOwn(t)
    BY <1>0, <1>4, <2>1, <2>2 DEF HoldsOwn, RowsOwned, TaskInv
  <2>4. TaskInv(t)
    BY <1>0, <1>4, <2>2, <2>3 DEF TaskInv, Linking, Keeps
  <2> QED BY <1>0, <2>2, <2>4, TaskStays, QuietStep DEF ReadSession
<1>5. CASE q.own # None /\ q.kind \in {"terms", "token"} /\ Goto(r, "write")
  <2>1. PICK t \in Task :
              /\ req' = [req EXCEPT ![r] = t]
              /\ t.at = "write" /\ Keeps(t, q)
    BY <1>5, GotoTask DEF Place
  <2>2. TaskInv(t)
    BY <1>0, <1>5, <2>1 DEF TaskInv, Linking, Keeps
  <2> QED BY <1>0, <2>1, <2>2, TaskStays, QuietStep DEF ReadSession
<1> QED BY <1>1, <1>2, <1>3, <1>4, <1>5 DEF ReadSession

LEMMA FailStep ==
    ASSUME AccountInv, NEW r \in Request, Fail(r) PROVE AccountInv'
<1>1. Grows
  BY DEF Fail, Grows, Rows, tables
<1>2. PICK t \in Task : req' = [req EXCEPT ![r] = t] /\ TaskInv(t)
  BY AnswerMove DEF Fail, AccountInv, TypeOK
<1>3. vouched' \subseteq Browser \X Identity
  BY DEF Fail, AccountInv, TypeOK
<1> QED BY <1>1, <1>2, <1>3, TaskStays, QuietStep DEF Fail

LEMMA FindStep ==
    ASSUME AccountInv, NEW r \in Request, Find(r) PROVE AccountInv'
<1> USE DEF AccountInv, TypeOK
<1> DEFINE q == req[r]
<1>0. q \in Task /\ TaskInv(q) /\ Grows
  BY DEF Find, Grows, Rows, tables
<1>1. CASE Goto(r, "create")
  <2>1. PICK t \in Task :
              req' = [req EXCEPT ![r] = t] /\ t.at = "create" /\ Keeps(t, q)
    BY <1>1, GotoTask DEF Place
  <2>2. TaskInv(t)
    BY <1>0, <2>1 DEF TaskInv, Linking, Keeps, Find
  <2> QED BY <1>0, <2>1, <2>2, TaskStays, QuietStep DEF Find
<1>2. ASSUME NEW u \in Holders(q.ident), Hold(r, "save", u, users[u]) PROVE AccountInv'
  <2>1. u \in User /\ users[u] \in Row /\ Has(users[u], q.ident)
    BY <1>2 DEF Holders, Has
  <2>2. PICK t \in Task :
              /\ req' = [req EXCEPT ![r] = t] /\ t.at = "save" /\ Keeps(t, q)
              /\ t.user = u /\ t.row = users[u]
    BY <1>2, <2>1, HoldTask DEF Place
  <2>3. HoldsOwn(t)
    BY <2>1, <2>2 DEF HoldsOwn, RowsOwned, Rows
  <2>4. q.ident \in Identity /\ q.kind \notin Linking
    BY <1>0 DEF TaskInv, Task, Find
  <2>5. <<u, q.ident>> \in owned
    BY <2>1, <2>4 DEF RowsOwned
  <2>6. TaskInv(t)
    BY <1>0, <2>2, <2>3, <2>4, <2>5 DEF TaskInv, Keeps, HoldsOwn
  <2> QED BY <1>0, <2>2, <2>6, TaskStays, QuietStep DEF Find
<1> QED BY <1>1, <1>2 DEF Find

LEMMA CheckStep ==
    ASSUME AccountInv, NEW r \in Request, Check(r) PROVE AccountInv'
<1> USE DEF AccountInv, TypeOK
<1> DEFINE q == req[r]
<1>0. q \in Task /\ TaskInv(q) /\ Grows
  BY DEF Check, Grows, Rows, tables
<1>1. CASE Goto(r, "link")
  <2>1. PICK t \in Task :
              /\ req' = [req EXCEPT ![r] = t] /\ t.at = "link" /\ Keeps(t, q)
              /\ t.user = q.user /\ t.row = q.row
    BY <1>1, GotoTask DEF Place
  <2>2. TaskInv(t)
    BY <1>0, <2>1 DEF TaskInv, HoldsOwn, Keeps, Check
  <2> QED BY <1>0, <2>1, <2>2, TaskStays, QuietStep DEF Check
<1>2. CASE Answer(r)
  BY <1>0, <1>2, AnswerMove, TaskStays, QuietStep DEF Check
<1> QED BY <1>1, <1>2 DEF Check

\* What linking an identity does to a row.
LEMMA LinkedRow ==
    ASSUME NEW row \in Row, NEW x \in Identity
    PROVE  /\ Linked(row, x) \in Row /\ Has(Linked(row, x), x)
           /\ \A y \in Identity : Has(Linked(row, x), y) => y = x \/ Has(row, y)
<1>1. CASE x \in Telegram
  <2>1. Linked(row, x) = [row EXCEPT !.tg = x]
    BY <1>1 DEF Linked
  <2> QED BY <1>1, <2>1 DEF Row, Has
<1>2. CASE x \notin Telegram
  <2>1. Linked(row, x) = [row EXCEPT !.ya = x] /\ x \in Yandex
    BY <1>2 DEF Linked
  <2> QED BY <2>1 DEF Row, Has
<1> QED BY <1>1, <1>2

LEMMA RereadStep ==
    ASSUME AccountInv, NEW r \in Request, Reread(r) PROVE AccountInv'
<1> USE DEF AccountInv, TypeOK
<1> DEFINE q == req[r]  row == Linked(users[q.own], q.ident)
<1>0. q \in Task /\ TaskInv(q) /\ Grows
  BY DEF Reread, Grows, Rows, tables
<1>1. q.own \in Rows /\ users[q.own] \in Row /\ q.ident \in Identity
  BY <1>0 DEF TaskInv, Task, Rows, Reread
<1>2. row \in Row
  BY <1>1, LinkedRow
<1>3. PICK t \in Task :
            /\ req' = [req EXCEPT ![r] = t] /\ t.at = "save" /\ Keeps(t, q)
            /\ t.user = q.own /\ t.row = row
  BY <1>1, <1>2, HoldTask DEF Place, Reread, Rows
<1>4. HoldsOwn(t)
  <2>1. <<q.own, q.ident>> \in owned
    BY <1>0 DEF TaskInv, Reread
  <2>2. \A y \in Identity : Has(row, y) => y = q.ident \/ Has(users[q.own], y)
    BY <1>1, LinkedRow
  <2>3. \A y \in Identity : Has(row, y) => <<q.own, y>> \in owned
    BY <1>1, <2>1, <2>2 DEF RowsOwned, Rows
  <2> QED BY <1>1, <1>2, <1>3, <2>3 DEF HoldsOwn
<1>5. TaskInv(t)
  BY <1>0, <1>1, <1>3, <1>4 DEF TaskInv, Keeps, Reread
<1> QED BY <1>0, <1>3, <1>5, TaskStays, QuietStep DEF Reread

\* A step that writes one row: the record of a user, old or new.
LEMMA RowWritten ==
    ASSUME AccountInv, NEW u \in User, NEW row \in Row, Unique(u, row),
           users' = [users EXCEPT ![u] = row],
           \A x \in Identity : Has(row, x) => <<u, x>> \in owned',
           owned \subseteq owned'
    PROVE  /\ users' \in [User -> Row \union {None}]
           /\ Rows' = Rows \union {u}
           /\ RowsOwned' /\ OneAccountPerIdentity'
<1> USE DEF AccountInv, TypeOK
<1>1. users' \in [User -> Row \union {None}]
  OBVIOUS
<1>2. \A v \in User : users'[v] = IF v = u THEN row ELSE users[v]
  OBVIOUS
<1>3. Rows' = Rows \union {u}
  BY <1>2 DEF Rows
<1>4. RowsOwned'
  BY <1>2 DEF RowsOwned, Has
<1>5. ASSUME NEW x \in Identity, NEW v \in User, NEW w \in User,
             Has(users'[v], x), Has(users'[w], x)
      PROVE  v = w
  <2>1. \A z \in User : Has(row, x) /\ Has(users[z], x) => z = u
    BY DEF Unique, Holders
  <2>2. Has(users[v], x) /\ Has(users[w], x) => v = w
    BY DEF OneAccountPerIdentity
  <2> QED BY <1>2, <1>5, <2>1, <2>2
<1>6. OneAccountPerIdentity'
  BY <1>5 DEF OneAccountPerIdentity, Has
<1> QED BY <1>1, <1>3, <1>4, <1>6

\* A step that changes the row of a known user and leaves the cookies alone.
LEMMA KnownRowWritten ==
    ASSUME AccountInv, NEW u \in Rows, NEW row \in Row, Unique(u, row),
           users' = [users EXCEPT ![u] = row],
           \A x \in Identity : Has(row, x) => <<u, x>> \in owned',
           owned \subseteq owned', owned' \subseteq User \X Identity,
           UNCHANGED <<tokens, domains, cookie, vouched>>,
           NEW r \in Request, NEW t \in Task, req' = [req EXCEPT ![r] = t], TaskInv(t)'
    PROVE  AccountInv'
<1>1. u \in User
  BY DEF Rows
<1>2. /\ users' \in [User -> Row \union {None}] /\ Rows' = Rows
      /\ RowsOwned' /\ OneAccountPerIdentity'
  <2>1. Rows \union {u} = Rows
    OBVIOUS
  <2> QED BY <1>1, <2>1, RowWritten
<1>3. Grows
  BY <1>2 DEF Grows
<1>4. req' \in [Request -> Task] /\ \A p \in Request : TaskInv(req[p])'
  BY <1>3, RequestMoves DEF AccountInv, TypeOK
<1>5. TypeOK'
  BY <1>2, <1>4 DEF AccountInv, TypeOK
<1>6. AccountsComplete' /\ CookiesLead'
  BY <1>2 DEF AccountInv, AccountsComplete, CookiesLead
<1>7. SessionsAreVouched'
  BY DEF AccountInv, SessionsAreVouched
<1> QED BY <1>2, <1>4, <1>5, <1>6, <1>7 DEF AccountInv

LEMMA SetTermsStep ==
    ASSUME AccountInv, NEW r \in Request, SetTerms(r) PROVE AccountInv'
<1> USE DEF AccountInv, TypeOK
<1> DEFINE u == req[r].own  row == [users[u] EXCEPT !.terms = TRUE]
<1>1. u \in Rows /\ users[u] \in Row
  BY DEF SetTerms, TaskInv, Rows, Task
<1>2. row \in Row /\ users' = [users EXCEPT ![u] = row]
  BY <1>1 DEF SetTerms, Row
<1>3. \A x \in Identity : Has(row, x) => Has(users[u], x)
  BY <1>1 DEF Has, Row
<1>4. Unique(u, row)
  BY <1>1, <1>3 DEF Unique, Holders, OneAccountPerIdentity, Rows
<1>5. \A x \in Identity : Has(row, x) => <<u, x>> \in owned
  BY <1>1, <1>3 DEF RowsOwned, Rows
<1>6. PICK t \in Task : req' = [req EXCEPT ![r] = t] /\ TaskInv(t)
  BY AnswerMove DEF SetTerms
<1>7. Rows' = Rows
  BY <1>1, <1>2 DEF Rows
<1>8. Grows
  BY <1>7 DEF Grows, SetTerms
<1>9. TaskInv(t)'
  BY <1>6, <1>8, TaskStays
<1> QED
  <2> HIDE DEF row, AccountInv, TypeOK
  <2>1. UNCHANGED <<tokens, domains, cookie, vouched, owned>>
    BY DEF SetTerms
  <2>2. owned \subseteq User \X Identity
    BY DEF AccountInv, TypeOK
  <2> QED BY <1>1, <1>2, <1>4, <1>5, <1>6, <1>9, <2>1, <2>2, KnownRowWritten

\* Saving the whole row in memory, whenever it was read.
LEMMA SaveStep ==
    ASSUME AccountInv, NEW r \in Request, HoldsOwn(req[r]),
           Save(req[r].user, req[r].row),
           UNCHANGED <<tokens, domains, cookie, vouched, owned>>,
           NEW t \in Task, req' = [req EXCEPT ![r] = t], TaskInv(t)
    PROVE  AccountInv'
<1> DEFINE u == req[r].user  row == req[r].row
<1>1. /\ u \in Rows /\ row \in Row /\ Unique(u, row)
      /\ users' = [users EXCEPT ![u] = row]
      /\ \A x \in Identity : Has(row, x) => <<u, x>> \in owned
  BY DEF HoldsOwn, Save
<1>2. Rows \subseteq Rows'
  BY <1>1 DEF Rows, AccountInv, TypeOK
<1>3. TaskInv(t)'
  BY <1>2, TaskStays DEF Grows
<1>4. owned' \subseteq User \X Identity
  BY DEF AccountInv, TypeOK
<1> HIDE DEF u, row
<1> QED BY <1>1, <1>3, <1>4, KnownRowWritten

LEMMA SavePortraitStep ==
    ASSUME AccountInv, NEW r \in Request, SavePortrait(r) PROVE AccountInv'
<1> DEFINE q == req[r]
<1>0. req \in [Request -> Task] /\ q \in Task /\ TaskInv(q) /\ q.at = "portrait"
  BY DEF AccountInv, TypeOK, SavePortrait
<1>1. q.user \in User
  BY <1>0 DEF TaskInv, HoldsOwn, Rows
<1>2. PICK t \in Task :
            /\ req' = [req EXCEPT ![r] = t] /\ t.at = "signin" /\ Keeps(t, q)
            /\ t.user = q.user
  BY <1>0, <1>1, HoldTask DEF SavePortrait, Place
<1>3. TaskInv(t)
  BY <1>0, <1>2 DEF TaskInv, Keeps
<1>4. CASE Save(q.user, q.row)
  BY <1>0, <1>2, <1>3, <1>4, SaveStep DEF SavePortrait, TaskInv
<1>5. CASE UNCHANGED users
  <2>1. Grows /\ UNCHANGED <<tables, cookie, owned, vouched>>
    BY <1>5 DEF Grows, Rows, tables, SavePortrait
  <2> QED BY <1>2, <1>3, <2>1, TaskStays, QuietStep DEF AccountInv, TypeOK
<1> QED BY <1>4, <1>5 DEF SavePortrait

LEMMA SaveUserStep ==
    ASSUME AccountInv, NEW r \in Request, SaveUser(r) PROVE AccountInv'
<1> DEFINE q == req[r]
<1>0. req \in [Request -> Task] /\ q \in Task /\ TaskInv(q) /\ q.at = "save"
  BY DEF AccountInv, TypeOK, SaveUser
<1>1. \E t \in Task : req' = [req EXCEPT ![r] = t] /\ TaskInv(t)
  <2>1. CASE q.kind \in Linking
    BY <1>0, <2>1, AnswerMove DEF SaveUser, Linking
  <2>2. CASE q.kind \notin Linking
    <3>1. q.user \in User
      BY <1>0 DEF TaskInv, HoldsOwn, Rows
    <3>2. PICK t \in Task :
                /\ req' = [req EXCEPT ![r] = t] /\ t.at = "signin" /\ Keeps(t, q)
                /\ t.user = q.user
      BY <1>0, <2>2, <3>1, HoldTask DEF SaveUser, Place, Linking
    <3>3. TaskInv(t)
      BY <1>0, <2>2, <3>2 DEF TaskInv, Keeps
    <3> QED BY <3>2, <3>3
  <2> QED BY <2>1, <2>2
<1> QED BY <1>0, <1>1, SaveStep DEF SaveUser, TaskInv

LEMMA LinkStep ==
    ASSUME AccountInv, NEW r \in Request, Link(r) PROVE AccountInv'
<1> DEFINE q == req[r]  u == q.own  x == q.ident  row == Linked(users[u], x)
<1>0. /\ req \in [Request -> Task] /\ users \in [User -> Row \union {None}]
      /\ q \in Task /\ TaskInv(q) /\ q.at = "link"
  BY DEF AccountInv, TypeOK, Link
<1>1. u \in Rows /\ u \in User /\ users[u] \in Row /\ x \in Identity
  BY <1>0 DEF TaskInv, Rows, Task
<1>2. row \in Row /\ \A y \in Identity : Has(row, y) => y = x \/ Has(users[u], y)
  BY <1>1, LinkedRow
<1>3. Unique(u, row) /\ users' = [users EXCEPT ![u] = row]
  BY <1>0 DEF Link
<1>4. owned' = owned \union {<<u, x>>} /\ owned' \subseteq User \X Identity
  BY <1>1 DEF Link, AccountInv, TypeOK
<1>5. \A y \in Identity : Has(row, y) => <<u, y>> \in owned'
  BY <1>1, <1>2, <1>4 DEF AccountInv, RowsOwned
<1>6. UNCHANGED <<tokens, domains, cookie, vouched>>
  BY DEF Link
<1>7. Rows \subseteq Rows'
  BY <1>0, <1>1, <1>2, <1>3 DEF Rows
<1>8. Grows
  BY <1>4, <1>6, <1>7 DEF Grows
<1>9. \E t \in Task : req' = [req EXCEPT ![r] = t] /\ TaskInv(t)'
  <2>1. CASE x \in Yandex
    <3>1. q.kind \notin Linking
      BY <1>0, <1>1, <2>1 DEF TaskInv
    <3>2. Answer(r)
      BY <2>1, <3>1 DEF Link, Linking
    <3> QED BY <1>0, <1>8, <3>2, AnswerMove, TaskStays
  <2>2. CASE x \in Telegram /\ q.kind = "link"
    <3>1. HoldsOwn(q) /\ q.user = u
      BY <1>0, <2>2 DEF TaskInv
    <3>2. /\ Linked(q.row, x) \in Row
          /\ \A y \in Identity : Has(Linked(q.row, x), y) => y = x \/ Has(q.row, y)
      BY <1>1, <3>1, LinkedRow DEF HoldsOwn
    <3>3. Hold(r, "save", u, Linked(q.row, x))
      BY <2>2 DEF Link
    <3>4. PICK t \in Task :
                /\ req' = [req EXCEPT ![r] = t] /\ t.at = "save" /\ Keeps(t, q)
                /\ t.user = u /\ t.row = Linked(q.row, x)
      BY <1>0, <1>1, <3>2, <3>3, HoldTask DEF Place
    <3>5. HoldsOwn(t)'
      BY <1>1, <1>4, <1>7, <3>1, <3>2, <3>4 DEF HoldsOwn, Has
    <3>6. TaskInv(t)'
      <4>1. t.kind \in Linking
        BY <2>2, <3>4 DEF Linking, Keeps
      <4> QED BY <1>0, <1>1, <1>8, <3>4, <3>5, <4>1 DEF TaskInv, Keeps, Grows
    <3> QED BY <3>4, <3>6
  <2>3. CASE x \in Telegram /\ q.kind = "botLink"
    <3>1. Goto(r, "reread")
      BY <2>3 DEF Link
    <3>2. PICK t \in Task :
                req' = [req EXCEPT ![r] = t] /\ t.at = "reread" /\ Keeps(t, q)
      BY <1>0, <3>1, GotoTask DEF Place
    <3>3. TaskInv(t)'
      BY <1>0, <1>1, <1>4, <1>8, <2>3, <3>2 DEF TaskInv, Keeps, Grows, Linking
    <3> QED BY <3>2, <3>3
  <2> QED BY <1>0, <1>1, <2>1, <2>2, <2>3 DEF TaskInv, Linking
<1> HIDE DEF q, u, x, row
<1> QED BY <1>1, <1>2, <1>3, <1>4, <1>5, <1>6, <1>9, KnownRowWritten

LEMMA NewRowOf ==
    ASSUME NEW x \in Identity
    PROVE  /\ NewRow(x) \in Row /\ Has(NewRow(x), x)
           /\ \A y \in Identity : Has(NewRow(x), y) => y = x
<1> DEFINE row == NewRow(x)
<1>1. /\ row.tg = IF x \in Telegram THEN x ELSE None
      /\ row.ya = IF x \in Yandex THEN x ELSE None
  BY DEF NewRow
<1>2. row \in Row
  BY DEF NewRow, Row
<1> HIDE DEF row
<1>3. row # None /\ \A y \in Identity : y # None
  BY <1>2
<1>4. \A y \in Identity : Has(row, y) => y = x
  BY <1>1, <1>3 DEF Has
<1>5. Has(row, x)
  BY <1>1, <1>3 DEF Has
<1> QED BY <1>2, <1>4, <1>5 DEF row

LEMMA CreateUserStep ==
    ASSUME AccountInv, NEW r \in Request, CreateUser(r) PROVE AccountInv'
<1> DEFINE q == req[r]  x == q.ident  row == NewRow(x)
<1>0. /\ req \in [Request -> Task] /\ q \in Task /\ TaskInv(q)
      /\ q.at = "create" /\ x \in Identity /\ q.kind \notin Linking
  BY DEF AccountInv, TypeOK, CreateUser, TaskInv, Task
<1>1. PICK u \in User \ Rows, s \in Secret :
          /\ Fresh(s)
          /\ Unique(u, row)
          /\ users' = [users EXCEPT ![u] = row]
          /\ tokens' = [tokens EXCEPT ![u] = {s}]
          /\ domains' = [domains EXCEPT ![u] = DomainsPerUser]
          /\ owned' = owned \union {<<u, x>>}
          /\ Hold(r, "portrait", u, row) \/ Hold(r, "signin", u, None)
  BY DEF CreateUser
<1>2. row \in Row /\ \A y \in Identity : Has(row, y) => y = x
  BY <1>0, NewRowOf
<1>3. owned \subseteq owned' /\ \A y \in Identity : Has(row, y) => <<u, y>> \in owned'
  BY <1>1, <1>2
<1> HIDE DEF row
<1>4. /\ users' \in [User -> Row \union {None}] /\ Rows' = Rows \union {u}
      /\ RowsOwned' /\ OneAccountPerIdentity'
  BY <1>1, <1>2, <1>3, RowWritten
<1>5. UNCHANGED <<cookie, vouched>>
  BY DEF CreateUser
<1>6. Grows
  BY <1>3, <1>4, <1>5 DEF Grows
<1>7. \E t \in Task : req' = [req EXCEPT ![r] = t] /\ TaskInv(t)'
  <2>1. PICK t \in Task :
              /\ req' = [req EXCEPT ![r] = t] /\ Keeps(t, q) /\ t.user = u
              /\ t.at \in {"portrait", "signin"}
              /\ t.at = "portrait" => t.row = row
    <3>1. CASE Hold(r, "portrait", u, row)
      BY <1>0, <1>2, <3>1, HoldTask DEF Place
    <3>2. CASE Hold(r, "signin", u, None)
      BY <1>0, <3>2, HoldTask DEF Place
    <3> QED BY <1>1, <3>1, <3>2
  <2>2. u \in Rows' /\ <<u, x>> \in owned'
    BY <1>1, <1>4
  <2>3. t.at = "portrait" => HoldsOwn(t)'
    BY <1>2, <1>3, <2>1, <2>2 DEF HoldsOwn, Has
  <2>4. TaskInv(t)'
    BY <1>0, <1>6, <2>1, <2>2, <2>3 DEF TaskInv, Keeps, Grows
  <2> QED BY <2>1, <2>4
<1>8. req' \in [Request -> Task] /\ \A p \in Request : TaskInv(req[p])'
  BY <1>0, <1>6, <1>7, RequestMoves DEF AccountInv
<1>9. TypeOK'
  BY <1>0, <1>1, <1>4, <1>5, <1>8 DEF AccountInv, TypeOK
<1>10. AccountsComplete'
  <2>1. tokens \in [User -> SUBSET Secret] /\ domains \in [User -> {0, DomainsPerUser}]
    BY DEF AccountInv, TypeOK
  <2>2. \A v \in User : tokens'[v] = IF v = u THEN {s} ELSE tokens[v]
    BY <1>1, <2>1
  <2>3. \A v \in User : domains'[v] = IF v = u THEN DomainsPerUser ELSE domains[v]
    BY <1>1, <2>1
  <2>4. \A v \in User : s \notin tokens[v]
    BY <1>1 DEF Fresh
  <2> QED BY <1>1, <1>4, <2>2, <2>3, <2>4 DEF AccountInv, AccountsComplete
<1>11. SessionsAreVouched' /\ CookiesLead'
  BY <1>4, <1>5, <1>6 DEF AccountInv, SessionsAreVouched, CookiesLead, Grows
<1> QED BY <1>4, <1>8, <1>9, <1>10, <1>11 DEF AccountInv

LEMMA ReplaceTokenStep ==
    ASSUME AccountInv, NEW r \in Request, ReplaceToken(r) PROVE AccountInv'
<1> DEFINE u == req[r].own
<1>0. u \in Rows /\ u \in User /\ req \in [Request -> Task]
  BY DEF AccountInv, TypeOK, ReplaceToken, TaskInv, Rows
<1>1. PICK s \in Secret : Fresh(s) /\ tokens' = [tokens EXCEPT ![u] = {s}]
  BY DEF ReplaceToken
<1>2. PICK t \in Task : req' = [req EXCEPT ![r] = t] /\ TaskInv(t)
  BY <1>0, AnswerMove DEF ReplaceToken
<1>3. Grows /\ UNCHANGED <<users, domains, cookie, vouched, owned>>
  BY DEF Grows, Rows, ReplaceToken
<1>4. req' \in [Request -> Task] /\ \A p \in Request : TaskInv(req[p])'
  BY <1>0, <1>2, <1>3, TaskStays, RequestMoves DEF AccountInv
<1>5. TypeOK'
  BY <1>0, <1>1, <1>3, <1>4 DEF AccountInv, TypeOK
<1>6. AccountsComplete'
  <2>1. \A v \in User : tokens'[v] = IF v = u THEN {s} ELSE tokens[v]
    BY <1>1 DEF AccountInv, TypeOK
  <2>2. \A v \in User : s \notin tokens[v]
    BY <1>1 DEF Fresh
  <2>3. Rows' = Rows
    BY <1>3 DEF Rows
  <2> QED BY <1>0, <1>3, <2>1, <2>2, <2>3 DEF AccountInv, AccountsComplete
<1>7. RowsOwned' /\ OneAccountPerIdentity' /\ CookiesLead' /\ SessionsAreVouched'
  BY <1>3 DEF AccountInv, RowsOwned, OneAccountPerIdentity, CookiesLead,
              SessionsAreVouched, Rows, Has
<1> QED BY <1>4, <1>5, <1>6, <1>7 DEF AccountInv

LEMMA RespondStep ==
    ASSUME AccountInv, NEW r \in Request, Respond(r) PROVE AccountInv'
<1> DEFINE q == req[r]
<1>0. /\ req \in [Request -> Task] /\ q \in Task /\ TaskInv(q)
      /\ cookie \in [Browser -> User \union {None}]
  BY DEF AccountInv, TypeOK, Respond
<1>1. Grows /\ UNCHANGED <<tables, vouched, owned>> /\ req' = [req EXCEPT ![r] = Idle]
  BY DEF Grows, Rows, Respond, tables
<1>2. req' \in [Request -> Task] /\ \A p \in Request : TaskInv(req[p])'
  BY <1>0, <1>1, IdleTask, TaskStays, RequestMoves DEF AccountInv
<1>3. ASSUME NEW b \in Browser, cookie'[b] # cookie[b], cookie'[b] # None
      PROVE  /\ cookie'[b] \in Rows
             /\ \/ \E x \in Identity : <<b, x>> \in vouched /\ <<cookie'[b], x>> \in owned
                \/ <<cookie'[b], Blank>> \in owned
  <2>1. q.at = "signin" /\ SetSession(q.browser, q.user)
    BY <1>0, <1>3 DEF Respond, ClearSession
  <2>2. b = q.browser /\ cookie'[b] = q.user
    BY <1>0, <1>3, <2>1 DEF SetSession
  <2>3. /\ q.user \in Rows /\ q.ident \in Identity
        /\ <<q.user, q.ident>> \in owned
        /\ q.ident = Blank \/ <<q.browser, q.ident>> \in vouched
    BY <1>0, <2>1 DEF TaskInv, Task
  <2> QED BY <2>2, <2>3
<1>4. cookie' \in [Browser -> User \union {None}]
  <2>1. q.user \in User \union {None}
    BY <1>0 DEF Task
  <2> QED BY <1>0, <2>1 DEF Respond, SetSession, ClearSession
<1>5. SessionsAreVouched' /\ CookiesLead'
  BY <1>1, <1>3 DEF AccountInv, SessionsAreVouched, CookiesLead, tables, Rows
<1>6. TypeOK' /\ RowsOwned' /\ OneAccountPerIdentity' /\ AccountsComplete'
  BY <1>1, <1>2, <1>4 DEF AccountInv, TypeOK, RowsOwned, OneAccountPerIdentity,
                          AccountsComplete, tables, Rows, Has
<1> QED BY <1>2, <1>5, <1>6 DEF AccountInv

LEMMA CrashStep == ASSUME AccountInv, Crash PROVE AccountInv'
<1>1. Grows /\ UNCHANGED <<tables, vouched, owned>>
  BY DEF Grows, Rows, Crash, tables
<1>2. req' \in [Request -> Task] /\ \A p \in Request : TaskInv(req[p])'
  <2>1. TaskInv(Idle)'
    BY <1>1, IdleTask, TaskStays
  <2>2. req' = [r \in Request |-> Idle]
    BY DEF Crash
  <2>3. ASSUME NEW p \in Request PROVE TaskInv(req[p])'
    <3>1. req'[p] = Idle
      BY <2>2
    <3> QED BY <2>1, <3>1 DEF TaskInv, HoldsOwn
  <2> QED BY <2>2, <2>3, IdleTask
<1>3. cookie' \in [Browser -> User \union {None}]
  BY DEF Crash, AccountInv, TypeOK
<1>4. \A b \in Browser : cookie'[b] \in {cookie[b], None}
  BY DEF Crash
<1>5. SessionsAreVouched' /\ CookiesLead'
  BY <1>1, <1>4 DEF AccountInv, SessionsAreVouched, CookiesLead, tables, Rows
<1>6. TypeOK' /\ RowsOwned' /\ OneAccountPerIdentity' /\ AccountsComplete'
  BY <1>1, <1>2, <1>3 DEF AccountInv, TypeOK, RowsOwned, OneAccountPerIdentity,
                          AccountsComplete, tables, Rows, Has
<1> QED BY <1>2, <1>5, <1>6 DEF AccountInv

LEMMA SendStep ==
    ASSUME AccountInv, NEW b \in Browser, NEW r \in Request, Send(b, r) PROVE AccountInv'
<1> USE DEF AccountInv, TypeOK
<1>1. PICK kind \in Forms, x \in Identity \union {None} :
        /\ Names(kind, x)
        /\ req' = [req EXCEPT ![r] =
              [Idle EXCEPT !.at = Entrance(kind), !.kind = kind, !.browser = b,
                           !.own = Presented(b, kind), !.ident = x]]
        /\ vouched' = vouched \union ({b} \X ({x} \ {None, Blank}))
  BY DEF Send
<1>2. kind \in Forms /\ Entrance(kind) \in {"find", "signout", "session"}
  BY DEF Entrance
<1>3. Presented(b, kind) \in {cookie[b], None}
  BY DEF Presented
<1>4. PICK t \in Task :
        /\ req' = [req EXCEPT ![r] = t]
        /\ t.at = Entrance(kind) /\ t.kind = kind /\ t.browser = b
        /\ t.own = Presented(b, kind) /\ t.ident = x
  <2> DEFINE t == [Idle EXCEPT !.at = Entrance(kind), !.kind = kind, !.browser = b,
                               !.own = Presented(b, kind), !.ident = x]
  <2>1. /\ t.at = Entrance(kind) /\ t.kind = kind /\ t.browser = b
        /\ t.own = Presented(b, kind) /\ t.ident = x
    BY DEF Idle
  <2>2. t \in Task
    BY <1>2, <1>3 DEF Idle, Task, Place, Kind
  <2>3. req' = [req EXCEPT ![r] = t]
    BY <1>1
  <2> QED BY <2>1, <2>2, <2>3
<1>5. Grows /\ vouched' \subseteq Browser \X Identity /\ UNCHANGED <<tables, cookie, owned>>
  BY <1>1 DEF Send, Grows, Rows, tables
<1>6. TaskInv(t)'
  <2>1. t.own # None => t.own \in Rows'
    BY <1>4, <1>3, <1>5 DEF CookiesLead, Grows
  <2>2. x # None => x = Blank \/ <<b, x>> \in vouched'
    BY <1>1
  <2>3. x # None /\ kind \in Linking => x \in Telegram
    BY <1>1, <1>2 DEF Names, Linking, Forms
  <2>4. Entrance(kind) = "find" => kind = "telegram" /\ x # None
    BY <1>1, <1>2 DEF Entrance, Names, Forms
  <2>5. kind \in Linking => x # None
    BY <1>1, <1>2 DEF Names, Linking, Forms
  <2> QED BY <1>2, <1>4, <2>1, <2>2, <2>3, <2>4, <2>5 DEF TaskInv, Linking
<1> HIDE DEF AccountInv, TypeOK
<1> QED BY <1>4, <1>5, <1>6, QuietStep DEF Grows

\* The bot's handlers, and every handler of the dashboard.
LEMMA SignInStep ==
    ASSUME AccountInv, NEW r \in Request, SignIn(r) PROVE AccountInv'
BY FindStep, CreateUserStep, SavePortraitStep, SaveUserStep, FailStep, RespondStep
   DEF SignIn

LEMMA BotStep ==
    ASSUME AccountInv, NEW r \in Request,
           handleTelegramLoginFromBot(r) \/ handleTelegramLinkFromBot(r)
    PROVE  AccountInv'
BY SignInStep, CheckStep, LinkStep, RereadStep, SaveUserStep, FailStep
   DEF handleTelegramLoginFromBot, handleTelegramLinkFromBot

LEMMA HandleStep ==
    ASSUME AccountInv, NEW r \in Request, Handle(r) PROVE AccountInv'
<1>1. LinkOrSignIn(r) => AccountInv'
  BY ReadSessionStep, LinkStep, SignInStep DEF LinkOrSignIn
<1>2. TelegramLinkCallback(r) => AccountInv'
  BY ReadSessionStep, CheckStep, LinkStep, SaveUserStep, FailStep
     DEF TelegramLinkCallback
<1>3. AcceptTerms(r) \/ RegenerateToken(r) \/ Logout(r) => AccountInv'
  BY ReadSessionStep, SetTermsStep, ReplaceTokenStep, FailStep, RespondStep
     DEF AcceptTerms, RegenerateToken, Logout
<1> QED BY <1>1, <1>2, <1>3, SignInStep
        DEF Handle, TelegramCallback, YandexCallback, YandexTokenAuth

-----------------------------------------------------------------------------
(* The accounts by themselves.                                              *)

LEMMA AccountsStart == Init => AccountInv
<1> SUFFICES ASSUME Init PROVE AccountInv
  OBVIOUS
<1>1. TypeOK /\ \A r \in Request : req[r] = Idle
  BY IdleTask DEF Init, TypeOK
<1>2. RowsOwned /\ OneAccountPerIdentity /\ AccountsComplete
  BY DEF Init, RowsOwned, OneAccountPerIdentity, AccountsComplete, Has, Rows
<1>3. SessionsAreVouched /\ CookiesLead
  BY DEF Init, SessionsAreVouched, CookiesLead
<1> QED BY <1>1, <1>2, <1>3, IdleTask DEF AccountInv

LEMMA AccountsKeep == AccountInv /\ [Next]_accountVars => AccountInv'
<1> SUFFICES ASSUME AccountInv, [Next]_accountVars PROVE AccountInv'
  OBVIOUS
<1>1. CASE UNCHANGED accountVars
  <2>1. \A r \in Request : TaskInv(req[r])'
    BY <1>1 DEF accountVars, AccountInv, TaskInv, HoldsOwn, Rows, Has
  <2>2. TypeOK' /\ RowsOwned' /\ OneAccountPerIdentity'
    BY <1>1 DEF accountVars, AccountInv, TypeOK, RowsOwned, OneAccountPerIdentity, Rows, Has
  <2>3. AccountsComplete' /\ SessionsAreVouched' /\ CookiesLead'
    BY <1>1 DEF accountVars, AccountInv, AccountsComplete, SessionsAreVouched, CookiesLead, Rows
  <2> QED BY <2>1, <2>2, <2>3 DEF AccountInv
<1>2. CASE Next
  BY <1>2, SendStep, HandleStep, CrashStep DEF Next
<1> QED BY <1>1, <1>2

LEMMA AccountsInvariant == Spec => []AccountInv
BY AccountsStart, AccountsKeep, PTL DEF Spec

\* Every table, cookie and request is well typed in every reachable state.
THEOREM AccountsTyped == Spec => []TypeOK
BY AccountsInvariant, PTL DEF AccountInv

\* No interleaving of sign-ins, links and saves signs a browser in as a user
\* whose identity it has not proved, but for the accounts that an answer without
\* an id was taken for.
THEOREM SessionsAreVouchedHolds == Spec => []SessionsAreVouched
BY AccountsInvariant, PTL DEF AccountInv

\* An identity is in one account at most.
THEOREM OneAccountHolds == Spec => []OneAccountPerIdentity
BY AccountsInvariant, PTL DEF AccountInv

\* A user is there with one token of its own and all the domains, or not at all.
THEOREM AccountsCompleteHolds == Spec => []AccountsComplete
BY AccountsInvariant, PTL DEF AccountInv

-----------------------------------------------------------------------------
(* The bot login.                                                           *)

USE LoginAssumption, HashAssumption

\* What a pending login in memory says: the account to link to exists, and it is
\* approved by someone who pressed the button.
PendingSound ==
    \A h \in Hash : login[h] # None =>
        /\ login[h].user # None => login[h].user \in Rows
        /\ login[h].status = "approved" =>
              /\ login[h].tg \in Telegram
              /\ login[h].tg \in Approvers(h)

PollsSound == \A r \in Request : poll[r] # None => login[poll[r].hash] # None

\* A login that was handed out once is approved and not in the store any more,
\* and stays so.
Spent ==
    \A h \in Hash : handed[h] # 0 =>
        handed[h] = 1 /\ login[h] # None /\ login[h].status = "approved" /\ h \notin stored

\* The loop's position, and the part of the batch before the next update.
Progress ==
    /\ bot.last <= Len(updates) /\ 1..bot.last \subseteq handled
    /\ bot.at # "fetch" =>
          /\ bot.next <= bot.end /\ bot.end <= Len(updates)
          /\ 1..(bot.next - 1) \subseteq handled
    /\ bot.at = "photo" => updates[bot.next].kind = "approve"

LoginInv == LoginTypeOK /\ AccountInv /\ PendingSound /\ PollsSound /\ Spent
               /\ Progress /\ NoUpdateLost

\* Presses of buttons are not forgotten.
Heard == \A h \in Hash : Approvers(h) \subseteq Approvers(h)'

LEMMA HeardSame == ASSUME UNCHANGED updates PROVE Heard
BY DEF Heard, Approvers

LEMMA AccountsSame == ASSUME AccountInv, UNCHANGED accountVars PROVE AccountInv' /\ Grows
<1>1. AccountInv'
  BY AccountsKeep
<1>2. Grows
  BY DEF Grows, Rows, accountVars
<1> QED BY <1>1, <1>2

\* Steps that leave the bot and what it has handled alone.
LEMMA BotSame ==
    ASSUME LoginInv, UNCHANGED <<botVars, updates>>
    PROVE  Progress' /\ NoUpdateLost'
BY DEF LoginInv, Progress, NoUpdateLost, botVars

LEMMA InitTelegramAuthStep ==
    ASSUME LoginInv, NEW b \in Browser, InitTelegramAuth(b) PROVE LoginInv'
<1>0. /\ LoginTypeOK /\ AccountInv /\ PendingSound /\ PollsSound /\ Spent
      /\ login \in [Hash -> PendingLogin \union {None}]
      /\ UNCHANGED <<accountVars, botVars, poll, updates, handed, restarts>>
  BY DEF LoginInv, LoginTypeOK, InitTelegramAuth
<1>1. PICK h \in Hash, u \in {cookie[b], None} :
          /\ login[h] = None
          /\ login' = [login EXCEPT ![h] = [status |-> "pending", user |-> u,
                                            tg |-> None, old |-> FALSE]]
          /\ stored' = stored \union {h}
  BY DEF Create, InitTelegramAuth
<1> DEFINE p == [status |-> "pending", user |-> u, tg |-> None, old |-> FALSE]
<1>2. u \in User \union {None} /\ (u # None => u \in Rows)
  BY <1>0 DEF AccountInv, TypeOK, CookiesLead
<1>3. p \in PendingLogin /\ p.user = u /\ p.status = "pending"
  BY <1>2 DEF PendingLogin, Status
<1>4. login' = [login EXCEPT ![h] = p]
  BY <1>1
<1> HIDE DEF p
<1>5. p # None
  BY <1>3
<1>6. \A g \in Hash : login'[g] = IF g = h THEN p ELSE login[g]
  BY <1>0, <1>4
<1>7. login' \in [Hash -> PendingLogin \union {None}]
  BY <1>0, <1>3, <1>4
<1>8. AccountInv' /\ Grows /\ Heard
  BY <1>0, AccountsSame, HeardSame
<1>9. PendingSound'
  BY <1>0, <1>2, <1>3, <1>6, <1>8 DEF PendingSound, Grows, Heard
<1>10. PollsSound'
  <2>1. poll \in [Request -> PollRequest \union {None}]
    BY <1>0 DEF LoginTypeOK
  <2> QED BY <1>0, <1>5, <1>6, <2>1 DEF PollsSound, PollRequest
<1>11. Spent'
  BY <1>0, <1>1, <1>6 DEF Spent
<1>12. LoginTypeOK'
  <2>1. stored' \subseteq {g \in Hash : login'[g] # None}
    BY <1>0, <1>1, <1>5, <1>6 DEF LoginTypeOK
  <2> QED BY <1>0, <1>7, <1>8, <2>1 DEF LoginTypeOK, AccountInv, botVars
<1>13. Progress' /\ NoUpdateLost'
  BY <1>0, BotSame
<1> QED BY <1>8, <1>9, <1>10, <1>11, <1>12, <1>13 DEF LoginInv

\* Steps that leave the pending logins alone; a poll may find one.
LEMMA StoreSame ==
    ASSUME LoginInv, Grows, Heard, AccountInv', UNCHANGED <<storeVars, handed>>,
           poll' \in [Request -> PollRequest \union {None}],
           \A r \in Request :
              poll'[r] # None => poll'[r].hash \in stored \/ poll'[r] = poll[r]
    PROVE  PendingSound' /\ PollsSound' /\ Spent'
<1>1. stored \subseteq {h \in Hash : login[h] # None}
  BY DEF LoginInv, LoginTypeOK
<1>2. PendingSound'
  BY DEF LoginInv, PendingSound, Grows, Heard, storeVars
<1>3. PollsSound'
  BY <1>1 DEF LoginInv, PollsSound, storeVars
<1>4. Spent'
  BY DEF LoginInv, Spent, storeVars
<1> QED BY <1>2, <1>3, <1>4

LEMMA PollStep ==
    ASSUME LoginInv, NEW b \in Browser, NEW r \in Request, Poll(b, r)
    PROVE  LoginInv'
<1>0. /\ poll \in [Request -> PollRequest \union {None}]
      /\ UNCHANGED <<accountVars, storeVars, botVars, updates, handed, restarts>>
  BY DEF LoginInv, LoginTypeOK, Poll
<1>1. PICK h \in Hash : Get(h) /\ poll' = [poll EXCEPT ![r] = [browser |-> b, hash |-> h]]
  BY DEF Poll
<1>2. /\ poll' \in [Request -> PollRequest \union {None}]
      /\ \A p \in Request : poll'[p] # None => poll'[p].hash \in stored \/ poll'[p] = poll[p]
  BY <1>0, <1>1 DEF Get, PollRequest
<1>3. AccountInv' /\ Grows /\ Heard
  BY <1>0, AccountsSame, HeardSame DEF LoginInv
<1>4. PendingSound' /\ PollsSound' /\ Spent'
  BY <1>0, <1>2, <1>3, StoreSame
<1>5. Progress' /\ NoUpdateLost'
  BY <1>0, BotSame
<1>6. LoginTypeOK'
  BY <1>0, <1>2, <1>3 DEF LoginInv, LoginTypeOK, AccountInv, storeVars, botVars
<1> QED BY <1>3, <1>4, <1>5, <1>6 DEF LoginInv

\* What the steps of a login's life leave of the logins: the store may shrink,
\* and a login that is approved stays as it is, whatever its age.
LEMMA LoginMoves ==
    ASSUME LoginInv, AccountInv', Grows, Heard, NEW h \in Hash, NEW p \in PendingLogin,
           login[h] # None, login' = [login EXCEPT ![h] = p],
           stored' \subseteq stored, UNCHANGED <<poll, handed>>,
           p.user = login[h].user,
           login[h].status = "approved" => p.status = "approved" /\ p.tg = login[h].tg,
           p.status = "approved" => p.tg \in Telegram /\ p.tg \in Approvers(h)
    PROVE  /\ PendingSound' /\ PollsSound' /\ Spent'
           /\ login' \in [Hash -> PendingLogin \union {None}]
           /\ stored' \subseteq {g \in Hash : login'[g] # None}
<1>0. /\ login \in [Hash -> PendingLogin \union {None}] /\ p # None
      /\ stored \subseteq {g \in Hash : login[g] # None}
      /\ poll \in [Request -> PollRequest \union {None}]
      /\ PendingSound /\ PollsSound /\ Spent
  BY DEF LoginInv, LoginTypeOK
<1>1. \A g \in Hash : login'[g] = IF g = h THEN p ELSE login[g]
  BY <1>0
<1>2. PendingSound'
  BY <1>0, <1>1 DEF PendingSound, Grows, Heard
<1>3. PollsSound'
  BY <1>0, <1>1 DEF PollsSound, PollRequest
<1>4. Spent'
  BY <1>0, <1>1 DEF Spent
<1>5. login' \in [Hash -> PendingLogin \union {None}]
  BY <1>0
<1>6. stored' \subseteq {g \in Hash : login'[g] # None}
  BY <1>0, <1>1
<1> QED BY <1>2, <1>3, <1>4, <1>5, <1>6

LEMMA AgeStep == ASSUME LoginInv, NEW h \in Hash, Age(h) PROVE LoginInv'
<1> DEFINE p == [login[h] EXCEPT !.old = TRUE]
<1>0. /\ LoginTypeOK /\ AccountInv /\ h \in stored
      /\ login \in [Hash -> PendingLogin \union {None}]
      /\ UNCHANGED <<stored, accountVars, botVars, poll, updates, handed, restarts>>
  BY DEF LoginInv, LoginTypeOK, Age
<1>1. login[h] \in PendingLogin /\ login[h] # None
  BY <1>0 DEF LoginTypeOK
<1>2. /\ p \in PendingLogin /\ p.user = login[h].user
      /\ p.status = login[h].status /\ p.tg = login[h].tg
  BY <1>1 DEF PendingLogin
<1>3. login' = [login EXCEPT ![h] = p]
  BY DEF Age
<1> HIDE DEF p
<1>4. AccountInv' /\ Grows /\ Heard
  BY <1>0, AccountsSame, HeardSame
<1>5. p.status = "approved" => p.tg \in Telegram /\ p.tg \in Approvers(h)
  BY <1>0, <1>1, <1>2 DEF LoginInv, LoginTypeOK, PendingSound
<1>6. /\ PendingSound' /\ PollsSound' /\ Spent'
      /\ login' \in [Hash -> PendingLogin \union {None}]
      /\ stored' \subseteq {g \in Hash : login'[g] # None}
  BY <1>0, <1>1, <1>2, <1>3, <1>4, <1>5, LoginMoves
<1>7. LoginTypeOK'
  BY <1>0, <1>4, <1>6 DEF LoginTypeOK, AccountInv, botVars
<1>8. Progress' /\ NoUpdateLost'
  BY <1>0, BotSame
<1> QED BY <1>4, <1>6, <1>7, <1>8 DEF LoginInv

LEMMA CleanupStep == ASSUME LoginInv, cleanup PROVE LoginInv'
<1>0. /\ stored' \subseteq stored
      /\ UNCHANGED <<login, accountVars, botVars, poll, updates, handed, restarts>>
  BY DEF cleanup
<1>1. AccountInv' /\ Grows /\ Heard
  BY <1>0, AccountsSame, HeardSame DEF LoginInv
<1>2. PendingSound' /\ PollsSound' /\ Spent'
  BY <1>0, <1>1 DEF LoginInv, PendingSound, PollsSound, Spent, Grows, Heard
<1>3. LoginTypeOK'
  BY <1>0, <1>1 DEF LoginInv, LoginTypeOK, AccountInv, botVars
<1>4. Progress' /\ NoUpdateLost'
  BY <1>0, BotSame
<1> QED BY <1>1, <1>2, <1>3, <1>4 DEF LoginInv

\* The requests never take anything from the tables.
LEMMA ServeGrows ==
    ASSUME AccountInv, NEW r \in Request,
           \/ \E b \in Browser : Send(b, r)
           \/ Handle(r) \/ handleTelegramLoginFromBot(r) \/ handleTelegramLinkFromBot(r)
    PROVE  Grows
<1>0. /\ users \in [User -> Row \union {None}] /\ req \in [Request -> Task]
      /\ TaskInv(req[r])
  BY DEF AccountInv, TypeOK
<1>1. CASE UNCHANGED <<users, owned>> /\ vouched \subseteq vouched'
  BY <1>1 DEF Grows, Rows
<1>2. CASE CreateUser(r)
  <2>1. req[r].ident \in Identity
    BY <1>0, <1>2 DEF CreateUser, TaskInv, Task
  <2>2. NewRow(req[r].ident) # None
    BY <2>1, NewRowOf
  <2>3. PICK u \in User : users' = [users EXCEPT ![u] = NewRow(req[r].ident)]
    BY <1>2 DEF CreateUser
  <2> QED BY <1>0, <1>2, <2>2, <2>3 DEF Grows, Rows, CreateUser
<1>3. CASE SavePortrait(r) \/ SaveUser(r)
  <2>1. req[r].row # None
    BY <1>0, <1>3 DEF TaskInv, HoldsOwn, SavePortrait, SaveUser
  <2>2. Save(req[r].user, req[r].row) \/ UNCHANGED users
    BY <1>3 DEF SavePortrait, SaveUser
  <2>3. UNCHANGED <<vouched, owned>>
    BY <1>3 DEF SavePortrait, SaveUser
  <2> QED BY <1>0, <2>1, <2>2, <2>3 DEF Grows, Rows, Save
<1>4. CASE Link(r)
  <2>1. /\ req[r].own \in Rows /\ users[req[r].own] \in Row /\ req[r].ident \in Identity
    BY <1>0, <1>4 DEF Link, TaskInv, Task, Rows
  <2>2. Linked(users[req[r].own], req[r].ident) # None
    BY <2>1, LinkedRow
  <2>3. /\ users' = [users EXCEPT ![req[r].own] = Linked(users[req[r].own], req[r].ident)]
        /\ owned \subseteq owned' /\ vouched' = vouched
    BY <1>4 DEF Link
  <2> QED BY <1>0, <2>2, <2>3 DEF Grows, Rows
<1>5. CASE SetTerms(r)
  <2> DEFINE u == req[r].own  row == [users[u] EXCEPT !.terms = TRUE]
  <2>1. u \in Rows /\ users[u] \in Row
    BY <1>0, <1>5 DEF SetTerms, TaskInv, Rows
  <2>2. row \in Row /\ users' = [users EXCEPT ![u] = row] /\ UNCHANGED <<vouched, owned>>
    BY <1>5, <2>1 DEF SetTerms, Row
  <2> HIDE DEF row
  <2> QED BY <1>0, <2>1, <2>2 DEF Grows, Rows
<1>6. CASE \/ Find(r) \/ Fail(r) \/ Respond(r) \/ Check(r) \/ Reread(r)
           \/ ReadSession(r) \/ ReplaceToken(r) \/ \E b \in Browser : Send(b, r)
  <2>1. UNCHANGED <<users, owned>> /\ vouched \subseteq vouched'
    BY <1>6 DEF Find, Fail, Respond, Check, Reread, ReadSession, ReplaceToken, Send, tables
  <2> QED BY <1>1, <2>1
<1>7. SignIn(r) => Grows
  BY <1>2, <1>3, <1>6 DEF SignIn
<1>8. handleTelegramLoginFromBot(r) \/ handleTelegramLinkFromBot(r) => Grows
  BY <1>3, <1>4, <1>6, <1>7 DEF handleTelegramLoginFromBot, handleTelegramLinkFromBot
<1>9. LinkOrSignIn(r) \/ TelegramLinkCallback(r) => Grows
  BY <1>3, <1>4, <1>6, <1>7 DEF LinkOrSignIn, TelegramLinkCallback
<1>10. AcceptTerms(r) \/ RegenerateToken(r) \/ Logout(r) => Grows
  BY <1>5, <1>6 DEF AcceptTerms, RegenerateToken, Logout
<1> QED
  BY <1>6, <1>7, <1>8, <1>9, <1>10 DEF Handle, TelegramCallback, YandexCallback, YandexTokenAuth

\* A request comes in, or goes on.
LEMMA ServeStep == ASSUME LoginInv, NEW r \in Request, Serve(r) PROVE LoginInv'
<1>0. UNCHANGED <<storeVars, botVars, poll, updates, handed, restarts>>
  BY DEF Serve
<1>1. AccountInv' /\ AccountInv
  BY SendStep, HandleStep, BotStep DEF LoginInv, Serve
<1>2. Grows /\ Heard
  BY <1>0, <1>1, ServeGrows, HeardSame DEF Serve
<1>3. poll \in [Request -> PollRequest \union {None}]
  BY DEF LoginInv, LoginTypeOK
<1>4. PendingSound' /\ PollsSound' /\ Spent'
  BY <1>0, <1>1, <1>2, <1>3, StoreSame
<1>5. LoginTypeOK'
  BY <1>0, <1>1 DEF LoginInv, LoginTypeOK, AccountInv, botVars, storeVars
<1>6. Progress' /\ NoUpdateLost'
  BY <1>0, BotSame
<1> QED BY <1>1, <1>4, <1>5, <1>6 DEF LoginInv

\* A poll reads the status: nothing, the end of a rejected login, or the one
\* hand-over of an approved one.
LEMMA PollTelegramAuthStep ==
    ASSUME LoginInv, NEW r \in Request, PollTelegramAuth(r) PROVE LoginInv'
<1> DEFINE h == poll[r].hash  b == poll[r].browser  p == login[h]
<1>0. /\ LoginTypeOK /\ AccountInv /\ PendingSound /\ PollsSound /\ Spent
      /\ poll \in [Request -> PollRequest \union {None}] /\ poll[r] # None
      /\ poll' = [poll EXCEPT ![r] = None]
      /\ login \in [Hash -> PendingLogin \union {None}] /\ handed \in [Hash -> Nat]
      /\ stored \subseteq {g \in Hash : login[g] # None}
      /\ UNCHANGED <<tables, cookie, owned, botVars, updates, restarts>>
  BY DEF LoginInv, LoginTypeOK, PollTelegramAuth
<1>1. h \in Hash /\ b \in Browser /\ p # None /\ p \in PendingLogin
  BY <1>0 DEF PollsSound, PollRequest
<1>2. /\ poll' \in [Request -> PollRequest \union {None}]
      /\ \A q \in Request : poll'[q] # None => poll'[q] = poll[q]
  BY <1>0
<1>3. Progress' /\ NoUpdateLost' /\ Heard
  BY <1>0, BotSame, HeardSame
<1>4. CASE UNCHANGED <<storeVars, req, vouched, handed>>
  <2>1. AccountInv' /\ Grows
    BY <1>0, <1>4, AccountsSame DEF accountVars, tables
  <2>2. PendingSound' /\ PollsSound' /\ Spent'
    BY <1>2, <1>3, <1>4, <2>1, StoreSame
  <2>3. LoginTypeOK'
    BY <1>0, <1>2, <1>4, <2>1 DEF LoginTypeOK, AccountInv, botVars, storeVars
  <2> QED BY <1>3, <2>1, <2>2, <2>3 DEF LoginInv
<1>5. CASE p.status = "rejected" /\ Delete(h) /\ UNCHANGED <<req, vouched, handed>>
  <2>1. AccountInv' /\ Grows
    BY <1>0, <1>5, AccountsSame DEF accountVars, tables
  <2>2. stored' \subseteq stored /\ UNCHANGED login
    BY <1>5 DEF Delete
  <2>3. PendingSound' /\ PollsSound' /\ Spent'
    BY <1>0, <1>2, <1>3, <1>5, <2>1, <2>2 DEF PendingSound, PollsSound, Spent, Grows, Heard
  <2>4. LoginTypeOK'
    BY <1>0, <1>2, <1>5, <2>1, <2>2 DEF LoginTypeOK, AccountInv, botVars
  <2> QED BY <1>3, <2>1, <2>3, <2>4 DEF LoginInv
<1>6. CASE /\ p.status = "approved" /\ h \in stored /\ Consume(h) /\ Enter(r, b, p)
           /\ vouched' = vouched \union ({b} \X ({p.tg} \intersect Approvers(h)))
           /\ handed' = [handed EXCEPT ![h] = @ + 1]
  <2>1. /\ p.tg \in Telegram /\ p.tg \in Approvers(h)
        /\ p.user # None => p.user \in Rows
    BY <1>0, <1>1, <1>6 DEF PendingSound
  <2>2. \E t \in Task :
            /\ req' = [req EXCEPT ![r] = t]
            /\ t.at = IF p.user = None THEN "find" ELSE "check"
            /\ t.kind = IF p.user = None THEN "botLogin" ELSE "botLink"
            /\ t.browser = b /\ t.own = p.user /\ t.ident = p.tg
    <3> DEFINE t == [Idle EXCEPT !.at = IF p.user = None THEN "find" ELSE "check",
                                 !.kind = IF p.user = None THEN "botLogin" ELSE "botLink",
                                 !.browser = b, !.own = p.user, !.ident = p.tg]
    <3>1. t \in Task
      BY <1>1, <2>1 DEF Idle, Task, Place, Kind, PendingLogin
    <3>2. /\ t.at = IF p.user = None THEN "find" ELSE "check"
          /\ t.kind = IF p.user = None THEN "botLogin" ELSE "botLink"
          /\ t.browser = b /\ t.own = p.user /\ t.ident = p.tg
      BY DEF Idle
    <3>3. req' = [req EXCEPT ![r] = t]
      BY <1>6 DEF Enter
    <3> QED BY <3>1, <3>2, <3>3
  <2>3. PICK t \in Task :
            /\ req' = [req EXCEPT ![r] = t]
            /\ t.at = IF p.user = None THEN "find" ELSE "check"
            /\ t.kind = IF p.user = None THEN "botLogin" ELSE "botLink"
            /\ t.browser = b /\ t.own = p.user /\ t.ident = p.tg
    BY <2>2
  <2>4. /\ vouched \subseteq vouched' /\ <<b, p.tg>> \in vouched'
        /\ vouched' \subseteq Browser \X Identity
    BY <1>0, <1>1, <1>6, <2>1 DEF LoginTypeOK, TypeOK
  <2>5. Grows
    BY <1>0, <2>4 DEF Grows, Rows, tables
  <2>6. TaskInv(t)'
    <3>1. p.user # None => p.user \in Rows'
      BY <2>1, <2>5 DEF Grows
    <3> QED BY <2>3, <2>4, <2>1, <3>1 DEF TaskInv, Linking
  <2>7. AccountInv'
    BY <1>0, <2>3, <2>4, <2>6, QuietStep
  <2>8. stored' = stored \ {h} /\ UNCHANGED login
    BY <1>6 DEF Consume, Delete
  <2>9. Spent'
    <3>1. handed[h] = 0
      BY <1>0, <1>1, <1>6 DEF Spent
    <3>2. \A g \in Hash : handed'[g] = IF g = h THEN 1 ELSE handed[g]
      BY <1>0, <1>6, <3>1
    <3> QED BY <1>0, <1>1, <1>6, <2>8, <3>2 DEF Spent
  <2>10. PendingSound' /\ PollsSound'
    BY <1>0, <1>2, <1>3, <2>5, <2>8 DEF PendingSound, PollsSound, Grows, Heard
  <2>11. handed' \in [Hash -> Nat]
    BY <1>0, <1>6
  <2>12. LoginTypeOK'
    BY <1>0, <1>2, <2>7, <2>8, <2>11 DEF LoginTypeOK, AccountInv, botVars
  <2> QED BY <1>3, <2>7, <2>9, <2>10, <2>12 DEF LoginInv
<1>7. \/ UNCHANGED <<storeVars, req, vouched, handed>>
      \/ p.status = "rejected" /\ Delete(h) /\ UNCHANGED <<req, vouched, handed>>
      \/ /\ p.status = "approved" /\ h \in stored /\ Consume(h) /\ Enter(r, b, p)
         /\ vouched' = vouched \union ({b} \X ({p.tg} \intersect Approvers(h)))
         /\ handed' = [handed EXCEPT ![h] = @ + 1]
  BY DEF PollTelegramAuth
<1> QED BY <1>4, <1>5, <1>6, <1>7

\* People add updates at the end.
LEMMA PressStep == ASSUME LoginInv, NEW t \in Telegram, Press(t) PROVE LoginInv'
<1>0. /\ LoginTypeOK /\ updates \in Seq(Update) /\ Len(updates) < MaxUpdates
      /\ UNCHANGED <<accountVars, storeVars, botVars, poll, handed, restarts>>
  BY DEF LoginInv, LoginTypeOK, Press
<1>1. PICK u \in Update : updates' = Append(updates, u)
  BY DEF Press, Update
<1>2. /\ updates' \in Seq(Update) /\ Len(updates') = Len(updates) + 1
      /\ \A n \in 1..Len(updates) : updates'[n] = updates[n]
  BY <1>0, <1>1
<1>3. AccountInv' /\ Grows
  BY <1>0, AccountsSame DEF LoginInv
<1>4. Heard
  <2>1. 1..Len(updates) \subseteq 1..Len(updates')
    BY <1>0, <1>2
  <2> QED BY <1>2, <2>1 DEF Heard, Approvers
<1>5. UNCHANGED <<poll, shown, confirmed, bot, handled, login, stored>>
  BY <1>0 DEF botVars, storeVars
<1>6. PendingSound' /\ PollsSound' /\ Spent'
  BY <1>0, <1>3, <1>4, <1>5, StoreSame DEF LoginTypeOK
<1>7. LoginTypeOK'
  <2>1. confirmed' \in 0..Len(updates')
    BY <1>0, <1>2, <1>5 DEF LoginTypeOK
  <2> QED BY <1>0, <1>2, <1>3, <1>5, <2>1 DEF LoginTypeOK, AccountInv
<1>8. Progress' /\ NoUpdateLost'
  <2>1. /\ bot.next \in Nat \ {0} /\ bot.end \in Nat /\ bot.last \in Nat /\ Len(updates) \in Nat
    BY <1>0 DEF LoginTypeOK, BotState
  <2> QED BY <1>2, <1>5, <2>1 DEF LoginInv, Progress, NoUpdateLost
<1> QED BY <1>3, <1>6, <1>7, <1>8 DEF LoginInv

\* What the loop works with.
LEMMA BotTypes ==
    ASSUME LoginInv
    PROVE  /\ bot.last \in 0..MaxUpdates /\ bot.next \in 1..MaxUpdates + 1
           /\ bot.end \in 0..MaxUpdates /\ bot.at \in {"fetch", "handle", "photo"}
           /\ Len(updates) \in Nat /\ Len(updates) <= MaxUpdates
           /\ updates \in Seq(Update) /\ confirmed \in 0..Len(updates)
           /\ bot \in BotState /\ handled \subseteq 1..MaxUpdates
           /\ shown \subseteq Telegram \X Hash
BY DEF LoginInv, LoginTypeOK, BotState

LEMMA getUpdatesStep == ASSUME LoginInv, getUpdates PROVE LoginInv'
<1>0. /\ LoginTypeOK /\ bot.at = "fetch" /\ confirmed' = Dropped
      /\ UNCHANGED <<accountVars, storeVars, poll, shown, updates, handled, handed, restarts>>
  BY DEF LoginInv, getUpdates
<1>1. Dropped \in 0..Len(updates) /\ 1..Dropped \subseteq handled
  BY <1>0, BotTypes DEF Dropped, Offset, LoginInv, Progress, NoUpdateLost
<1>2. /\ bot' \in BotState
      /\ bot'.last = bot.last
      /\ bot'.at # "fetch" =>
            bot'.at = "handle" /\ bot'.next = Dropped + 1 /\ bot'.end = Len(updates)
               /\ Dropped < Len(updates)
  <2>1. CASE UNCHANGED bot
    BY <1>0, <2>1, BotTypes
  <2>2. CASE /\ Dropped < Len(updates)
             /\ bot' = [bot EXCEPT !.at = "handle", !.next = Dropped + 1, !.end = Len(updates)]
    <3>1. Dropped + 1 \in 1..MaxUpdates + 1 /\ Len(updates) \in 0..MaxUpdates
      BY <1>1, BotTypes, LoginAssumption
    <3>2. bot \in BotState
      BY BotTypes
    <3> HIDE DEF Dropped
    <3> QED BY <2>2, <3>1, <3>2 DEF BotState
  <2> QED BY <2>1, <2>2 DEF getUpdates
<1>3. AccountInv' /\ Grows /\ Heard
  BY <1>0, AccountsSame, HeardSame DEF LoginInv
<1>4. PendingSound' /\ PollsSound' /\ Spent'
  BY <1>0, <1>3, StoreSame DEF LoginTypeOK
<1>5. NoUpdateLost'
  BY <1>0, <1>1 DEF NoUpdateLost
<1>6. Progress'
  <2>1. bot'.at # "fetch" => bot'.next - 1 = Dropped /\ bot'.next <= bot'.end
    BY <1>1, <1>2, BotTypes
  <2> QED BY <1>0, <1>1, <1>2, <2>1, BotTypes DEF LoginInv, Progress
<1>7. LoginTypeOK'
  <2>1. confirmed' \in 0..Len(updates')
    BY <1>0, <1>1
  <2> QED BY <1>0, <1>2, <1>3, <2>1 DEF LoginTypeOK, AccountInv, storeVars
<1> QED BY <1>3, <1>4, <1>5, <1>6, <1>7 DEF LoginInv

\* An update is done: the loop moves on, and the updates before are handled.
LEMMA HandledMoves ==
    ASSUME LoginInv, bot.at # "fetch", Handled, UNCHANGED <<updates, confirmed>>
    PROVE  /\ bot' \in BotState /\ handled' \subseteq 1..MaxUpdates
           /\ Progress' /\ NoUpdateLost'
<1> DEFINE n == bot.next
<1>1. n \in 1..bot.end /\ bot.end <= Len(updates) /\ 1..(n - 1) \subseteq handled
  BY BotTypes DEF LoginInv, Progress
<1>2. /\ bot'.at = (IF n = bot.end THEN "fetch" ELSE "handle") /\ bot'.last = n
      /\ bot'.next = n + 1 /\ bot'.end = bot.end /\ handled' = handled \union {n}
  BY DEF Handled
<1>3. bot' \in BotState
  BY <1>1, BotTypes DEF Handled, BotState
<1>4. handled' \subseteq 1..MaxUpdates
  BY <1>1, <1>2, BotTypes
<1>5. 1..n \subseteq handled'
  BY <1>1, <1>2, BotTypes
<1>6. NoUpdateLost'
  BY <1>2 DEF LoginInv, NoUpdateLost
<1>7. Progress'
  BY <1>1, <1>2, <1>5, BotTypes DEF Progress
<1> QED BY <1>3, <1>4, <1>6, <1>7

\* What handleUpdate does to the pending logins.
LEMMA DecideStep ==
    ASSUME LoginInv, handleUpdate
    PROVE  /\ AccountInv' /\ Grows /\ PendingSound' /\ PollsSound' /\ Spent'
           /\ login' \in [Hash -> PendingLogin \union {None}]
           /\ stored' \subseteq {g \in Hash : login'[g] # None}
<1>0. /\ LoginTypeOK /\ AccountInv /\ PendingSound /\ PollsSound /\ Spent
      /\ login \in [Hash -> PendingLogin \union {None}]
      /\ poll \in [Request -> PollRequest \union {None}]
      /\ stored \subseteq {g \in Hash : login[g] # None}
      /\ UNCHANGED <<accountVars, poll, updates, confirmed, handed, restarts>>
  BY DEF LoginInv, LoginTypeOK, handleUpdate
<1>1. AccountInv' /\ Grows /\ Heard
  BY <1>0, AccountsSame, HeardSame
<1>2. CASE UNCHANGED login /\ stored' \subseteq stored
  BY <1>0, <1>1, <1>2 DEF PendingSound, PollsSound, Spent, Grows, Heard
<1> DEFINE h == Current.hash  t == Current.from
<1>3. CASE bot.at = "photo" /\ Approve(h, t)
  <2>1. CASE Get(h) /\ login[h].status = "pending"
    <3>0. bot.next \in 1..Len(updates) /\ Current.kind = "approve"
      BY <1>3, BotTypes DEF LoginInv, Progress, Current
    <3>1. Current \in Update
      BY <3>0, BotTypes DEF Current
    <3>2. h \in Hash /\ t \in Telegram /\ Current = [kind |-> "approve", from |-> t, hash |-> h]
      BY <3>0, <3>1 DEF Update
    <3>3. t \in Approvers(h)
      BY <3>0, <3>2 DEF Approvers, Current
    <3> DEFINE p == [[login[h] EXCEPT !.status = "approved"] EXCEPT !.tg = t]
    <3>4. login[h] # None /\ login[h] \in PendingLogin
      BY <1>0, <2>1, <3>2 DEF Get
    <3>5. login' = [login EXCEPT ![h] = p] /\ UNCHANGED stored
      BY <1>0, <1>3, <2>1, <3>2, <3>4 DEF Approve
    <3>6. /\ p \in PendingLogin /\ p.user = login[h].user
          /\ p.status = "approved" /\ p.tg = t
      BY <3>2, <3>4 DEF PendingLogin, Status
    <3> HIDE DEF p, h, t
    <3> QED BY <1>0, <1>1, <2>1, <3>2, <3>3, <3>4, <3>5, <3>6, LoginMoves
  <2>2. CASE ~(Get(h) /\ login[h].status = "pending")
    <3>1. stored' \subseteq stored /\ UNCHANGED login
      BY <1>3, <2>2 DEF Approve
    <3> QED BY <1>2, <3>1
  <2> QED BY <2>1, <2>2
<1>4. CASE Reject(h)
  <2>1. CASE h \in stored /\ login[h].status = "pending"
    <3> DEFINE p == [login[h] EXCEPT !.status = "rejected"]
    <3>1. h \in Hash /\ login[h] # None /\ login[h] \in PendingLogin
      BY <1>0, <2>1
    <3>2. login' = [login EXCEPT ![h] = p] /\ UNCHANGED stored
      BY <1>4, <2>1 DEF Reject
    <3>3. /\ p \in PendingLogin /\ p.user = login[h].user /\ p.status = "rejected"
      BY <3>1 DEF PendingLogin, Status
    <3> HIDE DEF p, h
    <3> QED BY <1>0, <1>1, <2>1, <3>1, <3>2, <3>3, LoginMoves
  <2>2. CASE ~(h \in stored /\ login[h].status = "pending")
    BY <1>2, <1>4, <2>2 DEF Reject
  <2> QED BY <2>1, <2>2
<1>5. \/ UNCHANGED storeVars
      \/ bot.at = "photo" /\ Approve(h, t)
      \/ Reject(h)
  BY DEF handleUpdate, handleAuthStart, FetchPhoto, handleAuthApprove, handleAuthReject
<1>6. CASE UNCHANGED storeVars
  BY <1>2, <1>6 DEF storeVars
<1> QED BY <1>3, <1>4, <1>5, <1>6

LEMMA handleUpdateStep == ASSUME LoginInv, handleUpdate PROVE LoginInv'
<1>0. /\ LoginTypeOK /\ UNCHANGED <<poll, updates, confirmed, handed, restarts>>
  BY DEF LoginInv, handleUpdate
<1>1. /\ AccountInv' /\ PendingSound' /\ PollsSound' /\ Spent'
      /\ login' \in [Hash -> PendingLogin \union {None}]
      /\ stored' \subseteq {g \in Hash : login'[g] # None}
  BY DecideStep
<1>2. shown' \subseteq Telegram \X Hash
  <2>1. CASE UNCHANGED shown
    BY <2>1, BotTypes
  <2>2. CASE /\ bot.at = "handle" /\ Get(Current.hash)
             /\ shown' = shown \union {<<Current.from, Current.hash>>}
    <3>1. bot.next \in 1..Len(updates)
      BY <2>2, BotTypes DEF LoginInv, Progress
    <3>2. Current \in Update
      BY <3>1, BotTypes DEF Current
    <3> QED BY <2>2, <3>2, BotTypes DEF Update
  <2> QED BY <2>1, <2>2
          DEF handleUpdate, handleAuthStart, FetchPhoto, handleAuthApprove, handleAuthReject
<1>3. bot' \in BotState /\ handled' \subseteq 1..MaxUpdates /\ Progress' /\ NoUpdateLost'
  <2>1. CASE bot.at # "fetch" /\ Handled
    BY <1>0, <2>1, HandledMoves
  <2>2. CASE FetchPhoto
    <3>1. /\ bot' = [bot EXCEPT !.at = "photo"] /\ UNCHANGED handled
          /\ bot.at = "handle" /\ updates[bot.next].kind = "approve"
      BY <2>2 DEF FetchPhoto, Current
    <3>2. bot' \in BotState /\ bot'.at = "photo" /\ bot'.last = bot.last
          /\ bot'.next = bot.next /\ bot'.end = bot.end
      BY <3>1, BotTypes DEF BotState
    <3> QED BY <1>0, <3>1, <3>2, BotTypes DEF LoginInv, Progress, NoUpdateLost
  <2> QED BY <2>1, <2>2
          DEF handleUpdate, handleAuthStart, handleAuthApprove, handleAuthReject
<1>4. LoginTypeOK'
  BY <1>0, <1>1, <1>2, <1>3 DEF LoginTypeOK, AccountInv
<1> QED BY <1>1, <1>3, <1>4 DEF LoginInv

\* The process dies: what Telegram and the database keep, stays.
LEMMA RestartStep == ASSUME LoginInv, Restart PROVE LoginInv'
<1>0. /\ LoginTypeOK /\ stored' = {} /\ poll' = [r \in Request |-> None] /\ bot' = BotStarts
      /\ UNCHANGED <<login, shown, updates, confirmed, handled, handed>>
      /\ restarts' = restarts + 1 /\ restarts < MaxRestarts
  BY DEF LoginInv, Restart
<1>1. AccountInv' /\ Grows /\ Heard
  BY <1>0, CrashStep, HeardSame DEF LoginInv, Restart, Crash, Grows, Rows, tables
<1>2. PendingSound' /\ PollsSound' /\ Spent'
  BY <1>0, <1>1 DEF LoginInv, PendingSound, PollsSound, Spent, Grows, Heard
<1>3. /\ bot' \in BotState /\ bot'.last = 0 /\ bot'.at = "fetch"
  BY <1>0 DEF BotStarts, BotState
<1>4. Progress' /\ NoUpdateLost'
  BY <1>0, <1>3, BotTypes DEF LoginInv, Progress, NoUpdateLost
<1>5. LoginTypeOK'
  BY <1>0, <1>1, <1>3 DEF LoginTypeOK, AccountInv
<1> QED BY <1>1, <1>2, <1>4, <1>5 DEF LoginInv

\* The bot login begins with any accounts that the dashboard can have left.
SoundLogin == AccountInv /\ LoginStart /\ [][LoginNext]_vars

LEMMA LoginStarts == AccountInv /\ LoginStart => LoginInv
<1> SUFFICES ASSUME AccountInv, LoginStart PROVE LoginInv
  OBVIOUS
<1>1. LoginTypeOK
  BY DEF LoginStart, LoginTypeOK, AccountInv, BotStarts, BotState
<1>2. PendingSound /\ PollsSound /\ Spent /\ Progress /\ NoUpdateLost
  BY DEF LoginStart, PendingSound, PollsSound, Spent, Progress, NoUpdateLost, BotStarts
<1> QED BY <1>1, <1>2 DEF LoginInv

LEMMA LoginKeeps == LoginInv /\ [LoginNext]_vars => LoginInv'
<1> SUFFICES ASSUME LoginInv, [LoginNext]_vars PROVE LoginInv'
  OBVIOUS
<1>1. CASE UNCHANGED vars
  <2>1. UNCHANGED <<accountVars, storeVars, botVars, poll, updates, handed, restarts>>
    BY <1>1 DEF vars
  <2>2. AccountInv' /\ Grows /\ Heard
    BY <2>1, AccountsSame, HeardSame DEF LoginInv
  <2>3. PendingSound' /\ PollsSound' /\ Spent'
    BY <2>1, <2>2, StoreSame DEF LoginInv, LoginTypeOK
  <2>4. Progress' /\ NoUpdateLost'
    BY <2>1, BotSame
  <2>5. LoginTypeOK'
    BY <2>1, <2>2 DEF LoginInv, LoginTypeOK, AccountInv, storeVars, botVars
  <2> QED BY <2>2, <2>3, <2>4, <2>5 DEF LoginInv
<1>2. CASE LoginNext
  BY <1>2, InitTelegramAuthStep, PollStep, PollTelegramAuthStep, ServeStep, PressStep,
     getUpdatesStep, handleUpdateStep, RestartStep, AgeStep, CleanupStep DEF LoginNext
<1> QED BY <1>1, <1>2

LEMMA LoginInvariant == SoundLogin => []LoginInv
BY LoginStarts, LoginKeeps, PTL DEF SoundLogin

\* An empty database is such a beginning, and so is one with a user.
LEMMA SoundFromEmpty == LoginSpec => SoundLogin
BY AccountsStart, PTL DEF LoginSpec, LoginInit, SoundLogin

LEMMA SoundFromRegistered ==
    ASSUME NEW u \in User, NEW b \in Browser, NEW x \in Identity \ {Blank}, NEW s \in Secret,
           Registered(u, b, x, s)
    PROVE  AccountInv
<1> DEFINE row == NewRow(x)
<1>1. row \in Row /\ \A y \in Identity : Has(row, y) => y = x
  BY NewRowOf
<1> HIDE DEF row
<1>2. /\ users = [v \in User |-> IF v = u THEN row ELSE None]
      /\ tokens = [v \in User |-> IF v = u THEN {s} ELSE {}]
      /\ domains = [v \in User |-> IF v = u THEN DomainsPerUser ELSE 0]
      /\ cookie = [c \in Browser |-> IF c = b THEN u ELSE None]
      /\ req = [r \in Request |-> Idle] /\ vouched = {<<b, x>>} /\ owned = {<<u, x>>}
  BY DEF Registered, row
<1>3. Rows = {u}
  BY <1>1, <1>2 DEF Rows
<1>4. TypeOK
  BY <1>1, <1>2, IdleTask DEF TypeOK
<1>5. RowsOwned /\ OneAccountPerIdentity
  BY <1>1, <1>2 DEF RowsOwned, OneAccountPerIdentity, Has
<1>6. AccountsComplete
  BY <1>2, <1>3 DEF AccountsComplete
<1>7. SessionsAreVouched /\ CookiesLead
  BY <1>2, <1>3 DEF SessionsAreVouched, CookiesLead
<1>8. \A r \in Request : TaskInv(req[r])
  BY <1>2, IdleTask
<1> QED BY <1>4, <1>5, <1>6, <1>7, <1>8 DEF AccountInv

\* The store, the loop and the polls are well typed in every reachable state.
THEOREM LoginTyped == SoundLogin => []LoginTypeOK
BY LoginInvariant, PTL DEF LoginInv

\* An approved login is given to one poll at most, and a rejected one to none.
THEOREM HandedOnceHolds == SoundLogin => []HandedOnce
<1>1. LoginInv => HandedOnce
  BY DEF LoginInv, LoginTypeOK, Spent, HandedOnce
<1> QED BY <1>1, LoginInvariant, PTL

\* Telegram drops an update only when it was handled, crash or not.
THEOREM NoUpdateLostHolds == SoundLogin => []NoUpdateLost
BY LoginInvariant, PTL DEF LoginInv

\* Beside any other requests, and whatever browser presents the hash, the bot's
\* way in signs a browser in only as a user of an identity that vouches for it,
\* if by nothing else, by pressing the button for the hash the browser has; and
\* it leaves an identity in one account.
THEOREM BotLoginIsVouched == SoundLogin => [](SessionsAreVouched /\ OneAccountPerIdentity)
BY LoginInvariant, PTL DEF LoginInv, AccountInv

=============================================================================
