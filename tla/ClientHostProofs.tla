-------------------------- MODULE ClientHostProofs --------------------------
(***************************************************************************)
(* Machine-checked facts about the clients of one machine, for any number   *)
(* of them: what becomes the executable, and what the lock file protects as *)
(* long as nobody changes it between another's look and what that one does. *)
(***************************************************************************)
EXTENDS ClientHost, TLAPS

USE HostAssumption

Updated == {"binary", "create", "prepare", "rename", "copy", "copying"}

\* What the update of a process has, by the step where it stands.
UpdateInv(u) ==
    /\ u.at \in Updated => u.sums \in Build
    /\ u.at \in {"copy", "copying"} => u.elsewhere
    /\ u.at \in {"unknown", "offered", "checksums", "signature", "binary", "create"}
          => ~u.elsewhere

UpdatesInv ==
    /\ remote \in [Asset -> Content]
    /\ update \in [Process -> UpdateState]
    /\ exe \in Content \union {"first", Torn}
    /\ \A p \in Process : UpdateInv(update[p])
    /\ OnlyVerifiedInstalled /\ ReplacedAtOnce

\* What a process that is about to change the lock file knows of it.
Knows(p) ==
    /\ at[p] = "remove" => lock.pid \in Process /\ at[lock.pid] = "gone"
    /\ at[p] = "write" => lock.pid \notin Process
    /\ at[p] = "fill" => lock.pid \notin Process /\ lock.file = file[p]
    /\ at[p] = "unlink" => lock.pid = p

LockInv ==
    /\ at \in [Process -> Life]
    /\ lock \in [file : Process \union {None}, pid : Process \union {"empty", None}]
    /\ file \in [Process -> Process \union {None}]
    /\ raced \in BOOLEAN /\ robbed \subseteq Process
    /\ lock.pid \in Process => at[lock.pid] # "off"
    /\ ~raced => \A p \in Process : Knows(p)
    /\ LockProtects

HostInv == UpdatesInv /\ LockInv

-----------------------------------------------------------------------------
(* Updates.                                                                 *)

\* One update moves on; what had to be kept elsewhere stays there.
LEMMA UpdateMoves ==
    ASSUME UpdatesInv, UNCHANGED remote, NEW p \in Process, NEW u \in UpdateState,
           update' = [update EXCEPT ![p] = u], UpdateInv(u),
           update[p].elsewhere => u.elsewhere,
           \/ UNCHANGED exe
           \/ exe' \in Build
           \/ exe' = Torn /\ u.elsewhere
    PROVE  UpdatesInv'
<1>1. update' \in [Process -> UpdateState]
  BY DEF UpdatesInv
<1>2. \A q \in Process : update'[q] = IF q = p THEN u ELSE update[q]
  BY DEF UpdatesInv
<1>3. \A q \in Process : UpdateInv(update[q])'
  BY <1>2 DEF UpdatesInv, UpdateInv
<1>4. exe' \in Content \union {"first", Torn} /\ OnlyVerifiedInstalled'
  BY DEF UpdatesInv, OnlyVerifiedInstalled, Content
<1>5. ReplacedAtOnce'
  <2> SUFFICES ASSUME exe' = Torn PROVE \E q \in Process : update'[q].elsewhere
    BY DEF ReplacedAtOnce
  <2>1. CASE u.elsewhere
    BY <1>2, <2>1
  <2>2. CASE ~u.elsewhere
    <3>1. exe = Torn
      BY <2>2 DEF Content
    <3>2. PICK q \in Process : update[q].elsewhere
      BY <3>1 DEF UpdatesInv, ReplacedAtOnce
    <3>3. q # p
      BY <2>2, <3>2
    <3> QED BY <1>2, <3>2, <3>3
  <2> QED BY <2>1, <2>2
<1> QED BY <1>1, <1>3, <1>4, <1>5 DEF UpdatesInv

\* An update that ends, however it does.
LEMMA EndOfUpdate ==
    ASSUME UpdatesInv, UNCHANGED remote, NEW p \in Process, Fails(p) \/ Succeeds(p),
           \/ UNCHANGED exe
           \/ exe' \in Build
           \/ exe' = Torn /\ update[p].elsewhere
    PROVE  UpdatesInv'
<1>1. PICK s \in {"done", "error"} : Ends(p, s)
  BY DEF Fails, Succeeds
<1> DEFINE u == [[NoUpdate EXCEPT !.at = s] EXCEPT !.elsewhere = update[p].elsewhere]
<1>2. update[p] \in UpdateState
  BY DEF UpdatesInv
<1>3. /\ u \in UpdateState /\ u.at = s /\ u.elsewhere = update[p].elsewhere
      /\ update' = [update EXCEPT ![p] = u]
  <2>1. 1 \in 1..Attempts
    OBVIOUS
  <2>2. u.at = s /\ u.elsewhere = update[p].elsewhere
    BY DEF NoUpdate
  <2>3. u \in UpdateState
    BY <1>2, <2>1 DEF NoUpdate, UpdateState, Step
  <2>4. update' = [update EXCEPT ![p] = u]
    BY <1>1 DEF Ends, Becomes
  <2> QED BY <2>2, <2>3, <2>4
<1> HIDE DEF u
<1>4. UpdateInv(u)
  BY <1>3 DEF UpdateInv, Updated
<1> QED BY <1>3, <1>4, UpdateMoves

\* An update whose step changes, and perhaps its count of attempts.
Follows(q, u) ==
    /\ u.elsewhere = q.elsewhere /\ u.sums = q.sums
    /\ \/ u.at = q.at
       \/ q.at = "unknown" /\ u.at = "offered"
       \/ q.at = "offered" /\ u.at = "checksums"
       \/ q.at = "signature" /\ u.at = "binary" /\ u.sums \in Build
       \/ q.at = "binary" /\ u.at = "create"
       \/ q.at = "prepare" /\ u.at = "rename"
       \/ q.at = "rename" /\ u.at = "copy" /\ u.elsewhere
       \/ q.at = "copy" /\ u.at = "copying"

LEMMA StepOfUpdate ==
    ASSUME UpdatesInv, UNCHANGED remote, NEW p \in Process, NEW u \in UpdateState,
           update' = [update EXCEPT ![p] = u], Follows(update[p], u),
           UNCHANGED exe \/ (exe' = Torn /\ u.elsewhere)
    PROVE  UpdatesInv'
<1>1. UpdateInv(u)
  BY DEF UpdatesInv, UpdateInv, Updated, Follows
<1>2. update[p].elsewhere => u.elsewhere
  BY DEF Follows
<1> QED BY <1>1, <1>2, UpdateMoves

LEMMA DownloadStep ==
    ASSUME UpdatesInv, UNCHANGED remote, NEW p \in Process,
           \/ DownloadChecksums(p) \/ DownloadSignature(p) \/ DownloadBinary(p)
           \/ DownloadFails(p)
    PROVE  UpdatesInv'
<1> DEFINE q == update[p]
<1>0. q \in UpdateState /\ UpdateInv(q) /\ UNCHANGED exe
      /\ q.tries \in 1..Attempts /\ 1 \in 1..Attempts
  BY DEF UpdatesInv, DownloadChecksums, DownloadSignature, DownloadBinary, DownloadFails,
         downloadFile, UpdateState
<1>1. CASE Fails(p)
  BY <1>0, <1>1, EndOfUpdate
<1>2. CASE DownloadChecksums(p)
  <2> DEFINE u == [[[q EXCEPT !.at = "signature"] EXCEPT !.tries = 1]
                      EXCEPT !.sums = remote["checksums"]]
  <2>1. remote["checksums"] \in Content /\ q.at = "checksums"
    BY <1>2 DEF UpdatesInv, Asset, DownloadChecksums, downloadFile
  <2>2. /\ u \in UpdateState /\ u.at = "signature" /\ u.elsewhere = q.elsewhere
        /\ update' = [update EXCEPT ![p] = u]
    BY <1>0, <1>2, <2>1 DEF DownloadChecksums, Becomes, UpdateState, Step
  <2> HIDE DEF u
  <2>3. UpdateInv(u)
    BY <1>0, <2>1, <2>2 DEF UpdateInv, Updated
  <2> QED BY <1>0, <2>2, <2>3, UpdateMoves
<1>3. CASE DownloadSignature(p) /\ ~Fails(p)
  <2> DEFINE u == [[q EXCEPT !.at = "binary"] EXCEPT !.tries = 1]
  <2>1. Verify(q.sums, remote["signature"]) /\ q.at = "signature"
    BY <1>3 DEF DownloadSignature, downloadFile
  <2>2. /\ u \in UpdateState /\ u.at = "binary" /\ u.elsewhere = q.elsewhere
        /\ u.sums = q.sums /\ update' = [update EXCEPT ![p] = u]
    BY <1>0, <1>3, <2>1 DEF DownloadSignature, Becomes, UpdateState, Step
  <2> HIDE DEF u
  <2>3. Follows(q, u)
    BY <2>1, <2>2 DEF Follows, Verify
  <2> QED BY <1>0, <2>1, <2>2, <2>3, StepOfUpdate
<1>4. CASE DownloadBinary(p) /\ ~Fails(p)
  <2> DEFINE u == [[q EXCEPT !.at = "create"] EXCEPT !.tries = 1]
  <2>1. q.at = "binary"
    BY <1>4 DEF DownloadBinary, downloadFile
  <2>2. /\ u \in UpdateState /\ u.at = "create" /\ u.elsewhere = q.elsewhere
        /\ u.sums = q.sums /\ update' = [update EXCEPT ![p] = u]
    BY <1>0, <1>4 DEF DownloadBinary, Becomes, UpdateState, Step
  <2> HIDE DEF u
  <2>3. Follows(q, u)
    BY <2>1, <2>2 DEF Follows
  <2> QED BY <1>0, <2>1, <2>2, <2>3, StepOfUpdate
<1>5. CASE DownloadFails(p) /\ ~Fails(p)
  <2> DEFINE u == [q EXCEPT !.tries = q.tries + 1]
  <2>1. q.tries < Attempts /\ update' = [update EXCEPT ![p] = u]
    BY <1>5 DEF DownloadFails, Retry, Becomes
  <2>2. q.tries + 1 \in 1..Attempts
    BY <1>0, <2>1
  <2>3. u \in UpdateState /\ u.at = q.at /\ u.elsewhere = q.elsewhere /\ u.sums = q.sums
    BY <1>0, <2>2 DEF UpdateState
  <2> HIDE DEF u
  <2>4. Follows(q, u)
    BY <2>3 DEF Follows
  <2> QED BY <1>0, <2>1, <2>3, <2>4, StepOfUpdate
<1> QED BY <1>1, <1>2, <1>3, <1>4, <1>5

\* A step that leaves everything else of the update.
LEMMA MoveStep ==
    ASSUME UpdatesInv, UNCHANGED remote, NEW p \in Process, NEW s \in Step, Moves(p, s),
           Follows(update[p], [update[p] EXCEPT !.at = s]),
           UNCHANGED exe \/ (exe' = Torn /\ update[p].elsewhere)
    PROVE  UpdatesInv'
<1> DEFINE u == [update[p] EXCEPT !.at = s]
<1>1. u \in UpdateState /\ u.elsewhere = update[p].elsewhere
  BY DEF UpdatesInv, UpdateState
<1>2. update' = [update EXCEPT ![p] = u] /\ Follows(update[p], u)
  BY DEF Moves, Becomes
<1> HIDE DEF u
<1> QED BY <1>1, <1>2, StepOfUpdate

\* The record of a step, field by field.
LEMMA Moved ==
    ASSUME NEW q \in UpdateState, NEW s \in Step
    PROVE  LET u == [q EXCEPT !.at = s]
           IN  u.at = s /\ u.elsewhere = q.elsewhere /\ u.sums = q.sums
BY DEF UpdateState

LEMMA InstallStep ==
    ASSUME UpdatesInv, UNCHANGED remote, NEW p \in Process,
           CreateTemp(p) \/ PrepareTemp(p) \/ Rename(p) \/ OpenExe(p) \/ WriteExe(p)
    PROVE  UpdatesInv'
<1> DEFINE q == update[p]
<1>0. q \in UpdateState /\ UpdateInv(q) /\ Torn \notin Build
  BY DEF UpdatesInv, Content
<1>1. CASE CreateTemp(p)
  <2>1. CASE Fails(p)
    BY <1>1, <2>1, EndOfUpdate DEF CreateTemp
  <2>2. ASSUME NEW e \in BOOLEAN,
               Becomes(p, [q EXCEPT !.at = "prepare", !.elsewhere = e])
        PROVE  UpdatesInv'
    <3> DEFINE u == [[q EXCEPT !.at = "prepare"] EXCEPT !.elsewhere = e]
    <3>1. /\ u \in UpdateState /\ u.at = "prepare" /\ u.sums = q.sums
          /\ update' = [update EXCEPT ![p] = u]
      BY <1>0, <2>2 DEF Becomes, UpdateState, Step
    <3> HIDE DEF u
    <3>2. UpdateInv(u) /\ ~q.elsewhere
      BY <1>0, <1>1, <3>1 DEF CreateTemp, UpdateInv, Updated
    <3> QED BY <1>1, <3>1, <3>2, UpdateMoves DEF CreateTemp
  <2> QED BY <1>1, <2>1, <2>2 DEF CreateTemp
<1>2. CASE PrepareTemp(p)
  <2>1. CASE Fails(p)
    BY <1>2, <2>1, EndOfUpdate DEF PrepareTemp
  <2>2. CASE Moves(p, "rename")
    <3>1. Follows(q, [q EXCEPT !.at = "rename"])
      BY <1>0, <1>2, Moved DEF Follows, PrepareTemp, Step
    <3> QED BY <1>2, <2>2, <3>1, MoveStep DEF PrepareTemp, Step
  <2> QED BY <1>2, <2>1, <2>2 DEF PrepareTemp
<1>3. CASE Rename(p)
  <2>1. CASE exe' = q.sums /\ Succeeds(p)
    BY <1>0, <1>3, <2>1, EndOfUpdate DEF Rename, UpdateInv, Updated
  <2>2. CASE UNCHANGED exe /\ q.elsewhere /\ Moves(p, "copy")
    <3> DEFINE u == [q EXCEPT !.at = "copy"]
    <3>1. u.at = "copy" /\ u.elsewhere = q.elsewhere /\ u.sums = q.sums
      BY <1>0, Moved DEF Step
    <3> HIDE DEF u
    <3>2. q.at = "rename" /\ u.elsewhere
      BY <1>3, <2>2, <3>1 DEF Rename
    <3>3. Follows(q, u)
      BY <3>1, <3>2 DEF Follows
    <3> QED BY <2>2, <3>3, MoveStep DEF Step, u
  <2>3. CASE UNCHANGED exe /\ Fails(p)
    BY <2>3, EndOfUpdate
  <2> QED BY <1>3, <2>1, <2>2, <2>3 DEF Rename
<1>4. CASE OpenExe(p)
  <2>1. CASE exe' = Torn /\ Moves(p, "copying")
    <3>1. q.elsewhere
      BY <1>0, <1>4 DEF OpenExe, UpdateInv
    <3>2. Follows(q, [q EXCEPT !.at = "copying"])
      BY <1>0, <1>4, Moved DEF Follows, OpenExe, Step
    <3> QED BY <2>1, <3>1, <3>2, MoveStep DEF Step
  <2>2. CASE UNCHANGED exe /\ Fails(p)
    BY <2>2, EndOfUpdate
  <2> QED BY <1>4, <2>1, <2>2 DEF OpenExe
<1>5. CASE WriteExe(p)
  <2>1. q.elsewhere /\ q.sums \in Build
    BY <1>0, <1>5 DEF WriteExe, UpdateInv, Updated
  <2>2. UNCHANGED exe \/ exe' \in Build \/ exe' = Torn
    BY <1>5, <2>1 DEF WriteExe, Disturbed
  <2>3. Fails(p) \/ Succeeds(p)
    BY <1>5 DEF WriteExe
  <2> QED BY <2>1, <2>2, <2>3, EndOfUpdate
<1> QED BY <1>1, <1>2, <1>3, <1>4, <1>5

LEMMA UpdatesKeep == ASSUME UpdatesInv, [Next]_vars PROVE UpdatesInv'
<1>1. CASE UNCHANGED <<remote, updateVars>>
  BY <1>1 DEF UpdatesInv, UpdateInv, OnlyVerifiedInstalled, ReplacedAtOnce, updateVars
<1>2. CASE Upload
  <2>1. remote' \in [Asset -> Content]
    BY <1>2 DEF Upload, UpdatesInv
  <2> QED BY <1>2, <2>1
          DEF Upload, UpdatesInv, UpdateInv, OnlyVerifiedInstalled, ReplacedAtOnce, updateVars
<1>3. ASSUME NEW p \in Process, Asks(p) PROVE UpdatesInv'
  <2>1. UNCHANGED <<remote, exe>>
    BY <1>3 DEF Asks, CheckForUpdate, PressU
  <2>2. CASE CheckForUpdate(p)
    <3>1. Follows(update[p], [update[p] EXCEPT !.at = "offered"])
      BY <2>2, Moved DEF Follows, CheckForUpdate, Step, UpdatesInv
    <3> QED BY <2>1, <2>2, <3>1, MoveStep DEF CheckForUpdate, Step
  <2>3. CASE PressU(p)
    <3>1. Follows(update[p], [update[p] EXCEPT !.at = "checksums"])
      BY <2>3, Moved DEF Follows, PressU, Step, UpdatesInv
    <3> QED BY <2>1, <2>3, <3>1, MoveStep DEF PressU, Step
  <2> QED BY <1>3, <2>2, <2>3 DEF Asks
<1>4. ASSUME NEW p \in Process, Updating(p) PROVE UpdatesInv'
  BY <1>4, DownloadStep, InstallStep DEF Updating, PerformUpdate
<1>5. ASSUME NEW p \in Process,
             \/ Start(p) \/ AcquireLock(p) \/ Quit(p) \/ ReleaseLock(p) \/ UnlinkOwn(p)
             \/ Die(p)
      PROVE  UNCHANGED <<remote, updateVars>>
  BY <1>5 DEF Start, AcquireLock, ReadLock, ForceReleaseLock, RemoveStale, OpenLock, FillLock,
              Quit, ReleaseLock, UnlinkOwn, Die
<1>6. UNCHANGED vars => UNCHANGED <<remote, updateVars>>
  BY DEF vars
<1> QED BY <1>1, <1>2, <1>3, <1>4, <1>5, <1>6 DEF Next

-----------------------------------------------------------------------------
(* The lock file.                                                           *)

\* A process goes on without changing the lock file.
LEMMA Walks ==
    ASSUME LockInv, NEW p \in Process, NEW l \in Life, Goto(p, l), UNCHANGED <<lock, raced, robbed>>,
           l # "off", at[p] # "gone",
           file' \in [Process -> Process \union {None}],
           \A q \in Process \ {p} : file'[q] = file[q],
           ~raced => Knows(p)',
           l = "running" => at[p] = "running"
    PROVE  LockInv'
<1>1. \A q \in Process : at'[q] = IF q = p THEN l ELSE at[q]
  BY DEF LockInv, Goto
<1>2. at' \in [Process -> Life]
  BY DEF LockInv, Goto
<1>3. ~raced => \A q \in Process \ {p} : Knows(q)'
  BY <1>1 DEF LockInv, Knows
<1>4. lock'.pid \in Process => at'[lock'.pid] # "off"
  BY <1>1 DEF LockInv
<1>5. LockProtects'
  BY <1>1 DEF LockInv, LockProtects
<1> QED BY <1>2, <1>3, <1>4, <1>5 DEF LockInv

\* A process changes the lock file: unless that is a race, nobody else is about
\* to, and what is left of the lock is as this process knows it.
LEMMA Changes ==
    ASSUME LockInv, NEW p \in Process, NEW l \in Life, Goto(p, l),
           NEW k \in [file : Process \union {None}, pid : Process \union {"empty", None}],
           Change(p, k), l # "off",
           file' \in [Process -> Process \union {None}],
           robbed \subseteq robbed', robbed' \subseteq Process,
           k.pid \in Process => k.pid = p,
           ~raced => Knows(p)',
           ~raced => \A q \in Process \ {p} : at[q] = "running" => q \in robbed',
           ~raced /\ l = "running" => k.pid = p
    PROVE  LockInv'
<1>1. \A q \in Process : at'[q] = IF q = p THEN l ELSE at[q]
  BY DEF LockInv, Goto
<1>2. at' \in [Process -> Life] /\ raced' \in BOOLEAN /\ lock' = k
  BY DEF LockInv, Goto, Change
<1>3. ~raced' => ~raced /\ \A q \in Process \ {p} : at[q] \notin Acting
  BY DEF Change
<1>4. ~raced' => \A q \in Process \ {p} : Knows(q)'
  BY <1>1, <1>3 DEF Knows, Acting
<1>5. lock'.pid \in Process => at'[lock'.pid] # "off"
  BY <1>1, <1>2
<1>6. LockProtects'
  BY <1>1, <1>2, <1>3 DEF LockProtects
<1> QED BY <1>2, <1>3, <1>4, <1>5, <1>6 DEF LockInv

LEMMA WalkStep ==
    ASSUME LockInv, NEW p \in Process,
           Start(p) \/ ReadLock(p) \/ Quit(p) \/ ReleaseLock(p) \/ Die(p)
    PROVE  LockInv'
<1>0. file \in [Process -> Process \union {None}] /\ at \in [Process -> Life]
      /\ UNCHANGED <<lock, raced, robbed>>
  BY DEF LockInv, Start, ReadLock, Quit, ReleaseLock, Die
<1>1. CASE Start(p) \/ Quit(p)
  <2>1. PICK l \in {"read", "release"} : Goto(p, l)
    BY <1>1 DEF Start, Quit
  <2>2. at'[p] = l
    BY <1>0, <2>1 DEF Goto
  <2>3. UNCHANGED file /\ at[p] # "gone"
    BY <1>1 DEF Start, Quit
  <2> QED BY <1>0, <2>1, <2>2, <2>3, Walks DEF Knows, Life
<1>2. CASE ReadLock(p)
  <2>1. PICK l \in {"gone", "force", "remove", "write"} :
          /\ Goto(p, l)
          /\ l = "remove" => ~HeldByRunning /\ lock.pid \in Process
          /\ l = "write" => lock.pid \notin Process
    BY <1>2 DEF ReadLock
  <2>2. \A q \in Process : at'[q] = IF q = p THEN l ELSE at[q]
    BY <1>0, <2>1 DEF Goto
  <2>3. UNCHANGED file /\ at[p] \in {"read", "again"}
    BY <1>2 DEF ReadLock
  <2>4. l = "remove" => at'[lock.pid] = "gone"
    BY <2>1, <2>2, <2>3 DEF HeldByRunning, Alive, LockInv
  <2>5. Knows(p)'
    BY <1>0, <2>1, <2>2, <2>4 DEF Knows
  <2> QED BY <1>0, <2>1, <2>3, <2>5, Walks DEF Life
<1>3. CASE ReleaseLock(p)
  <2>1. PICK l \in {"unlink", "gone"} : Goto(p, l) /\ (l = "unlink" => Owns(p))
    BY <1>3 DEF ReleaseLock
  <2>2. at'[p] = l
    BY <1>0, <2>1 DEF Goto
  <2>3. UNCHANGED file /\ at[p] = "release"
    BY <1>3 DEF ReleaseLock
  <2>4. Knows(p)'
    BY <1>0, <2>1, <2>2 DEF Knows, Owns
  <2> QED BY <1>0, <2>1, <2>3, <2>4, Walks DEF Life
<1>4. CASE Die(p)
  <2>1. Goto(p, "gone") /\ file' = [file EXCEPT ![p] = None] /\ at[p] # "gone"
    BY <1>4 DEF Die, Alive
  <2>2. at'[p] = "gone"
    BY <1>0, <2>1 DEF Goto
  <2> QED BY <1>0, <2>1, <2>2, Walks DEF Knows, Life
<1> QED BY <1>1, <1>2, <1>3, <1>4

LEMMA ChangeStep ==
    ASSUME LockInv, NEW p \in Process,
           ForceReleaseLock(p) \/ RemoveStale(p) \/ OpenLock(p) \/ FillLock(p) \/ UnlinkOwn(p)
    PROVE  LockInv'
<1>0. /\ at \in [Process -> Life] /\ file \in [Process -> Process \union {None}]
      /\ lock \in [file : Process \union {None}, pid : Process \union {"empty", None}]
      /\ robbed \subseteq Process /\ LockProtects
      /\ NoLock \in [file : Process \union {None}, pid : Process \union {"empty", None}]
      /\ NoLock.pid \notin Process
      /\ ~raced => Knows(p)
  BY DEF LockInv, NoLock, None
<1>1. CASE ForceReleaseLock(p)
  <2>1. /\ Change(p, NoLock) /\ Goto(p, "again") /\ UNCHANGED file
        /\ robbed' = robbed \union ({lock.pid} \intersect Process)
    BY <1>1 DEF ForceReleaseLock
  <2>2. at'[p] = "again"
    BY <1>0, <2>1 DEF Goto
  <2>3. ~raced => \A q \in Process \ {p} : at[q] = "running" => q \in robbed'
    BY <1>0, <2>1 DEF LockProtects
  <2> QED BY <1>0, <2>1, <2>2, <2>3, Changes DEF Knows, Life
<1>2. CASE RemoveStale(p)
  <2>1. /\ Change(p, NoLock) /\ Goto(p, "write") /\ UNCHANGED <<file, robbed>>
        /\ at[p] = "remove"
    BY <1>2 DEF RemoveStale
  <2>2. at'[p] = "write" /\ lock' = NoLock
    BY <1>0, <2>1 DEF Goto, Change
  <2>3. ~raced => \A q \in Process \ {p} : at[q] = "running" => q \in robbed'
    BY <1>0, <2>1 DEF LockProtects, Knows
  <2> QED BY <1>0, <2>1, <2>2, <2>3, Changes DEF Knows, Life
<1>3. CASE OpenLock(p)
  <2>1. PICK f \in Process :
          /\ Change(p, [file |-> f, pid |-> "empty"]) /\ Goto(p, "fill")
          /\ file' = [file EXCEPT ![p] = f] /\ UNCHANGED robbed /\ at[p] = "write"
    BY <1>0, <1>3 DEF OpenLock
  <2> DEFINE k == [file |-> f, pid |-> "empty"]
  <2>2. /\ k \in [file : Process \union {None}, pid : Process \union {"empty", None}]
        /\ k.pid = "empty" /\ k.pid \notin Process /\ k.file = f /\ Change(p, k)
    BY <2>1
  <2> HIDE DEF k
  <2>3. at'[p] = "fill" /\ lock' = k /\ file'[p] = f
    BY <1>0, <2>1, <2>2 DEF Goto, Change
  <2>4. ~raced => \A q \in Process \ {p} : at[q] = "running" => q \in robbed'
    BY <1>0, <2>1 DEF LockProtects, Knows
  <2>5. Knows(p)'
    BY <2>2, <2>3 DEF Knows
  <2> QED BY <1>0, <2>1, <2>2, <2>4, <2>5, Changes DEF Life
<1>4. CASE FillLock(p)
  <2> DEFINE k == IF lock.file = file[p] THEN [lock EXCEPT !.pid = p] ELSE lock
  <2>1. /\ Change(p, k) /\ Goto(p, "running") /\ at[p] = "fill"
        /\ file' = [file EXCEPT ![p] = None] /\ UNCHANGED robbed
    BY <1>4 DEF FillLock
  <2>2. at'[p] = "running"
    BY <1>0, <2>1 DEF Goto
  <2>3. ~raced => lock.pid \notin Process /\ lock.file = file[p]
    BY <1>0, <2>1 DEF Knows
  <2>4. ~raced => \A q \in Process \ {p} : at[q] = "running" => q \in robbed'
    BY <1>0, <2>1, <2>3 DEF LockProtects
  <2>5. CASE lock.file = file[p]
    <3>1. k \in [file : Process \union {None}, pid : Process \union {"empty", None}] /\ k.pid = p
      BY <1>0, <2>5
    <3> HIDE DEF k
    <3> QED BY <1>0, <2>1, <2>2, <2>4, <3>1, Changes DEF Knows, Life
  <2>6. CASE lock.file # file[p]
    <3>1. k = lock /\ raced
      BY <2>3, <2>6
    <3>2. \A q \in Process : at'[q] = IF q = p THEN "running" ELSE at[q]
      BY <1>0, <2>1 DEF Goto
    <3>3. UNCHANGED <<lock, robbed>> /\ raced' /\ raced' \in BOOLEAN
      BY <2>1, <3>1 DEF Change
    <3> QED BY <1>0, <2>1, <3>2, <3>3 DEF LockInv, LockProtects, Goto, Life
  <2> QED BY <2>5, <2>6
<1>5. CASE UnlinkOwn(p)
  <2>1. /\ Change(p, NoLock) /\ Goto(p, "gone") /\ UNCHANGED <<file, robbed>>
        /\ at[p] = "unlink"
    BY <1>5 DEF UnlinkOwn
  <2>2. at'[p] = "gone"
    BY <1>0, <2>1 DEF Goto
  <2>3. ~raced => \A q \in Process \ {p} : at[q] = "running" => q \in robbed'
    BY <1>0, <2>1 DEF LockProtects, Knows
  <2> QED BY <1>0, <2>1, <2>2, <2>3, Changes DEF Knows, Life
<1> QED BY <1>1, <1>2, <1>3, <1>4, <1>5

LEMMA LockKeeps == ASSUME LockInv, [Next]_vars PROVE LockInv'
<1>1. CASE UNCHANGED lockVars
  BY <1>1 DEF LockInv, Knows, LockProtects, lockVars
<1>2. ASSUME NEW p \in Process,
             Start(p) \/ AcquireLock(p) \/ Quit(p) \/ ReleaseLock(p) \/ UnlinkOwn(p) \/ Die(p)
      PROVE  LockInv'
  BY <1>2, WalkStep, ChangeStep DEF AcquireLock
<1>3. ASSUME NEW p \in Process, Asks(p) \/ Updating(p) PROVE UNCHANGED lockVars
  BY <1>3 DEF Asks, Updating
<1>4. Upload \/ UNCHANGED vars => UNCHANGED lockVars
  BY DEF Upload, vars
<1> QED BY <1>1, <1>2, <1>3, <1>4 DEF Next

-----------------------------------------------------------------------------

LEMMA HostStarts == Init => HostInv
<1> SUFFICES ASSUME Init PROVE HostInv
  OBVIOUS
<1>1. UpdatesInv
  <2>1. NoUpdate \in UpdateState /\ NoUpdate.at = "unknown" /\ ~NoUpdate.elsewhere
    BY DEF NoUpdate, UpdateState, Step
  <2>2. \A p \in Process : update[p] = NoUpdate
    BY DEF Init
  <2>3. \A p \in Process : UpdateInv(update[p])
    BY <2>1, <2>2 DEF UpdateInv, Updated
  <2>4. update \in [Process -> UpdateState]
    BY <2>1 DEF Init
  <2>5. exe = "first" /\ "first" \notin {Damaged, Torn}
    BY DEF Init, Content
  <2> QED BY <2>3, <2>4, <2>5
          DEF Init, UpdatesInv, OnlyVerifiedInstalled, ReplacedAtOnce, Content
<1>2. LockInv
  BY DEF Init, LockInv, Knows, LockProtects, NoLock, None, Life
<1> QED BY <1>1, <1>2 DEF HostInv

LEMMA HostInvariant == Spec => []HostInv
<1>1. HostInv /\ [Next]_vars => HostInv'
  BY UpdatesKeep, LockKeeps DEF HostInv
<1> QED BY <1>1, HostStarts, PTL DEF Spec

\* The two files, the release and the processes are well typed.
THEOREM HostTyped == Spec => []TypeOK
<1>1. HostInv => TypeOK
  BY DEF HostInv, UpdatesInv, LockInv, TypeOK
<1> QED BY <1>1, HostInvariant, PTL

\* Without a race on it, the lock file names every running client that nobody
\* has forced away: there is one at most.
THEOREM LockProtectsHolds == Spec => []LockProtects
BY HostInvariant, PTL DEF HostInv, LockInv

\* The executable is never anything that the release's key did not sign.
THEOREM OnlyVerifiedHolds == Spec => []OnlyVerifiedInstalled
BY HostInvariant, PTL DEF HostInv, UpdatesInv

\* Half an executable is left only where a temporary file was kept elsewhere.
THEOREM ReplacedAtOnceHolds == Spec => []ReplacedAtOnce
BY HostInvariant, PTL DEF HostInv, UpdatesInv

=============================================================================
