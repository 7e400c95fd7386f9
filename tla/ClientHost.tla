----------------------------- MODULE ClientHost -----------------------------
(***************************************************************************)
(* The clients of one user on one machine, and the two files they share:    *)
(* the lock file (internal/client/config/lock.go, used by runStart of       *)
(* internal/client/cli/root.go) and the executable, which each running      *)
(* client may replace (internal/client/updater/updater.go on Unix, started  *)
(* by a key of internal/client/tui/tui.go).  The release's assets may be    *)
(* uploaded again, one by one, at any time.                                 *)
(***************************************************************************)
EXTENDS Naturals

CONSTANTS
    Process,         \* process ids, each given once
    Build,           \* builds whose assets are signed
    Damaged,         \* any other content of an asset
    Torn,            \* the content of an executable that is half-way copied
    Attempts         \* attempts at a download

Asset == {"checksums", "signature", "binary"}
Content == Build \union {Damaged}
None == "none"

ASSUME HostAssumption ==
    /\ Damaged \notin Build /\ Torn \notin Content
    /\ Attempts \in Nat \ {0}
    /\ {"none", "empty", "first"} \intersect (Process \union Content \union {Torn}) = {}

VARIABLES
    at,         \* where a process stands in runStart
    lock,       \* the lock file: which file it is (by its creator), its PID
    file,       \* the file a process has opened in writeLockFile
    remote,     \* the assets of the latest release
    update,     \* the update of a process
    exe,        \* the content of the executable
    raced,      \* the lock was changed inside another's check-then-act (history)
    robbed      \* processes whose lock was removed by --force (history)

lockVars == <<at, lock, file, raced, robbed>>
updateVars == <<update, exe>>
vars == <<lockVars, remote, updateVars>>

Life == {"off", "read", "again", "force", "remove", "write", "fill", "running",
         "release", "unlink", "gone"}

Alive(p) == at[p] \notin {"off", "gone"}

\* sums is the content the checksums are of, which is also that of the binary
\* once it matches; elsewhere is useSystemTemp.
Step == {"unknown", "offered", "checksums", "signature", "binary", "create",
         "prepare", "rename", "copy", "copying", "done", "error"}
UpdateState == [at : Step, tries : 1..Attempts, sums : Content \union {None},
                elsewhere : BOOLEAN]

NoUpdate == [at |-> "unknown", tries |-> 1, sums |-> None, elsewhere |-> FALSE]

NoLock == [file |-> None, pid |-> None]

Init ==
    /\ at = [p \in Process |-> "off"]
    /\ lock = NoLock
    /\ file = [p \in Process |-> None]
    /\ remote \in [Asset -> Build] /\ \A a, b \in Asset : remote[a] = remote[b]
    /\ update = [p \in Process |-> NoUpdate]
    /\ exe = "first"
    /\ raced = FALSE /\ robbed = {}

-----------------------------------------------------------------------------
(* The lock file.                                                           *)

Goto(p, l) == at' = [at EXCEPT ![p] = l]

\* Places that follow a look at the lock file, or at its absence.
Acting == {"force", "remove", "write", "fill", "unlink"}

Change(p, l) ==
    /\ lock' = l
    /\ raced' = (raced \/ \E q \in Process \ {p} : at[q] \in Acting)

Start(p) ==
    /\ at[p] = "off"
    /\ Goto(p, "read")
    /\ UNCHANGED <<lock, file, raced, robbed, remote, updateVars>>

\* readLockFile fails on a file without content; isProcessRunning.
HeldByRunning == lock.pid \in Process /\ Alive(lock.pid)

\* AcquireLock's look at the file; --force is used once.
ReadLock(p) ==
    /\ at[p] \in {"read", "again"}
    /\ \/ HeldByRunning /\ Goto(p, "gone")
       \/ HeldByRunning /\ at[p] = "read" /\ Goto(p, "force")
       \/ ~HeldByRunning /\ lock.pid \in Process /\ Goto(p, "remove")
       \/ lock.pid \notin Process /\ Goto(p, "write")
    /\ UNCHANGED <<lock, file, raced, robbed, remote, updateVars>>

ForceReleaseLock(p) ==
    /\ at[p] = "force"
    /\ Change(p, NoLock)
    /\ robbed' = robbed \union ({lock.pid} \intersect Process)
    /\ Goto(p, "again")
    /\ UNCHANGED <<file, remote, updateVars>>

RemoveStale(p) ==
    /\ at[p] = "remove"
    /\ Change(p, NoLock)
    /\ Goto(p, "write")
    /\ UNCHANGED <<file, robbed, remote, updateVars>>

\* os.WriteFile creates or truncates the file, and then writes to what it has
\* opened, which need not be the lock file any more.
OpenLock(p) ==
    /\ at[p] = "write"
    /\ LET f == IF lock.file = None THEN p ELSE lock.file IN
          /\ Change(p, [file |-> f, pid |-> "empty"])
          /\ file' = [file EXCEPT ![p] = f]
    /\ Goto(p, "fill")
    /\ UNCHANGED <<robbed, remote, updateVars>>

FillLock(p) ==
    /\ at[p] = "fill"
    /\ Change(p, IF lock.file = file[p] THEN [lock EXCEPT !.pid = p] ELSE lock)
    /\ file' = [file EXCEPT ![p] = None]
    /\ Goto(p, "running")
    /\ UNCHANGED <<robbed, remote, updateVars>>

Quit(p) ==
    /\ at[p] = "running"
    /\ Goto(p, "release")
    /\ UNCHANGED <<lock, file, raced, robbed, remote, updateVars>>

\* Mutation: the lock is removed without a look at its owner.
OwnsAny(p) == lock.pid # None

Owns(p) == lock.pid = p

ReleaseLock(p) ==
    /\ at[p] = "release"
    /\ Goto(p, IF Owns(p) THEN "unlink" ELSE "gone")
    /\ UNCHANGED <<lock, file, raced, robbed, remote, updateVars>>

UnlinkOwn(p) ==
    /\ at[p] = "unlink"
    /\ Change(p, NoLock)
    /\ Goto(p, "gone")
    /\ UNCHANGED <<file, robbed, remote, updateVars>>

\* A kill, or os.Exit: no deferred function runs, and an update stops where it
\* stands.
Die(p) ==
    /\ Alive(p)
    /\ Goto(p, "gone")
    /\ file' = [file EXCEPT ![p] = None]
    /\ UNCHANGED <<lock, raced, robbed, remote, updateVars>>

-----------------------------------------------------------------------------
(* Updates.                                                                 *)

Upload ==
    /\ \E a \in Asset, c \in Content : remote' = [remote EXCEPT ![a] = c]
    /\ UNCHANGED <<lockVars, updateVars>>

Becomes(p, u) == update' = [update EXCEPT ![p] = u]
Moves(p, s) == Becomes(p, [update[p] EXCEPT !.at = s])
Ends(p, s) == Becomes(p, [NoUpdate EXCEPT !.at = s, !.elsewhere = update[p].elsewhere])
Fails(p) == Ends(p, "error")
Succeeds(p) == Ends(p, "done")

\* CheckForUpdate finds a release of another version with our asset; when it
\* does not, there is no second look.
CheckForUpdate(p) ==
    /\ update[p].at = "unknown" /\ at[p] = "running"
    /\ Moves(p, "offered")
    /\ UNCHANGED exe

\* The key "u".
PressU(p) ==
    /\ update[p].at = "offered" /\ at[p] = "running"
    /\ Moves(p, "checksums")
    /\ UNCHANGED exe

\* Mutation: the attempts start anew.
RetryForever(p) ==
    Becomes(p, [update[p] EXCEPT !.tries = IF @ < Attempts THEN @ + 1 ELSE 1])

\* Some attempts at a download.
Retry(p) ==
    IF update[p].tries < Attempts THEN Becomes(p, [update[p] EXCEPT !.tries = @ + 1])
                                  ELSE Fails(p)

downloadFile(p, a) == update[p].at = a /\ UNCHANGED exe

DownloadFails(p) ==
    /\ \E a \in Asset : downloadFile(p, a)
    /\ Retry(p)

DownloadChecksums(p) ==
    /\ downloadFile(p, "checksums")
    /\ Becomes(p, [update[p] EXCEPT !.at = "signature", !.tries = 1,
                                    !.sums = remote["checksums"]])

\* Mutation: the signature is fetched but not compared.
VerifyNothing(sums, signature) == TRUE

Verify(sums, signature) == sums \in Build /\ signature = sums

DownloadSignature(p) ==
    /\ downloadFile(p, "signature")
    /\ IF Verify(update[p].sums, remote["signature"])
       THEN Becomes(p, [update[p] EXCEPT !.at = "binary", !.tries = 1])
       ELSE Fails(p)

\* The binary's hash is the one of the checksums.
DownloadBinary(p) ==
    /\ downloadFile(p, "binary")
    /\ IF remote["binary"] = update[p].sums
       THEN Becomes(p, [update[p] EXCEPT !.at = "create", !.tries = 1])
       ELSE Fails(p)

\* In the executable's directory, or else in the system's.
CreateTemp(p) ==
    /\ update[p].at = "create"
    /\ \/ \E e \in BOOLEAN :
             Becomes(p, [update[p] EXCEPT !.at = "prepare", !.elsewhere = e])
       \/ Fails(p)
    /\ UNCHANGED exe

\* The bytes and the mode.
PrepareTemp(p) ==
    /\ update[p].at = "prepare"
    /\ Moves(p, "rename") \/ Fails(p)
    /\ UNCHANGED exe

\* Mutation: the data is copied over the executable, wherever the file is.
RenameOrCopy(p) ==
    /\ update[p].at = "rename"
    /\ Moves(p, "copy")
    /\ UNCHANGED exe

Rename(p) ==
    /\ update[p].at = "rename"
    /\ \/ exe' = update[p].sums /\ Succeeds(p)
       \/ UNCHANGED exe /\ update[p].elsewhere /\ Moves(p, "copy")
       \/ UNCHANGED exe /\ ~update[p].elsewhere /\ Fails(p)

\* copyFile opens the executable, which truncates it, and writes; a running
\* executable may refuse to be opened.
OpenExe(p) ==
    /\ update[p].at = "copy"
    /\ \/ exe' = Torn /\ Moves(p, "copying")
       \/ UNCHANGED exe /\ Fails(p)

\* Two copies at once may leave a mixture, and one that meets a rename goes to
\* a file that is not the executable any more.
Disturbed(p) ==
    IF \E q \in Process \ {p} : update[q].at \in {"copying", "done", "error"}
    THEN {Torn, exe} ELSE {}

WriteExe(p) ==
    /\ update[p].at = "copying"
    /\ \/ exe' \in {update[p].sums} \union Disturbed(p) /\ Succeeds(p)
       \/ exe' \in {Torn} \union Disturbed(p) /\ Fails(p)

PerformUpdate(p) ==
    \/ DownloadChecksums(p) \/ DownloadSignature(p) \/ DownloadBinary(p) \/ DownloadFails(p)
    \/ CreateTemp(p) \/ PrepareTemp(p) \/ Rename(p) \/ OpenExe(p) \/ WriteExe(p)

Updating(p) ==
    /\ Alive(p)
    /\ PerformUpdate(p)
    /\ UNCHANGED <<lockVars, remote>>

Asks(p) == (CheckForUpdate(p) \/ PressU(p)) /\ UNCHANGED <<lockVars, remote>>

-----------------------------------------------------------------------------

AcquireLock(p) ==
    ReadLock(p) \/ ForceReleaseLock(p) \/ RemoveStale(p) \/ OpenLock(p) \/ FillLock(p)

Next ==
    \/ \E p \in Process :
          \/ Start(p) \/ AcquireLock(p) \/ Quit(p) \/ ReleaseLock(p) \/ UnlinkOwn(p)
          \/ Die(p) \/ Asks(p) \/ Updating(p)
    \/ Upload

Spec == Init /\ [][Next]_vars

\* An update goes on by itself; every step of it has a deadline.
FairSpec == Spec /\ \A p \in Process : WF_vars(Updating(p))

-----------------------------------------------------------------------------
(* Properties.                                                              *)

\* Types of the files and the processes.
TypeOK ==
    /\ at \in [Process -> Life]
    /\ lock \in [file : Process \union {None}, pid : Process \union {"empty", None}]
    /\ file \in [Process -> Process \union {None}]
    /\ remote \in [Asset -> Content]
    /\ update \in [Process -> UpdateState]
    /\ exe \in Content \union {"first", Torn}
    /\ raced \in BOOLEAN /\ robbed \subseteq Process

\* Through kills, stale locks and takeovers by force, the lock file names a
\* running client that nobody has forced away, as long as no client changes
\* the file between another's look at it and what that one does about it.
LockProtects ==
    ~raced => \A p \in Process : at[p] = "running" /\ p \notin robbed => lock.pid = p

\* No mixture of assets of several uploads becomes the executable.
OnlyVerifiedInstalled == exe # Damaged

\* "Atomic replacement" (installUnix): whatever fails and whoever is killed,
\* the executable is never half a file, unless some update had to keep its
\* temporary file in another directory.
ReplacedAtOnce == exe = Torn => \E p \in Process : update[p].elsewhere

\* An update that was started comes to its end, or its client does.
UpdateEnds ==
    \A p \in Process :
        update[p].at = "checksums" ~> update[p].at \in {"done", "error"} \/ ~Alive(p)

=============================================================================
