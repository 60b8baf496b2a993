# Verification of rsm-guacd-rdp

The repository builds Apache Guacamole's `guacd` natively on Windows (MinGW).
On POSIX systems guacd forks one process per remote desktop connection and
passes user sockets to it over a Unix socket. Windows has neither, so
`src-overrides/` replaces both: each process becomes a thread, and sockets go
through a C runtime pipe as 8-byte integers. Most of what can go wrong in this
code follows from that replacement. What used to be separated by processes is
now shared by threads: one client object, one descriptor table, one structure
freed by one of several holders.

This directory holds TLA+ models of that code, of the headers in `compat/` that
stand in for POSIX and C11, and of the script that bundles the result, the TLC runs that check them, and TLAPS proofs of their main
properties. `PROJECT.json` lists components, runs, mutants, the source lines of
every definition, findings, hazards and theorems.

## 1. The system

### guacd_proc threads (`src-overrides/proc-win32.c`, `proc-win32.h`)

*State*: the `guacd_proc` structure (`fd_socket`, `client`, `thread`), the pipe
(its two ends and the sockets in it), the `guac_client` (state, connected
users), the local variables `owner` and `read_fd` of the proc thread, and
`params->owner` of every user thread.

*Operations*: `guacd_create_proc`, the recv loop of `guacd_proc_thread_main`,
`guacd_proc_add_user`, `guacd_user_thread`, `guacd_proc_stop`,
`guacd_timed_client_free`.

*Interaction*: guacd runs a connection thread per client (`connection.c`, not
in the repository, modified by `patch-source.py`). It creates a proc or looks
one up in the process map, hands the user's socket over with `guacd_send_fd`,
and, if it created the proc, waits for the proc thread with `pthread_join`,
stops the proc again and frees it. The proc thread starts a detached user
thread for every socket it receives. A user thread that finds nobody connected
stops the proc. The proc thread then reads end of file, frees the client in a
helper thread and returns.

*Hard*: `guacd_proc_stop` runs in several threads at once without a lock. The
client is freed by one thread while others hold pointers to it. The order of
end of file, free, join and free is what makes it work.

*Correct when*: the structure is freed only after its thread has returned; the
client only when no user can arrive any more; the first user is the owner and
no other; a stopped proc ends; a deserted proc stops; sockets are closed;
nobody is stuck on a full pipe.

### Socket hand-over (`src-overrides/move-fd-win32.c`)

*State*: the pipe, the table of C runtime descriptors, the duplicated SOCKET.

*Operations*: `guacd_send_fd` (duplicate, write) and `guacd_recv_fd` (read).

*Hard*: descriptors are small numbers that are reused as soon as they are
closed, and copies of `fd_socket` are used and closed by threads that do not
see each other.

*Correct when*: a socket reaches the proc it was sent to, once, in order; a
double close harms nobody.

### Timed client free (`proc-win32.c` 119-172)

*State*: mutex, condition variable and flag in a structure on the waiter's
stack; the deadline.

*Hard*: lost and spurious wake-ups, the deadline passing while the client is
being freed, and the life of the stack frame.

*Correct when*: the wait ends; success means freed; no wake-up is lost; a
waiter that the broadcast woke leaves its frame only when the freeing thread is
done with it. After the deadline, which the code accepts, and after a spurious
wake-up, for which `pthread_cond_timedwait` is not called again, the frame may
be gone while the freeing thread still uses it (lines 133 to 138).

### Bundle collection (`collect-dlls.sh`)

*State*: the bundle directory, which outlives the script; `pending` and
`visited` of the search.

*Hard*: the script is run again on the same directory, after an interruption,
after a new build, or after an upgrade of the DLLs.

*Correct when*: nothing that is needed is missing, nothing else is copied, the
files are those of the last build, and the search ends, also where Windows finds
DLLs of the bundle first and `ldd` then prints their paths instead.

### Socket pair and SOCKET values (`compat/windows-posix.h` 178-221, `fcntl.h`, `move-fd-win32.c`)

*State*: the SOCKET handles of the process and what each is open for; the
variables and ints in which connection threads, I/O threads and user threads
keep them; the backlog of each listener; which sockets are non-blocking.

*Operations*: `socketpair()` (socket, bind, listen, getsockname, socket,
connect, accept, close), `guacd_send_fd`, `guacd_recv_fd`, `CLOSE_SOCKET` and
`READ_SOCKET` of `connection.c`, `fcntl(F_GETFL)` and `fcntl(F_SETFL)`.

*Interaction*: a connection thread makes a pair for every user. One end stays
with the I/O thread, which reads it until end of file, or until a write to the
browser fails or the browser disconnects. The other is
duplicated, sent through the pipe, closed, and used by the user thread under
the number of its duplicate. `tcp.c` opens a socket of the session's own and
makes it non-blocking.

*Hard*: six calls that may fail, each with other sockets to close; handles that
are reused by other connections while copies of the number remain; casts
through `int` with the sign in one place and without it in another; any local
program may connect to the loopback port first; end of file needs every copy
of the other end closed.

*Correct when*: nothing leaks; every number leads to the socket it was made
from; nobody closes another connection's socket; the end of a session reaches
the I/O thread, and no other session's sockets or modes do.

### C11 threads over pthreads (`compat/threads.h`)

*State*: the heap blocks that carry a function and an argument to a new thread;
a mutex, a condition variable and what their callers believe about them.

*Operations*: `thrd_create`, `_thrd_trampoline`, `thrd_exit`, `thrd_join`,
`thrd_detach`; `mtx_init`, `mtx_destroy`, `mtx_lock`, `mtx_trylock`, `mtx_timedlock`,
`mtx_unlock`; `cnd_wait`, `cnd_timedwait`, `cnd_signal`, `cnd_broadcast`.

*Interaction*: only WinPR, outside the repository, calls them.

*Hard*: the block changes hands between two threads and is reused as soon as it
is freed; a negative result travels as a pointer; a lock succeeds by a code that
must not be confused with "busy" or "error".

*Correct when*: a block has one owner; a thread runs what it was created for;
results and codes tell the truth; a recursive or timed lock returns.

### fnmatch (`compat/fnmatch.h`)

*State*: two pointers for each call, and the calls that wait behind a star.

*Hard*: both loops go back, in every combination, and the pattern is read one
character ahead.

*Correct when*: it returns, with 0 exactly for what the pattern matches; no
pointer passes a terminating zero; the depth of the calls depends on the
pattern's stars and not on the string.

### Identifiers (`compat/uuid/uuid.h`)

*State*: variables of 16 bytes and buffers of 37 characters.

*Hard*: the order of bytes. *Correct when*: comparison and text tell two
identifiers apart, and order them, as the GUIDs they were made from.

### Other parts

| part | state and operations | hard behaviour | here |
|---|---|---|---|
| `patch-source.py` | the files of an extracted source tree; patch functions that replace anchors | run twice, missing files, anchors not found | not modelled; what it puts into `connection.c` is |
| `build.sh` | tarball, source tree, build tree; steps 0 to 8 under `set -e` | a crash between steps and the next run | not modelled |
| rest of `compat/windows-posix.h`, `sys/wait.h` | process stubs, `setenv`, `sigaction`, `wcwidth` | see section 6 | `waitpid()` is the mutant of `PthreadJoin` |
| `compat/pwd.h`, `sys/statvfs.h`, `syslog.h`, `libgen.h` | fixed answers, one-call wrappers | none | not modelled |
| network header shims | includes and constants | none | not modelled |
| CI workflow, `.bat` launchers | one sequence of steps | none of its own | not modelled |

## 2. Modules

| module | models | proofs |
|---|---|---|
| `FdChannel` | abstract: the channel from `connection.c` to a proc thread | |
| `ProcWin32` | the threads of the procs; each `guacd_proc` is named after the connection that created it | `ProcWin32Proofs`, `ProcWin32Channel` |
| `CrtFd` | several procs in one descriptor table, numbers reused | `CrtFdProofs` |
| `TimedFree` | `guacd_timed_client_free` at the grain of pthread calls | `TimedFreeProofs` |
| `CollectDlls` | `collect-dlls.sh`, interrupted and run again | `CollectDllsProofs` |
| `SocketPair` | SOCKET handles and ints from `socketpair()` to the last close, several connections in one process | `SocketPairProofs` |
| `Fnmatch` | `fnmatch()`, a step for each character and each call | `FnmatchProofs` |
| `C11Threads` | creation, end and join of C11 threads, at the grain of heap and pthread calls | `CompatProofs` |
| `C11Mutex` | a mutex and a condition variable, and the codes their callers see | `CompatProofs` |
| `Uuid` | identifiers as bytes and text, with the GUID each stands for | `CompatProofs` |
| `MCProcWin32`, `MCCrtFd`, `MCCollectDlls`, `MCCompat` | the instances TLC checks; `MCCompat` joins the four modules of `compat/` that share no state, one at a time | |

`ProcWin32` and `CrtFd` both implement `FdChannel` through a refinement mapping
(`Channel == INSTANCE FdChannel WITH ...`). They split one system by what is
hard in it: `ProcWin32` has every thread and failure and treats a pipe end as
open or closed; `CrtFd` has the numbers and only as much of the threads as
decides who uses which number when. In `ProcWin32` the timed free is one wait
(`FreeWait`) that may time out; `TimedFree` opens it up, and `FreeIsOneWait`
proves that its steps are steps of `ProcWin32`.

### State and actions of ProcWin32

| TLA+ | code |
|---|---|
| `pc[Conn(u)]` | connection thread: `guacd_create_proc` or map lookup, `guacd_send_fd`, `pthread_join`, `guacd_proc_stop`, free |
| `pc[Proc(p)]` | `guacd_proc_thread_main` |
| `pc[User(u)]` | `guacd_user_thread` |
| `pc[Free(p)]` | `guacd_client_free_thread` |
| `procMem`, `clientMem` | the structure and the client: not there, live, freed |
| `fdSocket`, `writeEnd`, `readEnd`, `pipe` | `proc->fd_socket >= 0` and the pipe |
| `running` | `client->state` |
| `owner`, `isOwner` | `owner` of the loop, `params->owner` |
| `dup[u]` | the duplicate that `guacd_send_fd` makes: piped, owned by a user thread, closed, lost |
| `StopRead`, `StopClear`, `StopClose`, `StopClient` | lines 321, 323, 324 and 329, with other threads in between |
| `Faults` | which failures the environment may inject: `create`, `dup`, `plugin`, `thread`, `open`, `nofree`, `timeout` |

### State and actions of SocketPair and the modules of compat/

| TLA+ | code |
|---|---|
| `sock[h]`, `IsFree` | what a SOCKET handle is open for; Winsock hands out a free one, the lowest if `LowestFirst` |
| `local[c][n]`, `asInt[c][n]` | the SOCKET variable or the int for the listener, both ends, the duplicate and the session's own socket |
| `ToInt`, `SignExtend`, `ZeroExtend` | `(int)(intptr_t)s`; the casts of `connection.c`; those of `guacd_send_fd` and `fcntl` |
| `pc[c]`, `session[c]` | the connection thread, which goes on as the I/O thread; the proc and user thread of its user |
| `backlog[c]`, `peer[c]` | who waits at the listener; to whom the accepted socket is connected |
| `p`, `s`, `calls`, `ret` (`Fnmatch`) | `pattern` and `string` of the innermost call, the loops that wait for it, its result |
| `allocated`, `func`, `arg` (`C11Threads`) | the heap and the `_thrd_wrap_t` in each block |
| `owner`, `depth`, `told`, `has` (`C11Mutex`) | the pthread mutex, the last `thrd_` code, and the locks a caller counts by these codes |

`connection.c` runs its own copy of `socketpair()`, which `patch-source.py`
inserts. It is the same sequence of calls, but closes the listener before it
tests the result of `accept()`; the model follows `windows-posix.h`.

A thread's memory accesses are steps of their own only where another thread can
tell. Two reads of freed memory are undefined behaviour the build can reach, and
give any value: the number of connected users of a freed client (`CheckLast`),
and `fd_socket` of a freed `guacd_proc` (`FdSocketRead`, in `ProcWin32` and in
`CrtFd`). User threads are detached and a joining connection keeps its pointer,
so either may come after the creator's connection has freed the structure.

In `ProcWin32` a stop closes the write end of its own proc, if it is open. The
number it closes may by then stand for something else when there are several
procs: `CrtFd` has that, and shows what it leads to. With one proc, or one user
for each, the two agree (`NumbersStandForTheirs`). What `ProcWin32Proofs` says of
several creators is therefore about ends of pipes, not about numbers.

`connection.c` and the C runtime are marked external in the map. What they do
is taken from the text that `patch-source.py` replaces in `connection.c` and
from the comments and calls of `proc-win32.c`. `InProcMap(p)` in particular is
the time from the hand-over of the creator to the end of its `pthread_join`.

## 3. Runs

Three connections are enough for every pair of actors that can meet on a proc:
its creator, a joining user, and a second joining user that comes when the
first is leaving. A pipe of capacity 1 makes a writer block with one socket
under way, and a second writer wait; a larger pipe only adds sockets that
behave as the first. The theorems of section 5 have no such bounds.

| run | checks | shows |
|---|---|---|
| `proc_faults` | `TypeOK`, `ProcFreedAfterJoin`, `OwnerIsCreator`, `FreedOnlyAfterEof`, `StopEndsProc`, `HandOverEnds` | one creator and two joining users, all seven failures. Deadlock is not checked: with `open` or `thread` failures a proc may be left that no user thread stops, and its connection thread stays in `pthread_join` |
| `proc_live` | `LastUserStops`, `SocketsReleased`, `ImplementsFdChannel` | without failures: a deserted proc ends, its sockets are closed, and the channel promise holds with its liveness |
| `stop_safe` (violation) | `StopSafe` | finding 1 |
| `no_plugin` (violation) | `SocketsReleased` | finding 2 |
| `fd_one_proc` | `OwnDescriptors`, `ImplementsFdChannel` | three users who may all stop one proc, two descriptors: numbers are closed twice and it does no harm |
| `fd_one_user_each` | `OwnDescriptors`, `ImplementsFdChannel` | three procs of one user each, six descriptors, reused |
| `fd_misdelivery` (violation) | `ServedByOwnProc` | finding 3: two procs, one with a second user, four descriptors |
| `timed_free` | `TypeOK`, `SuccessMeansFreed`, `NoLostWakeup`, `FrameOutlivesUse`, `FailureMeansTimeout`, `Returns` | the five seconds of the code, second by second |
| `collect_dlls` | `BundleComplete`, `NothingElse`, `BinsCurrent`, `Ends` | guacd, two plugins and five DLLs: two that need each other, one that is no file, two for the second plugin only. For guacd and the first plugin Windows looks in the bundle first, for the second it does not; for the first two `ldd` may then print any of 32 lists that the content of the bundle allows. Any number of runs, interruptions, builds and upgrades |
| `collect_stale` (violation) | `BundleCurrent` | finding 4 |
| `socket_pair` | `SocketTypeOK`, `NothingLeaks`, `PairBelongsTogether`, `NotCutOff`, `ClosedByItsOwn`, `EofArrives` | two connections at once, every call of each failing or not, a stranger on either port, a browser that leaves or stays. A connection holds up to four handles; with five both compete and each takes over what the other closed. An int of 16 values has the sign bit that the casts treat differently, a SOCKET of 256 is wider than it |
| `compat` | `FnmatchTypeOK`, `MatchAgrees`, `RecursionBounded`, `FnmatchReturns` | all patterns of up to four of `a`, `b`, `*`, `?` and all strings of up to three of `a`, `b`, `*`: two stars with something behind each, both going back |
| | `OneOwnerEach`, `RunsItsOwn`, `JoinTellsResult` | two creators and two blocks: one block is freed and used again while the other thread still reads; ints of four values, two of them negative |
| | `CodesTellTheTruth`, `CallsReturn` | three threads, so that one waits, one holds and one wakes; locks up to two deep |
| | `ComparesGuids`, `TextTellsGuid` | two variables, two buffers and 14 GUIDs that differ in one field, in one byte, in the order of two bytes, or around the sign bit of a byte or a half |

Deadlock is not checked in these two runs, as in `proc_faults`: they end when
every connection has ended and nothing is left to call.

Every property of a passing run has a mutant: a definition of the model changed
the way a bug in the code would change it, with which TLC finds the property
violated. Mutants stand next to the definition they replace.

### Findings

1. `guacd_proc_stop` closes the write end (line 324) and then stops
   `proc->client` (line 329). The comment calls this safe from any thread. Once
   the pipe is closed the proc thread may free the client first. One user and
   no failure are enough.
2. When the plugin does not load, the sockets already written to the pipe are
   dropped with it and never closed; their duplicates keep the users' connections open.
3. A joining connection may read `fd_socket`, be overtaken by a stop that closes
   it and by a `guacd_create_proc` that is given the same number, and write its
   user's socket to the pipe of another proc. Neither module alone has this:
   it takes the reuse of numbers and two procs. With one proc, or one user for
   each proc, the promise holds (`fd_one_proc`, `fd_one_user_each`).
4. `collect-dlls.sh` copies a DLL only if the bundle has no file of its name.
   One that an interrupted `cp` left incomplete, or that was upgraded since,
   stays, and the script reports success. For `guacd.exe` Windows finds such a
   DLL first (line 71): it can also end the list of `ldd` early, which
   `2>/dev/null` hides, so that DLLs are left out. `BundleComplete` names this
   case and shows that there is no other.

## 4. Fairness

- Threads are scheduled: weak fairness of `ConnStep`, `ProcStep` and `UserStep`
  for each thread. Windows runs every ready thread eventually, and no step of
  them waits for anything but what its guard says (room in the pipe, end of
  file, the end of another thread). A failure of the duplication is not part of
  `ConnStep`: a blocked writer is never freed by one.
- A handshake ends: the code gives it `GUACD_USEC_TIMEOUT`.
- A session ends when its client is stopping (`Leave`, weakly fair only then):
  libguac's input thread checks the client's state. While the client runs, a
  user may stay for ever, and no liveness property says otherwise.
- `ClientFree` ends in `ProcWin32`; in `TimedFree` it need not, and the wait
  still returns, by its deadline: there `Tick` (the clock), the waiter and the
  freeing thread's own steps are fair, the call of `guac_client_free` is not.
- New connections need not arrive; `collect-dlls.sh` need not be run again. A
  script that runs goes on until it ends or is interrupted.
- In `SocketPair` connection threads and user threads are fair as above; the
  end of a session (`EndSession`), a browser that leaves (`BrowserLeaves`) and a
  stranger are not.
- `fnmatch()` is one thread's computation: it goes on (`FnmatchStep`).
- In `C11Mutex` a thread whose pthread call can return does return
  (`MtxStep`): a timed lock, a lock of a mutex that is free, a wait that was
  signalled. Nobody has to unlock or to signal, and plain locks need not return.
- In `CrtFd` only proc threads are fair, which is what `FdChannel` asks for:
  what is sent is received, and a closed channel ends.

## 5. Proofs

All theorems hold for every value of the constants under the assumptions the
modules name: `ProcAssumption` (creators are connections, the pipe has room for
at least one socket, faults are of the seven kinds), `NoProcAssumption` (the
null pointer is no proc), `CrtFdAssumption` (finitely many procs, and two
descriptor numbers for each: the C runtime has thousands, and a full table is a
failure of `guacd_create_proc` that `ProcWin32` has), `TimedFreeAssumption` (the timeout is a natural
number), `CollectAssumption` (`ldd` names DLLs, and binaries are not DLLs),
`LddAssumption` (for a binary whose DLLs Windows looks up in the bundle, `ldd`
names all that were loaded, those its DLLs need included; otherwise a DLL that
line 40 drops would hide what it needs), `ListingsAssumption` (any part of such a
list may be what is printed),
`SmallHandles` (handles are positive and below 2^31, which the comments at
`windows-posix.h` 174-175 and `move-fd-win32.c` 86-87 rely on; a SOCKET is at
least as wide as an int), `FnmatchAssumption` (patterns and strings are
sequences of characters), `C11Assumption` (an int has a positive number of
values; the null block and client are none), `MtxAssumption` (a bound for the
depth of locks), `UuidAssumption` (a GUID has the fields Windows gives it, the
first of 32 bits).

**ProcWin32Proofs.** `TypeCorrect` is inductive by itself: the room test of
`SendFd` bounds the pipe. The others need more, each a conjunction over procs:

- `JoinInv` (for `JoinBeforeFree`): a connection thread that has handed its own
  socket over and is past the join has a proc thread that has returned, and
  only the creator frees a structure. `ProcFreedAfterJoin` alone is not
  inductive: it says nothing of the steps between join and free.
- `FreedInv` (for `FreedAfterEof`): a proc thread past its recv loop found the
  pipe drained and closed, and nothing is written to a closed pipe or opens it.
- `OwnerInv` (for `CreatorOwns`): until the first socket is read, the pipe is
  empty if the creator is not yet handed over and begins with the creator if it
  is; afterwards the creator is not in the pipe. Others have the proc only
  after that hand-over. It connects the flag to the order of sockets and to the
  time at which the proc enters the process map.
- `SocketsAccounted` (for `SocketsHaveOnePlace` and `NoSocketLost`): a
  duplicate is piped exactly if it is at one position of one pipe, owned exactly
  while its user thread runs, and closed before that thread ends. `OnePlace`
  makes a read take it out of the pipe for good; `PluginOf` and `FreedInv` say
  that `CloseRead` drops a socket only after a plugin failed, because otherwise
  the loop has drained the pipe; `HoldsProc` that a connection that adds its
  user has a proc. `NoSocketLost` is for one proc: where none of finding 2, an
  unchecked `pthread_create` and a failed `guac_socket_open` happens, all
  duplicates are closed when the proc thread and the user threads have ended,
  whoever stopped the proc in between. `CreatorInv` gives the ended proc thread
  a proc that was created. With several procs a stale close could reach another
  pipe (finding 3 has the same cause), and the theorem claims nothing.

**ProcWin32Channel.** `KeepsChannelPromise`: if no plugin, thread or
`guac_socket_open` fails (`ServesUsers`), every behaviour of the threads is one
of `FdChannel` without its fairness: initial states map to initial states and
every step to a step or a stutter. It uses all the invariants above and
`ServedInv` (a proc past `load_plugin` has its plugin, a running user thread its
socket).

**CrtFdProofs.** One theorem holds for any procs and users. `CrtFdTypes`: there
are always two free numbers for a new pipe. Each proc has at most its two ends
in the table, so the procs but the new one leave two numbers over; this counting
(`TwoAreFree`) is why the assumption asks for finitely many procs. The rest
needs the hypothesis `Apart`: there is one proc, or each proc has one user.
Without it `ServedByOwnProc` is false (`fd_misdelivery`), so the theorems say
exactly where the reuse of numbers is harmless. `NumbersStandForTheirs` and
`UsersMeetTheirProc` rest on four invariants:

- `BaseInv`: the types, `OneDescriptorEach`, and that nobody has a copy of the
  number of a proc that does not exist yet.
- `OwnInv`: `proc->fd_socket`, and every copy of it that a thread is about to
  write to or to close, stands for the proc's write end or for a closed number;
  it does for as long as no other proc is given that number.
- `AloneInv`, with one user for each proc: the socket is sent while the field is
  set, the user thread stops the proc later, and the connection thread finds the
  field cleared after its join. So no copy outlives the descriptor it names.
- `WaitedFor`: others work for a proc only once its creator waits for the proc
  thread, or the thread has returned. When the structure is freed under them
  both its ends are closed; what they then read from it is any number, and with
  one proc none stands for anything (`ReadsOwn`), while a user that has a proc
  for itself never reads it that late (`AloneReads`).

With one proc nobody else can be given a number; with one user for each,
nobody holds a copy of a number that is free. From these follows
`KeepsPromiseOverNumbers`: every step is one of `FdChannel` or a stutter.

**TimedFreeProofs.** One inductive invariant proves the five safety properties:
who holds the mutex and where (`MutexInv`), what the freeing thread has done by
when (`ProgressInv`), and that a wait ended for the reason noted in the history
variable `woke` (`DeadlineInv`). `FrameKept` covers every use of the waiter's
frame by the freeing thread, from the read of `op->client` (line 133) to the
unlock (line 138). The same invariant proves `FreeIsOneWait`: under the mapping
in `TimedFreeProofs` (one proc, its pipe closed and drained, its creator in the
join) every step is `CleanupClient`, `CleanupClientNoThread`, `FreeWait`,
`ClientFree` or a stutter. The hypothesis `WithinFaults` is the correspondence
of failures: going on without a free thread is `nofree`; returning after the
deadline or a spurious wake-up is `timeout`. It excludes a freeing thread that
reads `op->client` only after the frame is gone and may free anything, which
`ProcWin32` does not have. Without a fault the theorem says that the proc thread
goes on only when its client is freed.

**CollectDllsProofs.** What is needed is defined as the least set of DLLs with
which every binary and every DLL of the set finds what `ldd` lists for it.
`SoundInv` says the search knows only needed DLLs (`NothingTooMuch`).
`CompleteInv` says that what a visited DLL needs is visited, pending or still to
be read. What a binary needs is so too, or it lies in the bundle and was dropped
from the list; then all that it needs in turn is either in the list or in the
bundle as well, because `ldd` lists what is loaded, not only what is linked. So
when nothing is pending the visited set and the DLLs that were found in the
bundle are together sufficient (`AllFound`) and contain the least set
(`NothingMissing`). Every DLL visited is in the bundle or about to be copied
(`FilesInv`), and no step of a run takes a file out of it (`LeftoversKept`,
`LeftoversSame`). The premises `NoneOld` and `NoneBroken` are the two cases in
which the list is not what the script relies on. Cycles need no special case.
`BinsInv` (for `BinsRenewed`) says which binaries have been copied at each point.

**SocketPairProofs.** The five safety properties of `SocketPair` say little
about handles nobody talks about, so none is inductive. `HandleInv` says who
holds which handle at each point of the code: what a variable or an int that is
in use names is open and for the socket its holder believes in (`HeldIsOpen`);
whatever is open is held (`OpenIsHeld`); a socket and its duplicate are held
under two handles (`DuplicateDiffers`). The casts keep a handle
(`CastsKeepHandles`), and each action opens a free handle, closes one it holds,
or moves what it holds (`StepOpens`, `StepCloses`, `StepMoves`). Reuse needs no
case of its own: a handle that is handed out was held by nobody.

**FnmatchProofs.** `Matches` is a definition without an algorithm: the string
can be cut into one part for each piece of the pattern. The lemmas about it
(`MatchesPiece` to `MatchesLastStar`) say what its first piece does. The
invariant `NothingMissed` says that the pattern matches the string exactly if
the innermost call will find that it does, or a try that a waiting call has not
made yet will. When no call is left this is `MatchAgrees`. For
`RecursionBounded`, `BehindStars` maps the waiting calls to stars of the
pattern, each further on than the one before.

**CompatProofs.** For threads and mutexes, `C11Inv` follows the wrapper: its
owner has not given it away, and what was written in it stays until it is read.
`PointerRoundTrip` carries every int through a pointer. `CodesTellTheTruth` is
inductive with `MtxBelief`: outside a condition wait the locks a thread counts
by its codes are the depth of the mutex it owns. For identifiers, the invariant ties the bytes of every
variable, and the characters of every text, to the GUID noted beside them
(`VariablesHold`, `TextsHold`). The work is in the lemmas about the conversions:
a field is the sum of its bytes (`Quad`, `Pair`), so bytes tell GUIDs apart and
are ordered as they are (`BytesTell`, `BytesOrder`: the first byte that differs
lies in the first field that differs), and texts tell bytes apart, part by part
from the right (`HexTells`, `JoinTells`, `TextTells`).

Only model-checked: liveness (`StopEndsProc`, `HandOverEnds`, `LastUserStops`,
`SocketsReleased`, `Returns`, `Ends`, `EofArrives`, `FnmatchReturns`,
`CallsReturn`, and the fairness of the refinements), which the prover does not
reach. Every other property of a passing run is a theorem: the invariants under
their own names, the safety part of `ImplementsFdChannel` as
`KeepsChannelPromise` and `KeepsPromiseOverNumbers`.

## 6. What is not modelled

- The copying that the I/O threads of `connection.c` do; of these threads
  `SocketPair` has only what ends them (end of file or an error on the user's
  socket, a browser that is gone) and what they close. A pair of them counts as
  one thread.
- A pair whose far end is a stranger's is still called a pair: `accept()` tests
  nobody (`windows-posix.h` 207), although line 173 promises two sockets that
  are connected. In `SocketPair` the I/O thread of such a connection ends early
  (`NotCutOff` names the case); what the stranger may send is not modelled.
- The detached threads' identifiers, logging, and the release of `params`.
- The inside of libguac: plugins, `guac_user_handle_connection`, and what
  `guac_client_free` does beyond ending the client.
- Handles of 2^31 and above, which the casts do not keep: `SmallHandles`.
- `threads.h`: thread-specific storage, `call_once`, `thrd_sleep` and the other
  calls that are passed on with nothing kept; `cnd_init` and `cnd_destroy`.
- `windows-posix.h` outside `socketpair()` and `fcntl()`: the process stubs
  return constants. Two wrappers are worth a reader's attention. `sigaction()`
  with an `old` sets SIG_DFL and the old handler again (106-111), with a moment
  in which a signal ends the process. `setenv()` writes the environment of
  Windows (76) while `getenv()` (75) reads the copy of the C runtime. Their
  callers (`daemon.c` for the first, `patch-source.py` 220) are not in the
  repository, so what either difference leads to cannot be modelled from it.
- `patch-source.py` and `build.sh`: the trees, tarballs and tools they work on
  are not in the repository. Their hazards are listed in `PROJECT.json`.
- Why Windows looks in the bundle first: `CollectDlls` is told for which binaries
  (`BundleFirst`) and takes any such set. For DLLs of MinGW's directory `ldd`
  prints the same lines in every run. What it prints when it meets an old DLL of
  the bundle is any list.
- `CrtFd` has no failed duplication (`move-fd-win32.c` 53 and 63) and no plugin
  that fails to load (`proc-win32.c` 194-204). Both end in stops and closes that
  the module has, of the same numbers.
- A proc thread whose creator's hand-over failed may read `proc->client` from a
  freed structure (line 188); `ProcWin32` takes what follows for a plugin that
  does not load. Where a freed `guacd_proc` is written to (line 323), nothing
  else changes.
- The license, NOTICE and CHANGES files of the bundle.
- The header comment of `proc-win32.c` (line 12) calls the proc thread
  detached. It is created joinable and is joined, and is modelled so.

## 7. Plan

What a continuation would add, in this order:

1. `BuildPipeline`: the steps of `build.sh` with `set -e`, a crash between any
   two and the next run; the tarball that is kept though incomplete (line 82),
   the clean extraction (line 89), the check of the result (line 258).
2. A violation run of `SocketPair` for the stranger on the loopback port.
