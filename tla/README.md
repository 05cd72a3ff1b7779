# A verification project for the lilac BBS

The repository holds a bulletin board system of the KBS family, configured for
the site *lilac* (`--enable-site=lilac`): a telnet server that forks one process
per connection, a web interface, and a handful of daemons, all of them working
on the same shared memory segments and files through the library `libBBS`.
There is no server that owns the state; the processes are the concurrency.

## 1. Inventory

Site configuration used throughout: file locks (`USE_SEM_LOCK` is off),
`MAXACTIVE` 3000, `USHM_SIZE = MAXACTIVE + 10` slots (src/src/struct.h:183).

| Part | State | Operations | Interacts with | Hard because | Correct when |
|---|---|---|---|---|---|
| **login table** `libBBS/utmp.c` | `utmpshm` (entries), `utmphead` (free list, hash lists, sorted ring, counters), lock file | `getnewutmpent`, `getnewutmpent2`, `clear_utmp`, `clear_utmp2`, `kick_user_utmp`, clean pass, `apply_ulist_addr`, `apply_utmp` | every program | writers of many processes, readers without a lock, kills, signals in handlers, pid reuse | three lists agree with the entries in use; nobody's entry is taken by a stranger; the lock comes back |
| **telnet login / exit** `src/newmain_single.c`, `site/lilac.c` | `pc` of the process, `utmpent`, `started` | `login_query`, `multi_user_check`, `u_enter`, `u_exit`, `abort_bbs` | login table | check long before use, SIGHUP at any point | login limit, exit ends |
| **web sessions** `bbs2www/lib/bbslib.c` | cookie (slot, key), guest table | `www_user_login/init/logoff`, guest entries | login table | session outlives the request, pid 1 for all | stale cookies are refused, entries not damaged |
| **user cache** `libBBS/ucache.c` + `daemon/miscd.c` | `uidshm`: hash lists of names, free list of uids; `.PASSWDS` | `getnewuserid*`, `setuserid2`, `setuserid_internal`, `searchuser`, `load_ucache`, `flush_ucache`, counters file | registration, deletion, change of names, userd, killd, flushd | client times out, server goes on; records written back without the lock; searches without it | one uid per name, no uid and no account lost |
| **articles** `libBBS/article.c`, `record.c` | per board: `.DIR`, `.ORIGIN`, `.DELETED`, bodies | post, delete, undelete, edit title, delete a range, make `.ORIGIN` anew, killdir | board cache | two kinds of lock that do not see each other; sizes and places taken before the lock | index, deletion list and bodies agree; sorted by id |
| **board cache** `libBBS/bcache.c` | array of boards, last id, flag for `.ORIGIN` | `get_nextid_bid`, `resolve_boards`, `flush_bcache`, `getlastpost`, `delete_board` | articles | ids are saved now and then, guessed after a crash | ids unique and in order |
| **messages** `libBBS/libmsg.c`, `src/sendmsg.c` | two index files, text file, number of the first unread one | `save_msgtext`, `get_unreadmsg`, `sendmsgfunc`, `r_msg`, `receive_webmsg`, `mail_msg` | login table (signals) | three files, three locks; number moved under a shared lock; signals are not counted; files removed under a reader | each message delivered, to its login, with its text |
| **read marks** `libBBS/boards.c` | per-user cache of `BRC_CACHE_NUM` boards, sorted list of read ids | `brc_add_read`, `brc_unread`, `brc_update` | articles | merging at the end of a bounded list | read stays read |
| **chat server** `daemon/station.c` | users, rooms, invitations | about 40 commands in one loop | telnet clients | slots reused, rooms closed | rooms and occupants agree |
| **locks** `libBBS/stuff.c` | semaphores | `get_locksemid`, `lock_sem` | all | creation race | mutual exclusion |
| announcements, mail, votes | record files, directories | posting, deleting | record files | several files per operation; `delete_record` takes no lock | index and files agree |
| telnet server, interface, daemons, filters, innbbsd, statistics, vendored code | - | I/O, menus, batch jobs | - | - | not modelled, see section 8 |

How they interact: a login takes a slot of the login table and finds its user in
the user cache; a message goes to a file of the receiver and to a login by a
signal, whose pid is read from the login table; an article takes its id from the
board cache and its place in files that every process writes. Nobody sends a
request and gets an answer except to `userd`, which alone makes new users.

The hazards of these parts, each at its line, are listed in `PROJECT.json`.

## 2. Plan

In order; the first eight are done.

1. `Utmp`: the login table and everything that writes to it (abstract
   specification: `LoginTable`).
2. `UtmpRing`: the ring statement by statement, with its inductive invariant;
   `UtmpRing_proofs`.
3. `UtmpReaders`: walks without the lock; composes with `UtmpRing`.
4. The three disagreements met on the way (runs that expect a violation).
5. `ChatStation`: rooms, users, invitations of `station.c` (abstract
   specification: `ChatRooms`).
6. `UCache`: the table of user ids with the request to userd, its timeout, and
   the searches.
7. `MsgBox`: the files of one user's messages, its logins and its senders.
8. `Board`: the files of one board and all that changes them.
9. `MailBox`: `delete_record` (no lock at all) and `append_record` on a mail
   folder, with the spool `mail` counts.
10. `Brc`: `brc_add_read` as a function on sequences against a set of read ids.
11. `WwwGuest` and the login counters file.

Proofs: every safety property of the passing runs is a theorem (section 6); the
next ones will come with the modules above that are not written. The semaphores
of `stuff.c` are no longer planned: the site is built with file locks.

## 3. Modules

`Links` reads a list kept in an integer array (`Chain`, `Ring`) as a sequence.
Nothing in it is code; the invariants and the refinement mapping use it.

`LoginTable` is what the login table promises: a pool of slots, a list of those
in use sorted by name, one list per hash value. `Login` takes the slot freed
last and enters it before the first entry that is not smaller; `Logout` takes a
slot out.

`Utmp` is the table as arrays, and its users. `utmp` is the shared memory; the
operations of utmp.c are functions of it (`NewUtmpEnt`, `Clear2`, ...), and the
actions are the steps between which another process can run:

| Action | Code |
|---|---|
| `Connect` | login_query: `get_utmp_number() >= MAXACTIVE` |
| `CheckMulti`, `PickWindow`, `KickWindow`, `HangUp` | multi_user_check, multilogin_user |
| `Enter`, `EnterFull` | u_enter, getnewutmpent |
| `Clean` | one round of the clean pass; runs with the lock held |
| `Start`, `Leave`, `ClearOwn` | `started = 1`; u_exit up to and including clear_utmp |
| `Hup`, `HupInLock`, `Crash`, `LongLock` | abort_bbs, inside and outside utmp_lock; death; the 10 s alarm |
| `KickUser`, `KickSignal`, `KickLock`, `KickClear` | kick_user_utmp, entry by entry |
| `WwwBegin` ... `WwwFail` | www_user_login, www_user_init, www_user_logoff |

What is abstracted: names are numbers in the order of strcasecmp; the reasons
for a login limit (permissions, guest) are one number `TelnetLimit`; time is
nondeterminism (the clean pass may or may not be due, an entry is idle or not,
an alarm may fire whenever the lock is taken by another). The uid and name of a
cleared entry are a value of `Garbage`, because `zeroinfo` is not initialised.

`UtmpRing` splits the insertion into and the removal from the ring into single
assignments, so that a kill or a reader can come between any two. Its history
variables `order`, `len`, `at` are the list the arrays stand for; no step of the
program's variables depends on them. After a kill that leaves changes half done
(`torn`) the model stops: there is nothing the code promises from there on.
That is why this run does not check deadlock.

`UtmpReaders` adds one reader (apply_ulist_addr), each of its reads a step. The
model ends with the walk, or with the "maybe loop" alarm; what the unlocked
rebuild then does to a writer at work is not modelled. One walk begun in any
reachable state covers every walk, since a walk keeps nothing for the next one.

`ChatStation` is the chat server: one process, so a line from a client is one
step. `users` and `rooms` are the two tables; `exit_room`, `enter_room` and
`logout_user` are functions of both, because the commands call one after the
other (`Kick`: exit, then logout or enter). The actions are `Accept`,
`LostConn`, `Login`, `LineRefused` (a line of someone in no room), `Talk` (lines
that change nothing, refused commands among them) and one per command that
changes the tables. `handling` is there for a user who has put himself out (a
bye, a kick of oneself) with more lines in the same recv: they are executed for
a slot that may be closed already. For a user still in a room the next line may
as well come by itself, so no state is kept for it. Any of these lines may be a
login: `src/chat.c` sends the first, but whatever a user types goes out as it is,
"/!" lines too, and the server runs login_user for whoever is in no room, without
a look at whether he has logged in or still has a connection. Somebody whom a
locked main room kept out may therefore become another client, and a slot that
was closed by the line before may be logged in to: a *ghost*, which counts in its
room but is connected to nobody. Nothing removes it but the next connection, which
takes its slot with all but the room left as it was (`left`), while the room goes
on counting the ghost (`lost`). Both fields are history; no step depends on them
but the bound `MaxLost` of the model, which ends it when a room has counted so many.

`ChatRooms` is what this promises: rooms known by name, with members, operators,
invitations and locks that end with the room, or with the connection. It has no
indexes and no counters, which is where `station.c` could go wrong. What ghosts
do to users is said there too: they hold no name against others, a room they
never left stays open (`haunted`), and who gets a ghost's seat (`Seat`) is called
as the ghost was until he logs in.

### The user cache: `UCache`

`hashhead`, `next`, `passwd` are `uidshm`; `file` is PASSFILE; `queue` is what
waits in userd's socket. A change of a name runs under the lock of the cache and
takes three steps (`job`), because searches take no lock.

| Action | Code |
|---|---|
| `Register`, `Registered`, `Timeout` | new_register; getnewuserid2, which waits 5 seconds for the answer |
| `Delete`, `SendDel`, `Deleted` | d_user; setuserid2 with an empty name |
| `Modify`, `SendSet`, `Modified`, `WriteBack` | modify_userinfo: copy, rename, write the copy back |
| `Delete` with `"kill"`, `Kill` | killd, which changes the cache itself |
| `userd`, `Link`, `Name` | userd: getnewuserid, setuserid_internal (out of the old list, into the new one, the name) |
| `StartSearch`, `Hop`, `Missed` | searchuser |
| `flush_ucache`, `Restart` | flushd; load_ucache, fillucache |
| `Die` | a process ends at any point of its operation (a hangup); its request stays with userd |

`Before` and `Remove` read and write the code's `next[-1]` where it does: the
search for the slot before begins at index 0, that is at `next[-1]`, which is
the last list head. Of a record the model keeps the name, the
account it was written for and whether it has its permissions; a registration is
an account of its own. What the code promises depends on what met what, so the
model remembers it (`mixed`): two operations on one slot at a time (`overlap`), a
rename whose client had given up (`late`), a rename inside a hash list
(`samekey`: the code does not look whether the name is taken) and a name twice
in PASSFILE (`dup`: load_ucache then loses the rest of the free list).

### Messages: `MsgBox`

A file is a name and an inode, because `mail_msg` removes files that others have
open. `WriteLocked` and `ReadLocked` are the locks on `msgindex` and
`msgindex2`: a writer of `msgindex2` keeps out readers of the number, two
readers do not keep out each other.

| Action | Code |
|---|---|
| `Send` | sendmsgfunc up to the text: the limit of unread messages |
| `OpenIndex`, `OpenContent`, `LockIndex`, `WriteHead`, `WriteText`, `OpenIndex2`, `AppendIndex2` | save_msgtext |
| `Notify` | the rest of sendmsgfunc: own copy, SIGUSR2 or CHECK_MSG |
| `r_msg_sig`, `Answer`, `CtrlZ`, `WebPage` | the signal handler; igetkey; bbs_getwebmsg |
| `Take`, `Bump` | get_unreadmsg: read the number, write back the next one |
| `LoadHead`, `Show`, `Unflag` | the loop of r_msg and receive_webmsg |
| `MailMsg`, `Unlink`, `Abort` | mail_msg, file by file; the end of its process between two of them |
| `Die`, `Leave` | a sender or a login that ends at any point |

A signal that finds one pending is lost (POSIX), so `flag` is a Boolean and
`msg_count` a number. The head that r_msg looks at when it could read none is
what the stack held: `IsMine` then is either. `rd[l].other` and
`rd[l].cleared` say that another login read, or files were removed, since the
r_msg began. mail_msg removes the files whatever became of the letter it put them
in (nobody looks at what mail_file returns), so `disposed` has the messages that
it handed over, whether they arrived or not. A sender killed between `WriteHead`
and `WriteText` leaves a head in `msgindex` without its text, and the next sender's
text is at that place; r_msg, which reads `msgindex2`, never shows that head.

### Boards: `Board`

`.DIR`, `.ORIGIN` and `.DELETED` are sequences of records; `body` is the first
letter of each article's file. A section under one flock that waits for nothing
is one step; what the code reads before the lock is a step of its own.

| Action | Code |
|---|---|
| `Post`, `AppendDir`, `AppendOrigin` | after_post |
| `Delete`, `Map`, `Cut`, `MapOrigin`, `CutOrigin`, `cancelpost` | do_del_post, del_origin, cancelpost |
| `Undelete`, `Check`, `Move`, `Insert`, `InsertOrigin`, `Blank` | do_undel_post, insert_func |
| `EditTitle`, `Find`, `Write`, `FindOrigin`, `WriteOrigin` | edit_title, change_post_flag's search, substitute_record |
| `DeleteRange`, `Stat`, `MoveRange`, `CutRange`, `Flag` | delete_range: delete_range_base (fcntl lock), then setboardorigin |
| `Regen`, `RegenLock`, `RegenWrite`, `RegenClear` | board_regenspecial |
| `killdir`, `flush_bcache`, `Restart` | miscd; resolve_boards |
| `Die` | abort_bbs at a SIGHUP, a fault or a kill: one process ends between any two of its steps |

`View(s, n)` is a file as a mapping of n records shows it, zero behind its end,
and `Removed` cuts to the size that was taken before the lock: so a record that
came in between is lost, and a file that got shorter is lengthened by zeros, as
in the code. A process that ends leaves what it has done: an article whose body
has its new name and whose record is in no list (`InHand`), a thread in `.DIR`
that is not in `.ORIGIN` or the other way round (`Enters`, `Leaves`), a range that
is marked but not cut (`HalfDeleted`: delete_range blocks SIGHUP there, a fault or
SIGKILL can still end it), or a `.DIR` that is cut while the flag for `.ORIGIN` is
not yet set.

### What the exemptions of these three say

The code has no transactions, and some promises hold only unless certain
operations meet. The properties say which: each is of the form "this is so,
except where ...", and the exceptions are recorded by history variables that no
step of the program's variables depends on. For each exception it was checked
that the property without it is violated, so none of them hides a thing that
holds, and what TLC then shows is what the exception stands for:

- `UCache`: a deletion takes the permissions from the slot's next owner, who
  registered before it was through; a copy written back after a deletion brings a name back in
  a slot that is on the free list; a late rename leaves a name in the list of
  another key, because the copy with the old name is written over it; two
  renames inside one list give one name to two slots; a registration whose
  client gave up, or ended before it wrote the record, leaves a name nobody can
  log in with; a search that stands on
  a slot while it is moved goes on in another list and misses its user.
- `MsgBox`: two logins of one user return the same message and set the number
  back; a text lands in a file that mail_msg has removed, its head in a new one;
  signals that coincide leave a message unread until the next one or Ctrl-Z; the
  loop for a message of its own turns for ever when another login has read the
  rest. The limit of unread messages is exceeded by one for each sender; the
  bound is tight.
- `Board`: an article posted between the mmap and the flock of a deletion is
  cut off; two deletions leave a zero record; a title is written over the record
  that moved to the place; two undeletions list an article twice; the
  record blanked in `.DELETED` is another one after killdir has moved the file;
  after a crash ids are used again; `.ORIGIN` gets out of order and then its
  bisection misses; a thread that was deleted, and perhaps is back under another
  id, is entered in `.ORIGIN` after that; a deletion takes a thread from
  `.ORIGIN` that is back in `.DIR` by then. The last needs two undeletions of one
  thread, a range deletion and a third process that makes `.ORIGIN` anew; TLC
  finds it with 3 processes and 5 events limited to these operations, which take
  too long for the run. A process that ends spoils the article it has between two
  lists, and `.ORIGIN` until it is made anew, but no other article and no ids.

`MCUtmp`, `MCUCache` and `MCBoard` give the instances their hash functions and
first files, `MCChat` and `MCMsg` the symmetry. The definitions commented
*Faulty* are variants of the operator that follows them, with a plausible bug;
no specification uses them: they show that the properties can fail.

## 4. Runs

| Run | Instance | Shows |
|---|---|---|
| `utmp_telnet` | 3 slots, 2 telnet processes (one a sysop's), 2 users in one hash list | type, free list, hash lists, ring; `LiveEntryKept`; a cleared entry may read as a user's |
| `utmp_web` | 2 slots, 1 telnet process, 1 web session, 2 users | free list and ring, with entries of pid 0 and 1 and any leftover uids; `TableSpec` (refinement of `LoginTable`), which implies the hash lists; `LiveEntryKept` |
| `utmp_live` | 2 slots, 2 telnet processes, 1 user, `FairSpec` | `ExitEnds`, `LockReturned`; `CountersAgree` with counters modulo 2 |
| `utmp_ring` | 3 slots, 3 names | `Inv`, `RingImplements`, with kills |
| `utmp_readers` | 3 slots, 2 names, one reader | `ReaderOnRing`, `LeadsToHead`, `InsertsHideNobody`, `NobodyTwice` |
| `chat_rooms` | 2 connections, 2 rooms, 2 accounts (one a sysop's), the mode `locked`, one lost ghost | type, `OccupantsAgree`, `Distinct`; `ChatSpec` (refinement of `ChatRooms`) |
| `accounts` | 3 slots, 2 keys, 3 names (two of one key), 2 clients, 3 first files, 3 events | type, `ListsSound`, `NamesSound`, `AccountKept`, `PhantomOnlyTimeout`, `MissedOnlyMoved` |
| `messages` | one telnet and one web login, 2 senders, limit 0, 3 events | type, `NothingSkipped`, `TextMatches`, `UnreadBounded`, `WakeupsCover`, `SpinOnlyWithOther`, `AcceptedKept`, `TakenIsShown` |
| `board_files` | 2 processes, 4 first boards, 4 events | type, `IndexAgrees`, `IdsSorted`, `OriginsListed` |
| `utmp_kickpid` | 2 slots | violation: a kick signals another user's process |
| `utmp_limit` | 2 slots, one user | violation: two logins pass a limit of one |
| `utmp_full` | 3 slots, a counting reader | violation: a full table is "rebuilt" |

Bounds. Three slots are the least with an entry that is neither first nor last
in its list; two processes are enough for every pair of conflicting steps, and
because an entry survives the death of its process, three entries occur with two
processes. Two users of one hash list give both "other user in the list" and
"other entry of the user". With a web session two slots suffice for its own
cases (its entry reallocated to a telnet process and back) and keep the
refinement check affordable. `KickMax` (10) is the size of the code's array and
is not reached. Counters wrap at `CounterMod`; 2 tells a missed count from none.
`SeenMax` caps the reader's history at "twice".

In `chat_rooms` two connections and two accounts are enough for a slot to pass
from one account to the other with an invitation outstanding, for a ghost beside
a connection and for a ghost's slot that is taken over; one room beside the main
one is closed, renamed, opened again and full. `MaxLost` 1 tells a room that
counts a ghost from one that does not. Two larger instances were checked by hand
and show nothing else: two rooms beside the main one without the refinement
(1.28 million states), and with it but no lost ghosts (352 thousand). Chat ids and
room names are symmetric: no property tells them apart.

`accounts`, `messages` and `board_files` bound the number of operations begun
(`MaxEvents`; steps of one begun are not counted), kills, deaths, flushes and restarts
among them. Three operations of two processes give every pair of overlapping
ones with a third that set up the state, which the first files do as well: a
cache with a free slot, a full one, one with a name twice; a board with a reply,
with a gap in its ids, of one article, an empty one. Three names of two keys give renames
within a list and between lists. On a board four are needed, since an undelete
needs a deletion before it. `MAXMESSAGE` 0 makes the limit of unread messages
bind at once. Broadcasts (`Modes` with 3) are left out of the run for its time:
they differ in that neither limit nor own copy applies. With two telnet logins
instead of a web login nothing else is found. Clients, senders, processes and
logins are symmetric in their actions. In these runs the system stops when the
events are used up, so deadlock is not checked.

Elsewhere deadlock checking is off where the system may stop: with every slot held by a
dead process no connection is accepted and the clean pass, which runs only after
a successful allocation, never frees one (a hazard of the code, listed).

A cleared entry may read as anybody's (`Garbage`): `utmp_telnet` takes nobody or
one user, `utmp_web` any. With the right leftover clear_utmp's test lets a kick,
or the retried log-off of a web session, clear a slot that is free already
(`HitsLeftover`): the slot is then on the free list twice, two processes get it,
and nothing can be promised of the table. These two runs, and the theorems, use
`UnhitSpec`: they follow the program up to the first such clear. It is the only
way the lists come to harm: every other step of every actor is in it. `Spec`, without that
limit, is what the three runs `utmp_live`, `utmp_kickpid`, `utmp_limit` use; they
take {0}.

The late `pid = 1` of a web login: www_user_login writes it after the lock is
released, and if its entry has been cleared and reallocated by then, the write
turns a telnet entry into one the clean pass may take. `LiveEntryKept` names this
exception; the lists survive it.

## 5. Fairness

Only `utmp_live` assumes any: weak fairness of the steps of a process that holds
the lock (the sections under it do not block, except on a second lock of the
same process, which the alarm ends), and of the last step of an exit (wait for
the lock, or the alarm set for it). Users, kicks and connections are not fair.

## 6. What is proved

Each theorem holds for every value of the constants: any number of slots,
processes, connections, users, messages. The proofs of a component are in a
module of their own. `FiniteInduction` has what several of them need: the least
element of a set of numbers, induction over 0..N, and the existence of a function
defined by recursion over 0..N. With it the walks of `Links`, `apply_utmp`'s
search, `load_ucache`'s loop over the slots and the bisection of `Search_Bin` are
reasoned about.

| Module | Theorems | Of the runs' properties |
|---|---|---|
| `Utmp_proofs` | `TypeCorrect`, `FreeListKept`, `HashListsKept`, `RingKept`, `CountersKept`, `LiveEntriesKept`, `TableImplemented` | `TypeOK`, `FreeListSound`, `HashListsSound`, `RingSound`, `CountersAgree`, `LiveEntryKept`, `TableSpec` |
| `UtmpRing_proofs` | `Invariance`, `RingCorrect` | `Inv`, `RingImplements` |
| `UtmpReaders_proofs` | `NoReadOutside`, `WalkComesRound`, `NobodyHidden`, `NobodyDoubled` | `ReaderOnRing`, `LeadsToHead`, `InsertsHideNobody`, `NobodyTwice` |
| `ChatStation_proofs` | `TypeCorrect`, `CountsRight`, `WordsDistinct`, `Refinement` | `TypeOK`, `OccupantsAgree`, `Distinct`, `ChatSpec` |
| `MsgBox_proofs` | `TypeCorrect`, `NoneSkipped`, `HeadHasItsText`, `LimitHolds`, `SpinNeedsAnother`, `NothingLost`, `TakenComesUp`, `NoneForgotten` | `TypeOK`, `NothingSkipped`, `TextMatches`, `UnreadBounded`, `SpinOnlyWithOther`, `AcceptedKept`, `TakenIsShown`, `WakeupsCover` |
| `UCache_proofs` | `TypeCorrect`, `ListsCorrect`, `MissesWereMoved`, `PhantomsTimedOut`, `NamesLead`, `AccountsKept` | `TypeOK`, `ListsSound`, `MissedOnlyMoved`, `PhantomOnlyTimeout`, `NamesSound`, `AccountKept` |
| `Board_proofs` | `TypeCorrect`, `IdsStaySorted`, `PostsGetNewIds`, `BisectionFinds`, `BodyAndListsAgree`, `OriginKeepsUp` | `TypeOK`, `IdsSorted`, `IndexAgrees`, `OriginsListed`; `NewIdsAreNew` besides |

The assumptions on constants are those named in the modules (`UtmpAssumption`,
`UtmpRingAssumption`, `ChatAssumption`, `MsgAssumption`, `UCacheAssumption`,
`BoardAssumption`), which the runs evaluate: sizes are positive, pids are numbers
above 1, the sets of processes are disjoint, or finite where the arrays of the code
are, the first files of a board are sorted by id. The theorems of `Utmp_proofs` are
about `UnhitSpec` (section 4), for any `Garbage`.

### The login table: `Utmp_proofs`

The properties read the arrays by walking them, and a step changes three arrays
at once; so no property is inductive. The invariant `IInv` has two halves.
`Sound` says that sequences f, o and b[h] exist for which the arrays stand
(`Stands`): following `next` from `hashhead[0]` gives f, which has the free slots;
`list_next` and `list_prev` run round o, which has the slots in use in ascending
order; `next` from `hashhead[h]` gives b[h], the slots in use of that hash value;
a slot is in use exactly if it has a uid; the counters balance. `Acts` says that
each actor has, wherever it is, the user, slot and kick its next step needs
(`Fits`: for instance a clean pass has the lock and a slot to look at; only one
who is connected or complete kicks).

Lemmas about one chain or ring (`ChainPush`, `ChainTail`, `ChainDrop`,
`RingPut`, `RingDrop`) give `LoginStands` and `LogoutStands`: after
getnewutmpent and clear_utmp2 the arrays stand for the lists after LoginTable's
`Login` and `Logout`. `AllGo` shows for every action that it writes to the
table, if at all, by one of these two or by the late `pid = 1` of a web login
(`Write`); for a clear, that the slot is in use: what its uid is compared with is a
user's, and the clear is none that hits a leftover. So clear_utmp2 finds the slot in its
hash list, and its read of `next[-1]` for an empty list does not happen. Invariance, the refinement, and the properties
follow. The bound of the walks comes from the pigeonhole principle: a list
without repetitions is no longer than the table.

`LiveEntriesKept` adds that an entry a running process holds has its pid and its
user's uid (`Owned`). Then the clean pass finds the pid alive, clear_utmp of
another process compares another pid, and a kick that clears is of that user; only
the late write of a web login changes the pid of an entry it does not own.

### The ring and its readers: `UtmpRing_proofs`, `UtmpReaders_proofs`

`RingImplements` speaks of the moments when no writer is at work, and is not
inductive. `Inv` says for every program counter what the arrays
are: `HeadAt` and `Links` give each link as a function of the list `order` and of
how far the writer is (`Links`: at `i5` the last entry already leads to the new
one, at `r4` the entry before the one taken out already skips it); `Locals` and
`Passed` say where the writer's `cur` is and that everything passed is smaller;
`InUse` relates the list to `active` and the free list; then no duplicates and
sortedness. There is one lemma per statement of the code, one step per part of
`Inv`. Two lemmas on sequences (`WithPosList`, `WithoutList`) carry insertion
and removal.

For the readers `ReadersInv` adds what a walk relies on: `Watching`, the reader is
on a slot whose links are set; `Trail`, a slot taken out under the reader
keeps its link, so that the slots taken out since lead back to the ring (this is
where it matters that clear_utmp2 leaves the links of the slot it removes);
`Ahead` and `Behind`, who was on line when the walk began is seen or still to
come, and is seen once. `Effects` states once what a writer's step does to a link,
and each part is proved from it.

### The chat server: `ChatStation_proofs`

`Good` collects the invariant: `Typed`; `Seated` and `Counted` (who is in a room is
logged in, and the counter is the cardinality of those in it, ghosts included,
plus the ghosts whose slots were taken); `OneWord` and
`OwnNames` (the words the commands search by find one entry; of those who logged in
on the connection they have, which is not so of one with a ghost's slot, `TakenOver`).
exit_room,
enter_room and logout_user call each other, so each is given as a relation
between the tables before and after (`Exited`, `Entered`, `LoggedOut`, `Moved`,
`Renewed`), and every command is a composition of these. `Refinement` maps each
action to the action of `ChatRooms` of the same command, or to a stutter.

### Messages: `MsgBox_proofs`

Files are removed while they are open, so the invariant is about inodes:
`KInv(K)`, where K says as what file each inode was opened. Its parts: no message
is twice in the unread list (`Once`); the number of the first unread one passes only
what was taken (`Pointers`); two senders do not write to one file at a time
(`Apart`), so that the text at the place a head gives stays that of its message
(`Texts`); what a reader has counted and taken is still there (`Reading`,
`Alone`, `Kept`, `Taking`); the limit plus one for each sender (`Limit`).

`WakeupsCover` compares two counts that change at different steps, the unread
messages and the signals on their way. It is not inductive: an r_msg that has
opened a file which mail_msg then removes looks, and no longer counts, while the
unread messages of the new file stay. `Covered` counts only those that will look at the
file there is (`Sees`). The signals of all logins are counted as a set of tokens,
so that the theorems on cardinalities say what a step adds or takes (`OneMore`,
`OneLess`), and each step is shown to add as much to the sum as to the unread
messages (`CoveredGrows`).

### The user cache: `UCache_proofs`

Each slot has an owner o (the list it is in, 0 the free one, none while
setuserid_internal has it in hand) and a rank r that decreases along `next`: so
no list is cyclic, no slot in two, and a walk ends within the size of the table
(pigeonhole). setuserid_internal's removal through `next[-1]` is covered: it can
only be the head of another list that is read there. `load_ucache` is followed
slot by slot, by induction.

What the lists are for takes more, in layers that each rest on those before:

- `Entered`: every slot with an owner is reached from its head. With the ranks it
  gives `ReadInv`, where a search that holds no lock stands: on a slot from which
  the one it looks for is still ahead, unless it was moved (`MissesWereMoved`).
  Ranks are chosen anew at each change, so `ReadInv` says what they have in common.
- `Tasks`: whose each request in userd's queue, and the change under way, is, and
  what its process waits for, or that it has given up. It ties the numbers of
  operations (`seq`) to the processes, so that an answer meets its own question.
- `Alone`: as long as no overlap has been recorded, a slot is in one operation: two
  processes, two requests, or a request and another's process never have one
  slot. This is what the exemption `overlap` buys, and every later part uses it.
- `Phantoms`: a record's account is one that was told to somebody, or belongs to a
  registration given up (its process may have ended), or to the one that still has
  the slot and the number written there (`PhantomsTimedOut`).
- `NameInv`: at every moment, not only between two changes: who is named leads to
  his slot except the slot in hand (`Leading`), names differ (`Unique`), the change
  under way fits its request (`JobOK`), and the copy of a record that a process will
  write back has the slot's name (`CopyOK`), which is what a late rename breaks.
  `Nameless` says the same of free slots without it (`NamesLead`).
- `Fresh` and `Accounts`: a new account is in no record before its registrant writes
  it, and who was told of one has it, with his permissions, in the cache; deletions
  under way are of accounts given up (`AccountsKept`).

What `load_ucache` makes of a file (`LoadedRecords`) starts each of them, at boot and
at a restart. The proofs of `Phantoms` and `NameInv` showed that `PhantomOnlyTimeout`
needs no exception for the change under way, and that free slots need none for late
renames; both are now stated and checked without.

### Boards: `Board_proofs`

That `.DIR` is sorted is not inductive: an article could come back from
`.DELETED`, or from a process that has it in hand, with an id that `.DIR` has not
reached. `FilesOrdered` and `ProcsOrdered` bound the ids of both lists and of the
processes by the last id given (`nowid`); once a restart has repeated ids, or a
stale size or place was used (`disorder`), only the types remain. Posting then
appends the largest id (`PostsGetNewIds`). An undeleted article is inserted where
the bisection ends: at each turn what lies before the interval has smaller ids and
what lies behind it larger ones (`Narrowed`), and the interval is empty, or the
record found, within as many turns as there are records (`SearchDef`). If the id is
taken, it comes last with a new id. An edit writes a record over itself, or else
over a stale place. `Cut` and `CutRange` take records out through a mapping of a
size read before the lock: the lemmas on `View` and `Removed` say what comes of it.

`IndexAgrees` is only about articles that are in nobody's hands. The invariant `JInv` says of
every article not in `mixed` where it is:

- `Placed`: if its body has its M, it is in `.DIR` once or in the hands of one
  process, and in no second place (`Carries` names the steps at which a process
  has the only record of an article);
- `Marked`, `Findable`: records with a D are in `.DIR` only while a range
  deletion is between its two steps, and an article with its D is in `.DELETED` or
  about to get there;
- `Wanted`: its deletion was asked for, or `disorder` is set;
- `OneName`: an id stands for one article in all lists and hands. This is why a
  deletion that finds its record by the id, because the screen is out of date,
  gets what was asked for, and it rests on `PostsGetNewIds` and `FilesOrdered`.

What `View`, `Removed`, `Inserted` and `substitute_record` do to the places of one
article (`Filed`) is stated once; where a place or size was stale, the lemmas show
that every article hit is put into `mixed`. A death takes a process out of every
part that names processes; the only articles for which that matters are those it
carries (`Placed`) and those of a range between marking and cutting (`Marked`,
`Findable`), and these go into `mixed`.

`OriginsListed` is only about moments when nobody is at work. The third invariant,
`KInv`, adds how `.ORIGIN` differs from `.DIR` until then (`Origins`): what it lists
is a thread of `.DIR` or one that a process is about to take out (`Backed`,
`Going`), and a thread of `.DIR` is listed or about to be entered (`Covered`,
`Coming`). A process that dies takes its entry or removal with it, so `loose` is
set (`Enters`, `Leaves`). From `CutRange` on `loose` is set too, and nothing is
claimed until `Flag`, which says that `.ORIGIN` is to be made anew; `loose` falls
there unless somebody is just making it. While the flag is set the first half is void; it comes back when
`.ORIGIN` has been made anew from the `.DIR` that one process saw (`MadeAnew`,
`OneMakes`). `.ORIGIN` is kept sorted, so that its bisections find what is there.

The attempt to prove `OriginsListed` as it stood failed at `AppendOrigin`, and TLC
then confirmed the reason with an empty first board, which the run did not have:
a thread is posted, deleted and undeleted under a new id before its poster enters
it, with the old id, in `.ORIGIN`. A second gap was at `CutOrigin` (the case
with three processes of section 3). Both are now among the exceptions. In return, the
proof showed that articles in `mixed` need none: the statement is about all
threads.

## 7. Only model-checked

- liveness: `ExitEnds`, `LockReturned` (temporal properties under fairness are
  not in the prover's reach);
- the three runs that expect a violation: a counterexample is a proof.

## 8. Not modelled

Everything in `PROJECT.json` with status `not_modelled`: the planned components
above (mail folders, read marks, guests of the web); votes and the announcement
tree, which are menus over files of one editor at a time; I/O (telnet
negotiation, screens, editors, PHP bindings); batch programs; innbbsd, a separate
program; the ssh daemon, zmodem and the games, which are third-party code.

Of components that are modelled:

- login table: `rebuild_list`, the friend list in an entry, the statistics of
  stay times; the read of `next[-1]` (utmp.c:628) when the hash list of a cleared
  entry is empty, where only a clear that hits a leftover (`HitsLeftover`) comes,
  behind which `UnhitSpec` does not go;
- user cache: the login counters file, the passwords and other data of a record,
  the signature of userd's requests;
- chat server: `num_conns`, which a second logout of one slot steps twice and
  nothing reads; the FD_CLR(-1) of that logout, which C leaves undefined (with
  these headers it may clear the bit of descriptor 63, whose client is then not
  served); a client that claims the utent -1 of an empty slot;
- messages: the screens of the reader and of the list of old messages, the
  sender's choice of a receiver, the ICQ-like prompts, messages from the chat
  server; why mail_file fails (the code does not ask);
- boards: marks and the reader's choices of articles, the poster's own deletions
  (`.JUNK`, handled like `.DELETED`), sticky articles, attachments, the cached
  number of articles and last post, reply counts (not compiled for this site),
  `delete_board`, a death inside one step (between the memmove and the ftruncate
  of a deletion, which leaves the last record twice, or in the loops of a range
  deletion), the comparison of delete_range_base (article.c:3242) of `.DIR` with what
  the moderator saw, which he may have skipped (bm.c:1262-1281), and what
  insert_func writes behind the mapping when the file
  fills a page exactly (the process faults there).
