-------------------------------- MODULE Utmp --------------------------------
(***************************************************************************)
(* The login table of libBBS/utmp.c and the programs that use it.          *)
(*                                                                         *)
(* The table is two shared memory segments: utmpshm (one user_info per     *)
(* slot) and utmphead (the arrays that link the slots).  A slot is on the  *)
(* free list hashhead[0], or on the list of its user's hash value and on   *)
(* the ring list_next / list_prev, which is sorted by user name from       *)
(* listhead on.  Slots are numbered from 1; 0 is the null link (the arrays *)
(* of the code are indexed by slot - 1).                                   *)
(*                                                                         *)
(* Writers hold the file lock ULIST.  A section under the lock is one      *)
(* action here, except the two in which something else matters before it   *)
(* is released: the clean pass that follows a telnet login and the clear   *)
(* that ends a kick.  What the code reads without the lock (login checks,  *)
(* the entries to kick, the validation of a web request) is an action of   *)
(* its own.  The ring's single statements are in module UtmpRing.          *)
(*                                                                         *)
(* Actors: one telnet process per connection (its pid is its name in       *)
(* Telnet; after it has ended a new process may get the same pid), and web *)
(* sessions, which outlive the requests that serve them and all share      *)
(* pid 1.  A user name and its uid are one natural number, ordered as      *)
(* strcasecmp orders the names.                                            *)
(***************************************************************************)
EXTENDS Integers, Sequences, FiniteSets, Links

CONSTANTS
    USHM_SIZE,      \* slots of the table
    MAXACTIVE,      \* logins at which a new connection is refused
    Telnet,         \* pids of telnet processes, naturals above 1
    Web,            \* web sessions
    Users,          \* uids, naturals above 0
    Hash,           \* utmp_hash: Users -> naturals above 0 (0 is the free list)
    Sysops,         \* the telnet processes that may kick any user
    TelnetLimit,    \* telnet logins at which multilogin_user() refuses one more
    WebLimit,       \* the same for web logins
    Garbage,        \* what the uid of a cleared slot can read as (see Clear2)
    CounterMod      \* the login counters wrap at this value

Values(s) == {s[i] : i \in DOMAIN s}
Slots  == 1..USHM_SIZE
Actors == Telnet \cup Web
Nobody == 0
Free   == 0         \* the lock is not held
KickMax == 10       \* size of kickuser_save.entp

ASSUME UtmpAssumption ==
    /\ USHM_SIZE \in Nat \ {0} /\ MAXACTIVE \in 1..USHM_SIZE
    /\ Telnet \subseteq Nat \ {0, 1} /\ Telnet \cap Web = {}
    /\ Users \subseteq Nat \ {0} /\ Hash \in [Users -> Nat \ {0}]
    /\ Sysops \subseteq Telnet
    /\ TelnetLimit \in Nat \ {0} /\ WebLimit \in Nat \ {0}
    /\ Garbage \subseteq Users \cup {0} /\ Garbage # {}
    /\ CounterMod \in Nat \ {0}

VARIABLES
    utmp,       \* the shared segments and the login counters of publicshm
    lock,       \* who holds the file lock ULIST
    scan,       \* the slot the clean pass of the lock's holder looks at next
    pc,         \* where each actor is
    user,       \* the user it logs in or has logged in
    ent,        \* the slot it got (utmpent); before, the slot picked for a kick
    kick,       \* the kick it is carrying out, see NoKick
    sig         \* the telnet processes with a SIGHUP to be delivered

vars == <<utmp, lock, scan, pc, user, ent, kick, sig>>

-----------------------------------------------------------------------------
(* The table: the operations of utmp.c, as functions of the shared memory. *)

Counters == {"login", "wwwlogin", "logout", "wwwlogout"}
Entry == [active : BOOLEAN, pid : Telnet \cup {0, 1}, uid : Users \cup {0},
          utmpkey : Actors \cup {Nobody}]
BlankEntry == [active |-> FALSE, pid |-> 0, uid |-> 0, utmpkey |-> Nobody]

\* resolve_utmp(): the segments as the process that creates them fills them.
EmptyUtmp ==
    [ uinfo     |-> [n \in Slots |-> BlankEntry],
      next      |-> [n \in Slots |-> IF n = USHM_SIZE THEN 0 ELSE n + 1],
      hashhead  |-> [h \in {Hash[u] : u \in Users} \cup {0} |->
                        IF h = 0 THEN 1 ELSE 0],
      listhead  |-> 0,
      list_prev |-> [n \in Slots |-> 0],
      list_next |-> [n \in Slots |-> 0],
      number    |-> 0,
      count     |-> [c \in Counters |-> 0] ]

Bump(t, c) == [t.count EXCEPT ![c] = (@ + 1) % CounterMod]
ActiveSlots(t) == {n \in Slots : t.uinfo[n].active}

\* The entry a new one of user u is put in before, when it is not the head's:
\* the first one behind the head that is not smaller than u, or the head again.
InsertBefore(t, u) ==
    LET at    == Walk(t.list_next, t.listhead, USHM_SIZE+1)
        stops == {j \in 1..USHM_SIZE+1 :
                      at[j] = t.listhead \/ t.uinfo[at[j]].uid >= u}
    IN  at[CHOOSE j \in stops : \A k \in stops : j <= k]

\* Faulty: the link of the entry before is forgotten.
ListInsertBackOnly(t, n, u) ==
    IF t.listhead = 0
    THEN [t EXCEPT !.list_prev[n] = n, !.list_next[n] = n, !.listhead = n]
    ELSE LET atHead == t.uinfo[t.listhead].uid >= u
             i      == IF atHead THEN t.listhead ELSE InsertBefore(t, u)
             before == t.list_prev[i]
         IN  [t EXCEPT !.list_prev = [@ EXCEPT ![n] = before, ![i] = n],
                       !.list_next[n] = i,
                       !.listhead  = IF atHead THEN n ELSE @]

\* Faulty: behind a head of the same name.
ListInsertBehindHead(t, n, u) ==
    IF t.listhead = 0
    THEN [t EXCEPT !.list_prev[n] = n, !.list_next[n] = n, !.listhead = n]
    ELSE LET atHead == t.uinfo[t.listhead].uid > u
             i      == IF atHead THEN t.listhead ELSE InsertBefore(t, u)
             before == t.list_prev[i]
         IN  [t EXCEPT !.list_prev = [@ EXCEPT ![n] = before, ![i] = n],
                       !.list_next = [@ EXCEPT ![n] = i, ![before] = n],
                       !.listhead  = IF atHead THEN n ELSE @]

\* Links slot n into the ring for user u.
ListInsert(t, n, u) ==
    IF t.listhead = 0
    THEN [t EXCEPT !.list_prev[n] = n, !.list_next[n] = n, !.listhead = n]
    ELSE LET atHead == t.uinfo[t.listhead].uid >= u
             i      == IF atHead THEN t.listhead ELSE InsertBefore(t, u)
             before == t.list_prev[i]
         IN  [t EXCEPT !.list_prev = [@ EXCEPT ![n] = before, ![i] = n],
                       !.list_next = [@ EXCEPT ![n] = i, ![before] = n],
                       !.listhead  = IF atHead THEN n ELSE @]

\* getnewutmpent() / getnewutmpent2() between the lock and the clean pass:
\* takes the first free slot for the entry e.  (0 - 1 is "no slot left".)
NewSlot(t) == t.hashhead[0]
\* Faulty: the slot stays on the free list; the user's hash list is lost.
NewUtmpEntNotTaken(t, e, counter) ==
    LET n == NewSlot(t)
        s == ListInsert(t, n, e.uid)
    IN  [s EXCEPT !.uinfo[n] = e,
                  !.next[n]  = t.hashhead[Hash[e.uid]],
                  !.hashhead = [@ EXCEPT ![Hash[e.uid]] = n],
                  !.number   = @ + 1,
                  !.count    = Bump(t, counter)]

NewUtmpEnt(t, e, counter) ==
    LET n == NewSlot(t)
        s == ListInsert(t, n, e.uid)
    IN  [s EXCEPT !.uinfo[n] = e,
                  !.next[n]  = t.hashhead[Hash[e.uid]],
                  !.hashhead = [@ EXCEPT ![0] = t.next[n], ![Hash[e.uid]] = n],
                  !.number   = @ + 1,
                  !.count    = Bump(t, counter)]

HashOf(uid) == IF uid = 0 THEN 0 ELSE Hash[uid]

\* Faulty: what follows a slot behind the first goes with it.
HashRemoveTail(t, n) ==
    LET h    == HashOf(t.uinfo[n].uid)
        list == Chain(t.next, t.hashhead[h], USHM_SIZE)
        at   == {j \in DOMAIN list : list[j] = n}
    IN  IF at = {} THEN t
        ELSE IF 1 \in at THEN [t EXCEPT !.hashhead[h] = t.next[n]]
        ELSE [t EXCEPT !.next[list[(CHOOSE j \in at : TRUE) - 1]] = 0]

\* Slot n taken out of the list it is looked for in.  If it is not there only
\* a line is logged; that an empty list is then searched in next[-1] is left
\* out, for only the clear of a free slot comes there (see HitsLeftover).
HashRemove(t, n) ==
    LET h    == HashOf(t.uinfo[n].uid)
        list == Chain(t.next, t.hashhead[h], USHM_SIZE)
        at   == {j \in DOMAIN list : list[j] = n}
    IN  IF at = {} THEN t
        ELSE IF 1 \in at THEN [t EXCEPT !.hashhead[h] = t.next[n]]
        ELSE [t EXCEPT !.next[list[(CHOOSE j \in at : TRUE) - 1]] = t.next[n]]

\* Faulty: the head stays where it is unless the ring gets empty.
ListRemoveKeepsHead(t, n) ==
    LET p == t.list_prev[n]
        q == t.list_next[n]
    IN  [t EXCEPT !.listhead  = IF q = n THEN 0 ELSE @,
                  !.list_next = [@ EXCEPT ![p] = q],
                  !.list_prev = [@ EXCEPT ![q] = p]]

ListRemove(t, n) ==
    LET p == t.list_prev[n]
        q == t.list_next[n]
    IN  [t EXCEPT !.listhead  = IF @ # n THEN @ ELSE IF q = n THEN 0 ELSE q,
                  !.list_next = [@ EXCEPT ![p] = q],
                  !.list_prev = [@ EXCEPT ![q] = p]]

\* Faulty: the number of logins is not decreased; the logout is not counted;
\* the slot is not given back.
Clear2KeepsNumber(t, n, garbage) ==
    LET e == t.uinfo[n]
        s == ListRemove(HashRemove(t, n), n)
    IN  [s EXCEPT !.next[n]     = s.hashhead[0],
                  !.hashhead[0] = n,
                  !.number      = @,
                  !.count       = IF ~e.active THEN @
                                  ELSE IF e.pid # 1 THEN Bump(t, "logout")
                                  ELSE Bump(t, "wwwlogout"),
                  !.uinfo[n]    = [BlankEntry EXCEPT !.uid = garbage]]

Clear2CountsNoLogout(t, n, garbage) ==
    LET e == t.uinfo[n]
        s == ListRemove(HashRemove(t, n), n)
    IN  [s EXCEPT !.next[n]     = s.hashhead[0],
                  !.hashhead[0] = n,
                  !.number      = IF e.active THEN @ - 1 ELSE @,
                  !.uinfo[n]    = [BlankEntry EXCEPT !.uid = garbage]]

Clear2Lost(t, n, garbage) ==
    LET e == t.uinfo[n]
        s == ListRemove(HashRemove(t, n), n)
    IN  [s EXCEPT !.number      = IF e.active THEN @ - 1 ELSE @,
                  !.count       = IF ~e.active THEN @
                                  ELSE IF e.pid # 1 THEN Bump(t, "logout")
                                  ELSE Bump(t, "wwwlogout"),
                  !.uinfo[n]    = [BlankEntry EXCEPT !.uid = garbage]]

\* clear_utmp2(): an entry that is not active is logged and cleared again.
\* zeroinfo is a local struct of which six fields are set, so the uid and the
\* name of the cleared entry are what the stack held: any value in Garbage.
Clear2(t, n, garbage) ==
    LET e == t.uinfo[n]
        s == ListRemove(HashRemove(t, n), n)
    IN  [s EXCEPT !.next[n]     = s.hashhead[0],
                  !.hashhead[0] = n,
                  !.number      = IF e.active THEN @ - 1 ELSE @,
                  !.count       = IF ~e.active THEN @
                                  ELSE IF e.pid # 1 THEN Bump(t, "logout")
                                  ELSE Bump(t, "wwwlogout"),
                  !.uinfo[n]    = [BlankEntry EXCEPT !.uid = garbage]]

\* Faulty: without the pid.
ClearMatchesUser(t, n, uid, pid) == uid = 0 \/ t.uinfo[n].uid = uid

\* The test clear_utmp() makes under the lock before it calls clear_utmp2().
ClearMatches(t, n, uid, pid) ==
    /\ uid = 0 \/ t.uinfo[n].uid = uid
    /\ t.uinfo[n].pid = pid

\* apply_utmp(): the slots in use of a user, in the order of its hash list.
EntriesOf(t, u) ==
    LET list == Chain(t.next, t.hashhead[Hash[u]], USHM_SIZE)
        found[i \in 0..Len(list)] ==
            IF i = 0 THEN <<>>
            ELSE IF t.uinfo[list[i]].active /\ t.uinfo[list[i]].uid = u
                 THEN Append(found[i-1], list[i])
            ELSE found[i-1]
    IN  found[Len(list)]

\* countuser(): the user's logins that are (not) in mode WEBEXPLORE, a mode
\* the web logins have and no telnet login.
TelnetLogins(t, u) ==
    Cardinality({n \in Values(EntriesOf(t, u)) : t.uinfo[n].utmpkey \in Telnet})
WebLogins(t, u) ==
    Cardinality({n \in Values(EntriesOf(t, u)) : t.uinfo[n].utmpkey \in Web})

-----------------------------------------------------------------------------
(* The actors. *)

\* A kick: the uid it is for, the entries still to do with the pids read when
\* it began, and how far it is with the first of them.
NoKick == [uid |-> 0, todo |-> <<>>, step |-> "signal"]
Kicking(p) == kick[p].todo # <<>>
\* kick_user_utmp() starts on the entries listed in s, for uid u.
KickOf(u, s) ==
    [uid  |-> u, step |-> "signal",
     todo |-> [i \in 1..(IF Len(s) > KickMax THEN KickMax ELSE Len(s)) |->
                  [ent |-> s[i], pid |-> utmp.uinfo[s[i]].pid]]]

Alive(p) == pc[p] # "none"
Ready(p) == ~Kicking(p) /\ p \notin sig
Goto(p, l) == pc' = [pc EXCEPT ![p] = l]

\* Which telnet processes kill(pid, SIGHUP) reaches.  Pid 0 is the sender's
\* process group: the telnet processes inherit the one bbsd set up, a web
\* request runs in that of the web server.
Reached(p, pid) ==
    {q \in Telnet : Alive(q) /\ (q = pid \/ (pid = 0 /\ p \in Telnet))}

Init ==
    /\ utmp = EmptyUtmp /\ lock = Free /\ scan = 0
    /\ pc = [p \in Actors |-> "none"]
    /\ user = [p \in Actors |-> Nobody]
    /\ ent = [p \in Actors |-> 0]
    /\ kick = [p \in Actors |-> NoKick]
    /\ sig = {}

\* Process p ends, from whatever it was doing; the system releases its lock.
Ends(p) ==
    /\ Goto(p, "none")
    /\ user' = [user EXCEPT ![p] = Nobody]
    /\ ent' = [ent EXCEPT ![p] = 0]
    /\ kick' = [kick EXCEPT ![p] = NoKick]
    /\ sig' = sig \ {p}
    /\ lock' = IF lock = p THEN Free ELSE lock
    /\ scan' = IF lock = p THEN 0 ELSE scan

Release == lock' = Free /\ scan' = 0

(* Telnet: login_query(), multi_user_check(), u_enter(). *)

\* A connection for user u: refused when the table is full.
Connect(p, u) ==
    /\ pc[p] = "none" /\ utmp.number < MAXACTIVE
    /\ Goto(p, "connected") /\ user' = [user EXCEPT ![p] = u]
    /\ UNCHANGED <<utmp, lock, scan, ent, kick, sig>>

CheckMulti(p) ==
    /\ pc[p] = "connected" /\ Ready(p)
    /\ TelnetLogins(utmp, user[p]) < TelnetLimit
    /\ Goto(p, "checked")
    /\ UNCHANGED <<utmp, lock, scan, user, ent, kick, sig>>

\* Too many windows: they are listed for the user to pick one.
PickWindow(p) ==
    /\ pc[p] = "connected" /\ Ready(p)
    /\ TelnetLogins(utmp, user[p]) >= TelnetLimit
    /\ \E n \in Values(EntriesOf(utmp, user[p])) : ent' = [ent EXCEPT ![p] = n]
    /\ Goto(p, "picked")
    /\ UNCHANGED <<utmp, lock, scan, user, kick, sig>>

\* The answer: the slot of that window, whatever it holds by now, is kicked.
KickWindow(p) ==
    /\ pc[p] = "picked" /\ Ready(p)
    /\ kick' = [kick EXCEPT ![p] = KickOf(user[p], <<ent[p]>>)]
    /\ ent' = [ent EXCEPT ![p] = 0]
    /\ Goto(p, "connected")
    /\ UNCHANGED <<utmp, lock, scan, user, sig>>

\* The connection is dropped before the login is complete.
HangUp(p) ==
    /\ pc[p] \in {"connected", "picked", "checked"} /\ Ready(p)
    /\ Ends(p) /\ UNCHANGED utmp

\* getnewutmpent() up to the clean pass, which runs if 120 s have gone by
\* since the last one; without a free slot the process gives up.
Enter(p) ==
    /\ pc[p] = "checked" /\ Ready(p) /\ lock = Free
    /\ NewSlot(utmp) # 0
    /\ LET n   == NewSlot(utmp)
           old == utmp.uinfo[n]
           e   == [active |-> TRUE, pid |-> p, uid |-> user[p], utmpkey |-> p]
       IN  /\ utmp' = NewUtmpEnt(utmp, e, "login")
           /\ ent' = [ent EXCEPT ![p] = n]
           /\ sig' = sig \cup IF old.active /\ old.pid # 0
                              THEN Reached(p, old.pid) ELSE {}
    /\ \/ Goto(p, "entered") /\ UNCHANGED <<lock, scan>>
       \/ Goto(p, "cleaning") /\ lock' = p /\ scan' = 1
    /\ UNCHANGED <<user, kick>>

EnterFull(p) ==
    /\ pc[p] = "checked" /\ Ready(p) /\ lock = Free
    /\ NewSlot(utmp) = 0
    /\ Ends(p) /\ UNCHANGED utmp

\* One round of the clean pass.  An entry of pid 1 is left alone while it is
\* fresh; kill(1, 0) fails for the unprivileged process, so an idle one goes.
Reapable(e, idle) ==
    /\ e.active /\ e.pid # 0
    /\ IF e.pid = 1 THEN idle ELSE pc[e.pid] = "none"

Clean(p) ==
    /\ pc[p] = "cleaning" /\ Ready(p)
    /\ \E idle \in BOOLEAN, g \in Garbage :
           utmp' = IF Reapable(utmp.uinfo[scan], idle)
                   THEN Clear2(utmp, scan, g) ELSE utmp
    /\ IF scan = USHM_SIZE
       THEN Goto(p, "entered") /\ Release
       ELSE scan' = scan + 1 /\ UNCHANGED <<pc, lock>>
    /\ UNCHANGED <<user, ent, kick, sig>>

\* From here on a signal makes abort_bbs() clear the entry.
Start(p) ==
    /\ pc[p] = "entered" /\ Ready(p)
    /\ Goto(p, "started")
    /\ UNCHANGED <<utmp, lock, scan, user, ent, kick, sig>>

(* The end of a telnet login. *)

\* u_exit() begins: it resets the signal handlers, saves what it has to.
Leave(p) ==
    /\ pc[p] = "started" /\ Ready(p)
    /\ Goto(p, "exiting")
    /\ UNCHANGED <<utmp, lock, scan, user, ent, kick, sig>>

\* ... and ends with clear_utmp(utmpent, currentuid, getpid()).
ClearOwn(p) ==
    /\ pc[p] = "exiting" /\ p \notin sig /\ lock = Free
    /\ \E g \in Garbage :
           utmp' = IF ClearMatches(utmp, ent[p], user[p], p)
                   THEN Clear2(utmp, ent[p], g) ELSE utmp
    /\ Ends(p)

\* A SIGHUP is delivered.  abort_bbs() calls u_exit() when the login was
\* complete, and exit() otherwise; u_exit() has reset the handler.
Hup(p) ==
    /\ p \in sig
    /\ pc[p] = "started" => lock # p
    /\ IF pc[p] = "started"
       THEN /\ Goto(p, "exiting") /\ sig' = sig \ {p}
            /\ kick' = [kick EXCEPT ![p] = NoKick]
            /\ UNCHANGED <<lock, scan, user, ent>>
       ELSE Ends(p)
    /\ UNCHANGED utmp

\* A SIGHUP to a process inside clear_utmp(): the handler waits for the lock
\* the process itself holds on another descriptor ...
HupInLock(p) ==
    /\ p \in sig /\ pc[p] = "started" /\ lock = p
    /\ Goto(p, "selflocked") /\ sig' = sig \ {p}
    /\ kick' = [kick EXCEPT ![p] = NoKick]
    /\ UNCHANGED <<utmp, lock, scan, user, ent>>

\* Any end that runs no code: SIGKILL, a fault.
Crash(p) == Alive(p) /\ Ends(p) /\ UNCHANGED utmp

(* longlock(): utmp_lock() gives up after 10 s, by ending the process. *)

Waiting(p) ==
    \/ pc[p] \in {"checked", "exiting"} /\ Ready(p)
    \/ Kicking(p) /\ kick[p].step = "clear" /\ p \notin sig

\* Faulty: no alarm is set, or only the one for the wait for others.
LongLockSelf(p) == pc[p] = "selflocked" /\ Ends(p) /\ UNCHANGED utmp
LongLockOther(p) ==
    Waiting(p) /\ lock \notin {Free, p} /\ Ends(p) /\ UNCHANGED utmp

LongLock(p) ==
    /\ \/ pc[p] = "selflocked"
       \/ Waiting(p) /\ lock \notin {Free, p}
    /\ Ends(p) /\ UNCHANGED utmp

(* kick_user_utmp(), run by a telnet process or inside a web login. *)

\* A sysop's process kicks every login of user u.
KickUser(p, u) ==
    /\ p \in Sysops /\ pc[p] = "started" /\ Ready(p)
    /\ kick' = [kick EXCEPT ![p] = KickOf(u, EntriesOf(utmp, u))]
    /\ UNCHANGED <<utmp, lock, scan, pc, user, ent, sig>>

\* The next entry: signalled if it is in use (pid 1 excepted), else skipped.
KickSignal(p) ==
    /\ Kicking(p) /\ kick[p].step = "signal" /\ p \notin sig
    /\ LET e == utmp.uinfo[Head(kick[p].todo).ent] IN
           IF e.active
           THEN /\ kick' = [kick EXCEPT ![p].step = "clear"]
                /\ sig' = sig \cup IF e.pid # 1 THEN Reached(p, e.pid) ELSE {}
           ELSE /\ kick' = [kick EXCEPT ![p].todo = Tail(@)]
                /\ UNCHANGED sig
    /\ UNCHANGED <<utmp, lock, scan, pc, user, ent>>

\* clear_utmp() of that entry, with the uid of the kick and the pid read
\* when it began: the lock, then the rest.
KickLock(p) ==
    /\ Kicking(p) /\ kick[p].step = "clear" /\ p \notin sig
    /\ lock = Free /\ lock' = p
    /\ UNCHANGED <<utmp, scan, pc, user, ent, kick, sig>>

KickClear(p) ==
    /\ Kicking(p) /\ lock = p /\ p \notin sig
    /\ LET k == Head(kick[p].todo) IN
           \E g \in Garbage :
               utmp' = IF ClearMatches(utmp, k.ent, kick[p].uid, k.pid)
                       THEN Clear2(utmp, k.ent, g) ELSE utmp
    /\ kick' = [kick EXCEPT ![p].todo = Tail(@), ![p].step = "signal"]
    /\ Release
    /\ UNCHANGED <<pc, user, ent, sig>>

(* Web: www_user_login(), www_user_init(), www_user_logoff(). *)

WwwBegin(w, u) ==
    /\ pc[w] = "none"
    /\ Goto(w, "login") /\ user' = [user EXCEPT ![w] = u]
    /\ UNCHANGED <<utmp, lock, scan, ent, kick, sig>>

WwwCheckMulti(w) ==
    /\ pc[w] = "login" /\ Ready(w)
    /\ WebLogins(utmp, user[w]) < WebLimit
    /\ Goto(w, "checked")
    /\ UNCHANGED <<utmp, lock, scan, user, ent, kick, sig>>

\* Too many: the first slot that holds the user's uid is kicked.
WwwKick(w) ==
    /\ pc[w] = "login" /\ Ready(w)
    /\ WebLogins(utmp, user[w]) >= WebLimit
    /\ \E n \in Slots :
           /\ utmp.uinfo[n].uid = user[w]
           /\ \A m \in 1..n-1 : utmp.uinfo[m].uid # user[w]
           /\ kick' = [kick EXCEPT ![w] = KickOf(user[w], <<n>>)]
    /\ UNCHANGED <<utmp, lock, scan, pc, user, ent, sig>>

\* The entry is allocated with pid 0 ...
WwwAlloc(w) ==
    /\ pc[w] = "checked" /\ lock = Free /\ NewSlot(utmp) # 0
    /\ LET n   == NewSlot(utmp)
           old == utmp.uinfo[n]
           e   == [active |-> TRUE, pid |-> 0, uid |-> user[w], utmpkey |-> w]
       IN  /\ utmp' = NewUtmpEnt(utmp, e, "wwwlogin")
           /\ ent' = [ent EXCEPT ![w] = n]
           /\ sig' = sig \cup IF old.active /\ old.pid # 0
                              THEN Reached(w, old.pid) ELSE {}
    /\ Goto(w, "allocated")
    /\ UNCHANGED <<lock, scan, user, kick>>

WwwFull(w) ==
    /\ pc[w] = "checked" /\ lock = Free /\ NewSlot(utmp) = 0
    /\ Ends(w) /\ UNCHANGED utmp

\* ... and gets pid 1 when the lock has been given back.
WwwSetPid(w) ==
    /\ pc[w] = "allocated"
    /\ utmp' = [utmp EXCEPT !.uinfo[ent[w]].pid = 1]
    /\ Goto(w, "online")
    /\ UNCHANGED <<lock, scan, user, ent, kick, sig>>

\* www_user_init(): is the cookie's session still the one in its slot?
Valid(w) ==
    LET e == utmp.uinfo[ent[w]]
    IN  ent[w] < MAXACTIVE /\ e.utmpkey = w /\ e.active /\ e.pid = 1

\* A request with a cookie that is not valid: the session is at an end.
WwwStale(w) ==
    /\ pc[w] = "online" /\ ~Valid(w)
    /\ Ends(w) /\ UNCHANGED utmp

\* Logging off: the session is validated, then cleared.
WwwLogoff(w) ==
    /\ pc[w] = "online" /\ Valid(w)
    /\ Goto(w, "logoff")
    /\ UNCHANGED <<utmp, lock, scan, user, ent, kick, sig>>

WwwClear(w) ==
    /\ pc[w] = "logoff" /\ lock = Free
    /\ \E g \in Garbage :
           utmp' = IF ClearMatches(utmp, ent[w], user[w], 1)
                   THEN Clear2(utmp, ent[w], g) ELSE utmp
    /\ Ends(w)

\* The request ends early: dropped, or waiting 10 s for the lock.  A session
\* that was logging off is still there, and its user may try again.
WwwFail(w) ==
    \/ pc[w] \in {"login", "checked", "allocated"} /\ Ends(w) /\ UNCHANGED utmp
    \/ /\ pc[w] = "logoff" /\ Goto(w, "online")
       /\ UNCHANGED <<utmp, lock, scan, user, ent, kick, sig>>

-----------------------------------------------------------------------------
TelnetStep(p) ==
    \/ \E u \in Users : Connect(p, u) \/ KickUser(p, u)
    \/ CheckMulti(p) \/ PickWindow(p) \/ KickWindow(p) \/ HangUp(p)
    \/ Enter(p) \/ EnterFull(p) \/ Clean(p) \/ Start(p)
    \/ Leave(p) \/ ClearOwn(p)
    \/ Hup(p) \/ HupInLock(p) \/ Crash(p) \/ LongLock(p)

WebStep(w) ==
    \/ \E u \in Users : WwwBegin(w, u)
    \/ WwwCheckMulti(w) \/ WwwKick(w) \/ WwwAlloc(w) \/ WwwFull(w)
    \/ WwwSetPid(w) \/ WwwStale(w) \/ WwwLogoff(w) \/ WwwFail(w)

KickStep(p) == KickSignal(p) \/ KickLock(p)

Next ==
    \/ \E p \in Telnet : TelnetStep(p)
    \/ \E w \in Web : WebStep(w) \/ WwwClear(w)
    \/ \E p \in Actors : KickStep(p) \/ KickClear(p)

Spec == Init /\ [][Next]_vars

\* A kick, or a log-off, clears a slot that is no longer in use: what the
\* stack left there as uid is that of the user it is for (see Clear2).
HitsLeftover(n, uid, pid) == ~utmp.uinfo[n].active /\ ClearMatches(utmp, n, uid, pid)
KickHits(p) ==
    LET k == Head(kick[p].todo) IN HitsLeftover(k.ent, kick[p].uid, k.pid)
WwwHits(w) == HitsLeftover(ent[w], user[w], 1)

\* The behaviours up to the first such clear, after which a slot is on the
\* free list twice and nothing can be said of the table.
UnhitNext ==
    \/ \E p \in Telnet : TelnetStep(p)
    \/ \E w \in Web : WebStep(w) \/ (WwwClear(w) /\ ~WwwHits(w))
    \/ \E p \in Actors : KickStep(p) \/ (KickClear(p) /\ ~KickHits(p))

UnhitSpec == Init /\ [][UnhitNext]_vars

\* What the exit of a process waits for: the lock, or the alarm set for it.
ExitStep(p) == ClearOwn(p) \/ LongLock(p) \/ (pc[p] = "exiting" /\ Hup(p))
\* A process that holds the lock runs: nothing it does there blocks, except
\* the second lock of HupInLock, which its own alarm ends.
HolderStep(p) == lock = p /\ (Clean(p) \/ KickClear(p) \/ Hup(p) \/ HupInLock(p)
                               \/ LongLock(p))

FairSpec ==
    /\ Spec
    /\ \A p \in Telnet : WF_vars(ExitStep(p)) /\ WF_vars(HolderStep(p))
    /\ \A w \in Web : WF_vars(HolderStep(w))

-----------------------------------------------------------------------------
(* Properties. *)

TypeOK ==
    /\ utmp \in [ uinfo : [Slots -> Entry], next : [Slots -> 0..USHM_SIZE],
                  hashhead : [{Hash[u] : u \in Users} \cup {0} -> 0..USHM_SIZE],
                  listhead : 0..USHM_SIZE,
                  list_prev : [Slots -> 0..USHM_SIZE],
                  list_next : [Slots -> 0..USHM_SIZE],
                  number : 0..USHM_SIZE,
                  count : [Counters -> 0..CounterMod-1] ]
    /\ lock \in Actors \cup {Free} /\ scan \in 0..USHM_SIZE
    /\ pc \in [Actors -> {"none", "connected", "picked", "checked", "cleaning",
                          "entered", "started", "exiting", "selflocked",
                          "login", "allocated", "online", "logoff"}]
    /\ user \in [Actors -> Users \cup {Nobody}]
    /\ ent \in [Actors -> 0..USHM_SIZE]
    /\ \A p \in Actors :
           /\ kick[p].uid \in Users \cup {0} /\ kick[p].step \in {"signal", "clear"}
           /\ kick[p].todo \in Seq([ent : Slots, pid : Telnet \cup {0, 1}])
    /\ sig \subseteq Telnet

\* The list getnewutmpent() allocates from holds the slots that are not in
\* use, each of them once: no slot is given out twice and none is lost.
FreeListSound ==
    Lists(Chain(utmp.next, utmp.hashhead[0], USHM_SIZE+1), Slots \ ActiveSlots(utmp))

\* apply_utmp() finds all the logins of a user and no slot a second time:
\* a hash list holds the slots in use of the users with that hash value.
HashListsSound ==
    \A h \in DOMAIN utmp.hashhead \ {0} :
        Lists(Chain(utmp.next, utmp.hashhead[h], USHM_SIZE+1),
              {n \in ActiveSlots(utmp) : Hash[utmp.uinfo[n].uid] = h})

\* The ring that apply_ulist_addr() walks holds all slots in use and only
\* these, its two directions agree, and names ascend from listhead on.
RingSound ==
    LET ring == Ring(utmp.list_next, utmp.listhead, USHM_SIZE+1)
    IN  /\ Lists(ring, ActiveSlots(utmp))
        /\ \A n \in Values(ring) : utmp.list_prev[utmp.list_next[n]] = n
        /\ \A i \in 1..Len(ring)-1 :
               utmp.uinfo[ring[i]].uid <= utmp.uinfo[ring[i+1]].uid

\* get_utmp_number(), which the login checks compare with MAXACTIVE, is the
\* number of slots in use, and the statistics of logins and logouts of
\* publicshm differ by it (as far as the counters are wide).
CountersAgree ==
    /\ utmp.number = Cardinality(ActiveSlots(utmp))
    /\ (utmp.count["login"] + utmp.count["wwwlogin"]
         - utmp.count["logout"] - utmp.count["wwwlogout"] - utmp.number)
           % CounterMod = 0

\* The slot of p holds its entry, with its pid.
OwnEntry(e, p) == e.active /\ e.utmpkey = p /\ e.pid = p
Owns(p) == OwnEntry(utmp.uinfo[ent[p]], p)
OwnedAfter(p) == OwnEntry(utmp'.uinfo[ent[p]], p)

\* A telnet process that has not come to its end loses its entry, or the pid
\* in it, only by its own clear_utmp() or by a kick of its user: neither the
\* clean pass, nor a kick of somebody else, nor the exit of a process that had
\* the slot (or the pid) before takes it away.  The exception is a web login
\* kicked before it wrote its pid = 1: that write hits who got its slot.
LiveEntryKept ==
    [][\A p \in Telnet :
          /\ pc[p] \in {"cleaning", "entered", "started", "exiting"}
          /\ Owns(p) /\ ~OwnedAfter(p)
          => \/ pc[p] = "exiting" /\ pc'[p] = "none"
             \/ \E q \in Actors : lock = q /\ Kicking(q) /\ kick[q].uid = user[p]
             \/ \E w \in Web : WwwSetPid(w) /\ ent[w] = ent[p]]_vars

\* kill() of a kick is meant for the processes of the kicked user.
KickHitsItsUser ==
    [][\A p \in Actors :
          KickSignal(p) => \A q \in sig' \ sig : user[q] = kick[p].uid]_vars

\* multilogin_user() keeps a user at TelnetLimit telnet logins.
TelnetLimitKept ==
    \A u \in Users : TelnetLogins(utmp, u) <= TelnetLimit

\* A process on its way out ends, whoever holds the lock meanwhile, and even
\* one that waits for the lock it holds itself gives the lock back.
ExitEnds == \A p \in Telnet : pc[p] = "exiting" ~> pc[p] # "exiting"
LockReturned == \A p \in Actors : lock = p ~> lock # p

\* The arrays implement the lists of LoginTable.
Table == INSTANCE LoginTable WITH
    freed  <- Chain(utmp.next, utmp.hashhead[0], USHM_SIZE+1),
    online <- Ring(utmp.list_next, utmp.listhead, USHM_SIZE+1),
    byHash <- [h \in {Hash[u] : u \in Users} |->
                   Chain(utmp.next, utmp.hashhead[h], USHM_SIZE+1)],
    who    <- [n \in Slots |-> IF utmp.uinfo[n].active THEN utmp.uinfo[n].uid ELSE 0]
TableSpec == Table!Spec
=============================================================================
