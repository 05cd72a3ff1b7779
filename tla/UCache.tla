------------------------------- MODULE UCache -------------------------------
(***************************************************************************)
(* The user cache (libBBS/ucache.c) and the daemon that changes it         *)
(* (daemon/miscd.c, userd).  A user is a slot of passwd[]; a hash list per *)
(* key, through next[], leads to the slots in use and list 0 to the free   *)
(* ones.  Processes look names up without a lock; they have userd change a *)
(* name, by a request it takes from its socket in order, and wait for the  *)
(* answer for 5 seconds only.  killd and userd change names under the lock *)
(* of the cache (job); records are written back without it.                *)
(*                                                                         *)
(* The cache is loaded from PASSFILE when the machine starts, and written  *)
(* to it now and then.  Of a record the model keeps the name, the account  *)
(* it was written for and whether it has its permissions.                  *)
(***************************************************************************)
EXTENDS Integers, Sequences, FiniteSets

CONSTANTS
    MAXUSERS,           \* slots
    UCACHE_HASHSIZE,    \* keys, beside the 0 of free slots
    Names, NoName,      \* valid user ids, and the empty one
    ucache_hash,        \* name -> key
    FirstFiles,         \* the names in PASSFILE when the machine first starts
    Clients,            \* processes that register, delete and modify users
    MaxEvents           \* bound: operations, deaths, flushes, restarts; a search counts twice

Slots == 1..MAXUSERS
Keys == 0..UCACHE_HASHSIZE
ASSUME UCacheAssumption ==
    /\ MAXUSERS \in Nat \ {0} /\ UCACHE_HASHSIZE \in Nat \ {0} /\ MaxEvents \in Nat
    /\ NoName \notin Names /\ FirstFiles \subseteq [Slots -> Names \cup {NoName}]
    /\ ucache_hash \in [Names \cup {NoName} -> Keys]
    /\ \A n \in Names \cup {NoName} : ucache_hash[n] = 0 <=> n = NoName

VARIABLES
    hashhead, next, passwd,     \* the cache
    file,                       \* PASSFILE
    queue,                      \* requests in userd's socket
    job,                        \* the change being made under the lock
    cl,                         \* client -> where it is in its operation
    rdr,                        \* a process in searchuser
    events

\* What happened, for the properties only.
VARIABLES
    accounts,   \* accounts registered, and not deleted by anybody's wish
    gaveup,     \* registrations that timed out, or whose process ended
    mixed       \* "overlap": two operations on one slot at a time; "late": a
                \* rename timed out; "samekey": a rename within a hash list;
                \* "dup": PASSFILE had a name twice

cache == <<hashhead, next, passwd>>
ghosts == <<accounts, gaveup, mixed>>
vars == <<cache, file, queue, job, cl, rdr, events, ghosts>>

Free == [id |-> NoName, acc |-> 0, level |-> 0]
IdleClient == [pc |-> "idle", op |-> "", n |-> NoName, n2 |-> NoName, uid |-> 0,
               copy |-> Free, seq |-> 0]
NoJob == [step |-> "none", cmd |-> "", uid |-> 0, id |-> NoName, c |-> 0, seq |-> 0]
IdleReader == [pc |-> "idle", n |-> NoName, pos |-> 0, goal |-> 0,
               moved |-> FALSE, gone |-> FALSE]

\* The nodes met from s, in order; 0 is the end.
Walk(nx, s) ==
    LET node[j \in 0..MAXUSERS] ==
          IF j = 0 THEN s ELSE IF node[j-1] = 0 THEN 0 ELSE nx[node[j-1]]
    IN node
ListOf(h, nx, k) == {Walk(nx, h[k])[j] : j \in 0..MAXUSERS} \ {0}

\* searchuser() of a list nobody changes: the first slot of that name.
SearchIn(h, nx, pw, n) ==
    LET w == Walk(nx, h[ucache_hash[n]])
        hits == {j \in 0..MAXUSERS : w[j] # 0 /\ pw[w[j]].id = n}
    IN IF hits = {} THEN 0 ELSE w[CHOOSE j \in hits : \A i \in hits : j <= i]
searchuser(n) == SearchIn(hashhead, next, passwd, n)
\* Faulty: of a full cache the last slot is taken.
searchnewuserLast == IF hashhead[0] # 0 THEN hashhead[0] ELSE MAXUSERS
searchnewuser == hashhead[0]

-----------------------------------------------------------------------------
(* load_ucache: the lists are made from PASSFILE, slot after slot. *)

AddEmpty(s, n) ==
    [s EXCEPT !.prev = n,
              !.head[0] = IF s.prev = 0 THEN n ELSE @,
              !.next = IF s.prev = 0 THEN [@ EXCEPT ![n] = 0]
                       ELSE [@ EXCEPT ![n] = 0, ![s.prev] = n]]
AddNamed(s, n) ==
    LET k == ucache_hash[s.pw[n].id] IN
    [s EXCEPT !.next[n] = s.head[k], !.head[k] = n]

\* A name met before: its slot is taken out of its list, and becomes the
\* free list.
DropOld(s, i) ==
    LET k == ucache_hash[s.pw[i].id]
        w == Walk(s.next, s.head[k])
        before == {j \in 0..MAXUSERS-1 : w[j+1] = i}
        unlinked == IF s.head[k] = i THEN [s EXCEPT !.head[k] = s.next[i]]
                    ELSE [s EXCEPT !.next[w[CHOOSE j \in before : TRUE]] = s.next[i]]
    IN [unlinked EXCEPT !.pw[i].id = NoName, !.next[i] = 0, !.head[0] = i]

\* newer: the later slot has more logins than the earlier one of its name.
fillucache(s, n, newer) ==
    LET old == IF s.pw[n].id = NoName THEN 0 ELSE SearchIn(s.head, s.next, s.pw, s.pw[n].id)
    IN IF s.pw[n].id = NoName THEN AddEmpty(s, n)
       ELSE IF old = 0 THEN AddNamed(s, n)
       ELSE IF newer THEN AddNamed(DropOld(s, old), n)
       ELSE AddEmpty([s EXCEPT !.pw[n].id = NoName], n)

load_ucache(pw, newer) ==
    LET s[n \in 0..MAXUSERS] ==
          IF n = 0 THEN [head |-> [k \in Keys |-> 0], next |-> [i \in Slots |-> 0],
                         pw |-> pw, prev |-> 0]
          ELSE fillucache(s[n-1], n, newer)
    IN s[MAXUSERS]

Loaded(newer, pw) ==
    LET s == load_ucache(pw, newer) IN
    /\ hashhead' = s.head /\ next' = s.next /\ passwd' = s.pw

Present(pw) == {pw[i].acc : i \in {j \in Slots : pw[j].id # NoName}}

Twice(pw) == IF \E i, j \in Slots : i # j /\ pw[i].id = pw[j].id /\ pw[i].id # NoName
             THEN {"dup"} ELSE {}

\* PASSFILE may have a name in two slots.
Init ==
    \E names \in FirstFiles, newer \in BOOLEAN :
      LET pw == [i \in Slots |-> IF names[i] = NoName THEN Free
                                 ELSE [id |-> names[i], acc |-> i, level |-> 1]]
          s == load_ucache(pw, newer) IN
      /\ hashhead = s.head /\ next = s.next /\ passwd = s.pw
      /\ file = pw
      /\ queue = <<>> /\ job = NoJob /\ rdr = IdleReader /\ events = 0
      /\ cl = [c \in Clients |-> IdleClient]
      /\ accounts = Present(s.pw) /\ gaveup = {} /\ mixed = Twice(pw)

-----------------------------------------------------------------------------
(* The change of a name: setuserid_internal under ucache_lock. *)

\* Somebody has an operation under way on slot u.
Busy(u) ==
    \/ job.step # "none" /\ job.uid = u
    \/ \E c \in Clients : cl[c].pc # "idle" /\ cl[c].uid = u
    \/ \E i \in 1..Len(queue) : queue[i].cmd # "NEW" /\ queue[i].uid = u
Overlap(u) == IF Busy(u) THEN {"overlap"} ELSE {}

\* What a search under way notices, after the cache has changed.
Seen(u) ==
    rdr' = IF rdr.pc = "idle" THEN rdr
           ELSE [rdr EXCEPT !.moved = @ \/ (u # 0 /\ rdr.pos = u),
                            !.gone = @ \/ SearchIn(hashhead', next', passwd', rdr.n) # rdr.goal]

\* The code's next[-1]: the word before next[] is the last list head.
NextOf(i) == IF i = 0 THEN hashhead[UCACHE_HASHSIZE] ELSE next[i]

\* Faulty: the search ends at the slot itself.
BeforeItself(uid, k) == IF uid \in ListOf(hashhead, next, k) THEN uid ELSE -1

\* The node before uid, from the head of its old list on: found, or -1.
Before(uid, k) ==
    LET node[j \in 0..MAXUSERS] == IF j = 0 THEN hashhead[k] ELSE NextOf(node[j-1])
        hits == {j \in 0..MAXUSERS :
                    NextOf(node[j]) = uid /\ \A i \in 0..j : i = 0 \/ node[i] # 0}
    IN IF hits = {} THEN -1 ELSE node[CHOOSE j \in hits : \A i \in hits : j <= i]

\* Faulty: the name is not looked up again.
TakenNever(uid, id) == uid = 0 /\ id = NoName
Taken(uid, id) ==
    /\ ucache_hash[id] \notin {0, ucache_hash[passwd[uid].id]}
    /\ searchuser(id) # 0

\* The answer of the request: its client may wait no more.
Answer(c, seq, uid) ==
    cl' = IF cl[c].seq = seq /\ (cl[c].pc = "wait" \/ cl[c].op = "kill")
          THEN [cl EXCEPT ![c].pc = "answered",
                          ![c].uid = IF cl[c].op = "register" THEN uid ELSE @]
          ELSE cl

\* Slot uid leaves list k, in which p is before it.
\* Faulty: its own next is cleared too.
RemoveTidy(uid, k, p) ==
    /\ hashhead' = IF hashhead[k] = uid THEN [hashhead EXCEPT ![k] = next[uid]] ELSE hashhead
    /\ next' = IF hashhead[k] = uid THEN [next EXCEPT ![uid] = 0]
               ELSE [next EXCEPT ![p] = next[uid], ![uid] = 0]
Remove(uid, k, p) ==
    IF hashhead[k] = uid
    THEN hashhead' = [hashhead EXCEPT ![k] = next[uid]] /\ UNCHANGED next
    ELSE IF p = 0
    THEN hashhead' = [hashhead EXCEPT ![UCACHE_HASHSIZE] = next[uid]] /\ UNCHANGED next
    ELSE next' = [next EXCEPT ![p] = next[uid]] /\ UNCHANGED hashhead

\* The slot is taken out of its list, unless the name is taken or the slot
\* is not in the list of the name it has.
Unlink(req, uid) ==
    LET oldkey == ucache_hash[passwd[uid].id]
        p == Before(uid, oldkey)
        found == hashhead[oldkey] = uid \/ p # -1 IN
    /\ job.step = "none"
    /\ IF uid = 0 \/ Taken(uid, req.id) \/ ~found
       THEN /\ Answer(req.c, req.seq, IF req.cmd = "NEW" THEN -1 ELSE 0)
            /\ UNCHANGED <<hashhead, next, job>>
       ELSE /\ Remove(uid, oldkey, p)
            /\ job' = [step |-> "link", cmd |-> req.cmd, uid |-> uid, id |-> req.id,
                       c |-> req.c, seq |-> req.seq]
            /\ UNCHANGED cl
    /\ mixed' = mixed
         \cup (IF req.cmd = "NEW" /\ uid # 0 THEN Overlap(uid) ELSE {})
         \cup (IF req.cmd = "SET" /\ ucache_hash[passwd[uid].id] = ucache_hash[req.id]
               THEN {"samekey"} ELSE {})
    /\ UNCHANGED passwd /\ Seen(0)

\* Faulty: the rest of the new list is not linked behind it.
LinkAlone ==
    /\ job.step = "link"
    /\ hashhead' = [hashhead EXCEPT ![ucache_hash[job.id]] = job.uid]
    /\ job' = [job EXCEPT !.step = "name"]
    /\ UNCHANGED <<next, passwd, file, queue, cl, events, ghosts>> /\ Seen(job.uid)

\* It becomes the first of its new list ...
Link ==
    LET u == job.uid
        k == ucache_hash[job.id] IN
    /\ job.step = "link"
    /\ next' = [next EXCEPT ![u] = hashhead[k]]
    /\ hashhead' = [hashhead EXCEPT ![k] = u]
    /\ job' = [job EXCEPT !.step = "name"]
    /\ UNCHANGED <<passwd, file, queue, cl, events, ghosts>> /\ Seen(u)

\* ... and gets its new name; getnewuserid clears the record of a new user.
Name ==
    LET u == job.uid IN
    /\ job.step = "name"
    /\ passwd' = [passwd EXCEPT ![u] = IF job.cmd = "NEW" THEN [Free EXCEPT !.id = job.id, !.acc = -job.seq]
                                       ELSE [@ EXCEPT !.id = job.id]]
    /\ Answer(job.c, job.seq, u)
    /\ job' = NoJob
    /\ UNCHANGED <<hashhead, next, file, queue, events, ghosts>> /\ Seen(0)

\* userd takes the next request, getnewuserid or setuserid2.
userd ==
    /\ queue # <<>> /\ queue' = Tail(queue)
    /\ LET req == Head(queue) IN
       Unlink(req, IF req.cmd = "NEW" THEN searchnewuser ELSE req.uid)
    /\ UNCHANGED <<file, events, accounts, gaveup>>

-----------------------------------------------------------------------------
(* Clients. *)

Idle(c) == cl[c].pc = "idle" /\ events < MaxEvents
Starts(c, r) == cl' = [cl EXCEPT ![c] = r] /\ events' = events + 1
Request(c, cmd, id) ==
    queue' = Append(queue, [cmd |-> cmd, uid |-> cl[c].uid, id |-> id, c |-> c,
                            seq |-> cl[c].seq])
StaysPut == UNCHANGED <<cache, file, job, rdr>>

\* new_register: the name is free, NEW is sent.
Register(c, n) ==
    /\ Idle(c) /\ searchuser(n) = 0
    /\ Starts(c, [IdleClient EXCEPT !.pc = "wait", !.op = "register", !.n = n, !.seq = events + 1])
    /\ queue' = Append(queue, [cmd |-> "NEW", uid |-> 0, id |-> n, c |-> c, seq |-> events + 1])
    /\ StaysPut /\ UNCHANGED ghosts

\* An administrator (d_user) or killd picks a user to delete: from here on
\* nobody promises that the account is kept.
Delete(c, n, op) ==
    LET u == searchuser(n) IN
    /\ Idle(c) /\ u # 0
    /\ Starts(c, [IdleClient EXCEPT !.pc = "send", !.op = op, !.n = n, !.uid = u, !.seq = events + 1])
    /\ accounts' = accounts \ {passwd[u].acc}
    /\ mixed' = mixed \cup Overlap(u)
    /\ UNCHANGED <<queue, gaveup>> /\ StaysPut

\* modify_userinfo copies the record, for a new name or other new data.
Modify(c, n, n2) ==
    LET u == searchuser(n) IN
    /\ Idle(c) /\ u # 0
    /\ Starts(c, [IdleClient EXCEPT !.pc = IF n2 = n THEN "write" ELSE "send", !.op = "modify",
                          !.n = n, !.n2 = n2, !.uid = u, !.copy = passwd[u], !.seq = events + 1])
    /\ mixed' = mixed \cup Overlap(u)
    /\ UNCHANGED <<queue, accounts, gaveup>> /\ StaysPut

SendDel(c) ==
    /\ cl[c].pc = "send" /\ cl[c].op = "delete"
    /\ Request(c, "DEL", NoName)
    /\ cl' = [cl EXCEPT ![c].pc = "wait"]
    /\ UNCHANGED <<events, ghosts>> /\ StaysPut
\* The new name is looked up once more; if it is in use nothing is renamed.
SendSet(c) ==
    /\ cl[c].pc = "send" /\ cl[c].op = "modify"
    /\ IF searchuser(cl[c].n2) = 0
       THEN Request(c, "SET", cl[c].n2) /\ cl' = [cl EXCEPT ![c].pc = "wait"]
       ELSE UNCHANGED queue /\ cl' = [cl EXCEPT ![c].pc = "write"]
    /\ UNCHANGED <<events, ghosts>> /\ StaysPut
\* killd does not ask userd.
Kill(c) ==
    /\ cl[c].pc = "send" /\ cl[c].op = "kill"
    /\ Unlink([cmd |-> "DEL", uid |-> cl[c].uid, id |-> NoName, c |-> c, seq |-> cl[c].seq],
              cl[c].uid)
    /\ UNCHANGED <<file, queue, events, accounts, gaveup>>

\* 5 seconds have passed: the process goes on without the answer, and a
\* registration is given up.
Timeout(c) ==
    /\ cl[c].pc = "wait" /\ cl[c].op # "kill"
    /\ IF cl[c].op = "register"
       THEN cl' = [cl EXCEPT ![c] = IdleClient] /\ gaveup' = gaveup \cup {cl[c].seq}
       ELSE cl' = [cl EXCEPT ![c].pc = "answered"] /\ UNCHANGED gaveup
    /\ mixed' = mixed \cup (IF cl[c].op = "modify" THEN {"late"} ELSE {})
    /\ UNCHANGED <<queue, events, accounts>> /\ StaysPut

\* Faulty: the record of the new user is not written.
RegisteredOnly(c) ==
    /\ cl[c].pc = "answered" /\ cl[c].op = "register"
    /\ cl' = [cl EXCEPT ![c] = IdleClient]
    /\ UNCHANGED <<queue, events, ghosts>> /\ StaysPut

\* The registration has its slot, or was refused.
Registered(c) ==
    /\ cl[c].pc = "answered" /\ cl[c].op = "register"
    /\ cl' = IF cl[c].uid <= 0 THEN [cl EXCEPT ![c] = IdleClient]
             ELSE [cl EXCEPT ![c].pc = "write",
                             ![c].copy = [id |-> passwd[cl[c].uid].id,
                                          acc |-> MAXUSERS + cl[c].seq, level |-> 1]]
    /\ UNCHANGED <<queue, events, ghosts>> /\ StaysPut
\* After a deletion the slot loses its permissions, whoever has it now.
Deleted(c) ==
    /\ cl[c].pc = "answered" /\ cl[c].op \in {"delete", "kill"}
    /\ passwd' = [passwd EXCEPT ![cl[c].uid].level = 0]
    /\ cl' = [cl EXCEPT ![c] = IdleClient]
    /\ UNCHANGED <<hashhead, next, file, queue, job, rdr, events, ghosts>>
\* The rename counts if the new name leads to the slot.
Modified(c) ==
    /\ cl[c].pc = "answered" /\ cl[c].op = "modify"
    /\ cl' = [cl EXCEPT ![c].pc = "write",
                        ![c].copy.id = IF searchuser(cl[c].n2) = cl[c].uid THEN cl[c].n2 ELSE @]
    /\ UNCHANGED <<queue, events, ghosts>> /\ StaysPut

\* update_user and modify_userinfo write the whole record back, with the
\* name read before.
WriteBack(c) ==
    /\ cl[c].pc = "write"
    /\ passwd' = [passwd EXCEPT ![cl[c].uid] = cl[c].copy]
    /\ accounts' = IF cl[c].op = "register" THEN accounts \cup {cl[c].copy.acc} ELSE accounts
    /\ cl' = [cl EXCEPT ![c] = IdleClient]
    /\ UNCHANGED <<hashhead, next, file, queue, job, events, gaveup, mixed>> /\ Seen(0)

\* The process ends (a hangup, a kick) wherever it is; its request stays with
\* userd.  (killd is a daemon and holds the lock while it changes a name.)
Die(c) ==
    /\ cl[c].pc # "idle" /\ cl[c].op # "kill"
    /\ events < MaxEvents /\ events' = events + 1
    /\ cl' = [cl EXCEPT ![c] = IdleClient]
    /\ gaveup' = IF cl[c].op = "register" THEN gaveup \cup {cl[c].seq} ELSE gaveup
    /\ UNCHANGED <<queue, accounts, mixed>> /\ StaysPut

-----------------------------------------------------------------------------
(* A search without the lock, step by step, for a name that is in use. *)

StartSearch(n) ==
    /\ rdr.pc = "idle" /\ events + 1 < MaxEvents /\ events' = events + 2
    /\ searchuser(n) # 0
    /\ rdr' = [IdleReader EXCEPT !.pc = "at", !.n = n, !.pos = hashhead[ucache_hash[n]],
                                 !.goal = searchuser(n)]
    /\ UNCHANGED <<cache, file, queue, job, cl, ghosts>>
Hop ==
    /\ rdr.pc = "at" /\ rdr.pos # 0
    /\ rdr' = IF passwd[rdr.pos].id = rdr.n THEN IdleReader
              ELSE [rdr EXCEPT !.pos = next[rdr.pos]]
    /\ UNCHANGED <<cache, file, queue, job, cl, events, ghosts>>
Missed ==
    /\ rdr.pc = "at" /\ rdr.pos = 0
    /\ rdr' = IdleReader
    /\ UNCHANGED <<cache, file, queue, job, cl, events, ghosts>>

-----------------------------------------------------------------------------
(* flushd, and the machine going down. *)

flush_ucache ==
    /\ events < MaxEvents /\ events' = events + 1
    /\ file' = passwd
    /\ UNCHANGED <<cache, queue, job, cl, rdr, ghosts>>

Restart ==
    /\ events < MaxEvents /\ events' = events + 1
    /\ \E newer \in BOOLEAN : Loaded(newer, file)
    /\ queue' = <<>> /\ job' = NoJob /\ rdr' = IdleReader
    /\ cl' = [c \in Clients |-> IdleClient]
    /\ accounts' = accounts \cap Present(passwd')
    /\ gaveup' = gaveup \cup {-a : a \in Present(file)}
    /\ mixed' = mixed \cup Twice(file)
    /\ UNCHANGED file

Next ==
    \/ \E c \in Clients :
         \/ \E n \in Names :
              \/ Register(c, n) \/ Delete(c, n, "delete") \/ Delete(c, n, "kill")
              \/ \E n2 \in Names : Modify(c, n, n2)
         \/ SendDel(c) \/ SendSet(c) \/ Kill(c) \/ Timeout(c)
         \/ Registered(c) \/ Deleted(c) \/ Modified(c) \/ WriteBack(c) \/ Die(c)
    \/ userd \/ Link \/ Name
    \/ \E n \in Names : StartSearch(n)
    \/ Hop \/ Missed \/ flush_ucache \/ Restart

Spec == Init /\ [][Next]_vars

-----------------------------------------------------------------------------
(* Properties. *)

\* Values have their types, and the slot under change is in no list while
\* it has been taken out and not yet put in.
TypeOK ==
    /\ hashhead \in [Keys -> 0..MAXUSERS] /\ next \in [Slots -> 0..MAXUSERS]
    /\ \A u \in Slots : passwd[u].id \in Names \cup {NoName} /\ passwd[u].level \in {0, 1}
    /\ job.step = "link" => \A k \in Keys : job.uid \notin ListOf(hashhead, next, k)

\* Whatever overlaps with what, every list ends and no slot is in two.
ListsSound ==
    /\ \A k \in Keys : Walk(next, hashhead[k])[MAXUSERS] = 0
    /\ \A k, l \in Keys : k # l =>
         ListOf(hashhead, next, k) \cap ListOf(hashhead, next, l) = {}

\* Between two changes every name leads to one slot, its own, and every
\* nameless slot can be given to a new user: unless operations on one slot
\* overlapped, or (names) a rename timed out or stayed within its list, or
\* (the free list, which may lose its rest) PASSFILE had a name twice.
NamesSound ==
    LET unmixed(why) == mixed \cap why = {} IN
    job.step = "none" =>
      /\ unmixed({"overlap", "late", "samekey"}) =>
           \A u \in Slots : passwd[u].id # NoName =>
             u \in ListOf(hashhead, next, ucache_hash[passwd[u].id])
      /\ unmixed({"overlap", "late", "samekey"}) =>
           \A u, v \in Slots : passwd[u].id = passwd[v].id /\ u # v => passwd[u].id = NoName
      /\ unmixed({"overlap", "dup"}) =>
           \A u \in Slots : passwd[u].id = NoName => u \in ListOf(hashhead, next, 0)

\* An account that its user was told of, and nobody chose to delete, can be
\* found under its name and has its permissions; also after a restart, if
\* it had been flushed.
AccountKept ==
    mixed \subseteq {"dup"} /\ job.step = "none" =>
      \A a \in accounts : \E u \in Slots :
        passwd[u].acc = a /\ passwd[u].level = 1 /\ searchuser(passwd[u].id) = u

\* A name taken by nobody, its registrant told that he failed or gone, comes
\* from a registration that gave up waiting, whose process ended, or that a
\* restart cut short.
PhantomOnlyTimeout ==
    mixed \subseteq {"dup"} =>
      \A u \in Slots : passwd[u].id # NoName /\ passwd[u].acc < 0 =>
        \/ -passwd[u].acc \in gaveup
        \/ \E c \in Clients : cl[c].op = "register" /\ cl[c].uid = u

\* A search misses a user who was in one slot and could be found all along
\* only if a slot was put into another list while the search stood on it.
MissedOnlyMoved == rdr.pc = "at" /\ rdr.pos = 0 => rdr.gone \/ rdr.moved
=============================================================================
