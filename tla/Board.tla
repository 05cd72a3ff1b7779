-------------------------------- MODULE Board --------------------------------
(***************************************************************************)
(* The articles of one board (libBBS/article.c, record.c, bcache.c): files *)
(* of fixed-size records, .DIR (all articles), .ORIGIN (those that begin a *)
(* thread) and .DELETED, a body per article whose name begins with M or D, *)
(* and the counter of ids in shared memory.  Processes post, delete,       *)
(* undelete, edit titles and delete ranges.  They agree by two kinds of    *)
(* file locks, flock and fcntl, that do not exclude each other, and sizes  *)
(* and positions are often read before the lock is taken.                  *)
(*                                                                         *)
(* What happens under one flock, without a wait, is one step, and between  *)
(* any two steps of its own a process may end.  Of a record the model      *)
(* keeps the article, the letter its file name begins with, the id and     *)
(* whether it begins a thread.  Left out are the marks, the list of the    *)
(* poster's own deletions (.JUNK), which is like .DELETED, and the cached  *)
(* number of articles.                                                     *)
(***************************************************************************)
EXTENDS Integers, Sequences, FiniteSets, SequencesExt

CONSTANTS
    Procs,
    FirstDirs,          \* .DIR at the start: sequences of <<id, root>>
    MaxEvents           \* bound: operations, deaths, flushes, restarts, cleanings

LastId(s) == IF s = <<>> THEN 0 ELSE s[Len(s)][1]
ASSUME BoardAssumption ==
    /\ MaxEvents \in Nat
    /\ \A s \in FirstDirs :
         /\ s \in Seq((Nat \ {0}) \X BOOLEAN)
         /\ \A i, j \in 1..Len(s) : i < j => s[i][1] < s[j][1]

VARIABLES
    dir, origin, deleted,   \* .DIR, .ORIGIN, .DELETED
    body,                   \* article -> first letter of its file, "none"
    nowid, updateorigin,    \* bstatus: the last id; .ORIGIN is to be made anew
    idseq,                  \* the id kept in .BOARDS
    pr,                     \* process -> what it does
    events

\* What happened, for the properties only.
VARIABLES
    mixed,      \* articles that overlapping operations disagreed about, or that
                \* were between two lists when a process ended
    disorder,   \* a restart repeated ids, or a stale position or size was used
    loose,      \* .ORIGIN and .DIR differ by overlapping operations, or by one
                \* that ended between the two
    asked       \* articles that were on the screen when a deletion was asked for

ghosts == <<mixed, disorder, loose, asked>>
vars == <<dir, origin, deleted, body, nowid, updateorigin, idseq, pr, events, ghosts>>

Zero == [art |-> 0, kind |-> "", id |-> 0, root |-> TRUE]
Idle == [pc |-> "idle", op |-> "", rec |-> Zero, ent |-> 0, to |-> 0, size |-> 0,
         was |-> <<>>]

posted == Len(body)
Arts(s) == {s[i].art : i \in 1..Len(s)} \ {0}
\* The records that begin a thread, in their order.
Roots(s) ==
    LET upto[n \in 0..Len(s)] ==
          IF n = 0 THEN <<>> ELSE IF s[n].root THEN Append(upto[n-1], s[n]) ELSE upto[n-1]
    IN upto[Len(s)]
RootArts == Arts(Roots(dir))
SameFile(r, s) == r.art = s.art /\ r.kind = s.kind

\* A file seen through a mapping of n records: what lies behind its end is 0.
View(s, n) == [i \in 1..n |-> IF i <= Len(s) THEN s[i] ELSE Zero]
\* memmove over the records i..j of the mapping, and ftruncate.
Removed(s, n, i, j) ==
    [k \in 1..n-(j-i+1) |-> View(s, n)[IF k < i THEN k ELSE k + (j-i+1)]]
\* substitute_record: one record is written, wherever the file ends.
substitute_record(s, i, r) == ReplaceAt(View(s, IF i > Len(s) THEN i ELSE Len(s)), i, r)

\* Bisection by id: the interval after each turn of the loop, which shrinks
\* to one record if it is found; at last it is that or empty.
Halved(s, id, b) ==
    LET mid == (b[1] + b[2]) \div 2 IN
    IF b[1] > b[2] THEN b
    ELSE IF s[mid].id = id THEN <<mid, mid>>
    ELSE IF id < s[mid].id THEN <<b[1], mid - 1>> ELSE <<mid + 1, b[2]>>
Bisect(s, id) ==
    LET part[n \in 0..Len(s)] ==
          IF n = 0 THEN <<1, Len(s)>> ELSE Halved(s, id, part[n-1])
    IN part[Len(s)]
Search_Bin(s, id) == LET b == Bisect(s, id) IN IF b[1] = b[2] /\ s[b[1]].id = id THEN b[1] ELSE 0

\* Faulty: what is at the position is not compared with the article.
LocateOnScreen(s, ent, r) == IF ent \in 1..Len(s) THEN ent ELSE Search_Bin(s, r.id)
\* prepare_write_dir: the position on the screen, if the article is still
\* there, or else the place of its id.
Locate(s, ent, r) ==
    IF ent \in 1..Len(s) /\ SameFile(s[ent], r) THEN ent ELSE Search_Bin(s, r.id)

\* rename() of the body of a record, if it has that name.
Renamed(b, r, letter) ==
    IF r.art # 0 /\ b[r.art] = r.kind THEN [b EXCEPT ![r.art] = letter] ELSE b

Init ==
    \E s \in FirstDirs, saved \in {0, 1} :
      /\ dir = [i \in 1..Len(s) |->
                  [art |-> i, kind |-> "M", id |-> s[i][1], root |-> s[i][2]]]
      /\ origin = Roots(dir)
      /\ deleted = <<>>
      /\ body = [i \in 1..Len(s) |-> "M"]
      /\ nowid = LastId(s) /\ idseq = saved * LastId(s)
      /\ updateorigin = FALSE
      /\ pr = [p \in Procs |-> Idle]
      /\ events = 0 /\ mixed = {} /\ disorder = FALSE /\ loose = FALSE /\ asked = {}

\* Process p goes on with step pc, or begins an operation.
Goto(p, pc) == pr' = [pr EXCEPT ![p].pc = pc]
Done(p) == pr' = [pr EXCEPT ![p] = Idle]
Starts(p, what) ==
    /\ pr[p].pc = "idle" /\ events < MaxEvents
    /\ events' = events + 1
    /\ pr' = [pr EXCEPT ![p] = what]
files == <<dir, origin, deleted, body>>
shm == <<nowid, updateorigin, idseq>>

\* What p does next for the record r in .ORIGIN, or when it is none.
AfterDir(p, r, other) ==
    pr' = [pr EXCEPT ![p].rec = r, ![p].pc = IF r.root THEN "origin" ELSE other]
AfterOrigin(op) ==
    CASE op = "delete" -> "cancel" [] op = "undelete" -> "blank" [] OTHER -> "idle"
GoesOn(p) == IF AfterOrigin(pr[p].op) = "idle" THEN Done(p) ELSE Goto(p, AfterOrigin(pr[p].op))

-----------------------------------------------------------------------------
(* after_post *)

Post(p, root) ==
    /\ Starts(p, [Idle EXCEPT !.pc = "append", !.op = "post",
                              !.rec = [art |-> posted + 1, kind |-> "M", id |-> 0, root |-> root]])
    /\ body' = Append(body, "M")
    /\ UNCHANGED <<dir, origin, deleted, shm, ghosts>>

\* The next id and the record, under the lock.
AppendDir(p) ==
    LET r == [pr[p].rec EXCEPT !.id = nowid + 1] IN
    /\ pr[p].pc = "append"
    /\ nowid' = nowid + 1
    /\ dir' = Append(dir, r)
    /\ IF r.root THEN AfterDir(p, r, "idle") ELSE Done(p)
    /\ UNCHANGED <<origin, deleted, body, updateorigin, idseq, events, ghosts>>

\* No thread of .DIR has its id: it has been deleted and is not back there,
\* or came back under another id.
Gone(r) == ~\E i \in 1..Len(dir) : dir[i].root /\ dir[i].id = r.id

\* A later one has come to .ORIGIN before it, which is then not sorted; or
\* it is there, made anew or undeleted, and will be there twice.
Overtaken(r) == \E i \in 1..Len(origin) : origin[i].id >= r.id

\* A thread's first article goes to .ORIGIN too.
AppendOrigin(p) ==
    /\ pr[p].pc = "origin" /\ pr[p].op = "post" /\ ~updateorigin
    /\ origin' = Append(origin, pr[p].rec)
    /\ loose' = (loose \/ Gone(pr[p].rec) \/ Overtaken(pr[p].rec))
    /\ Done(p)
    /\ UNCHANGED <<dir, deleted, body, shm, events, mixed, disorder, asked>>

-----------------------------------------------------------------------------
(* do_del_post: the size is taken before the lock. *)

\* The article is picked on a screen, by its number there or not (ent = 0).
Delete(p, i, ent) ==
    /\ ent \in {0, i} /\ dir[i].art # 0
    /\ Starts(p, [Idle EXCEPT !.pc = "map", !.op = "delete", !.rec = dir[i], !.ent = ent])
    /\ asked' = asked \cup {dir[i].art}
    /\ UNCHANGED <<files, shm, mixed, disorder, loose>>

Map(p) ==
    /\ pr[p].pc = "map"
    /\ IF dir = <<>> THEN Done(p)
       ELSE pr' = [pr EXCEPT ![p].pc = "cut", ![p].size = Len(dir)]
    /\ UNCHANGED <<files, shm, events, ghosts>>

\* Under the lock: the records behind are moved up and the file is cut to
\* the size it had, less one.
Cut(p) ==
    LET n == pr[p].size
        e == Locate(View(dir, n), pr[p].ent, pr[p].rec) IN
    /\ pr[p].pc = "cut"
    /\ IF e = 0 THEN Done(p) /\ UNCHANGED <<dir, mixed, disorder, loose>>
       ELSE /\ dir' = Removed(dir, n, e, e)
            /\ AfterDir(p, View(dir, n)[e], "cancel")
            /\ mixed' = mixed \cup Arts(SubSeq(dir, n + 1, Len(dir)))
            /\ disorder' = (disorder \/ n > Len(dir))
            /\ loose' = (loose \/ n # Len(dir))
    /\ UNCHANGED <<origin, deleted, body, shm, events, asked>>

\* del_origin, the same for .ORIGIN.
MapOrigin(p) ==
    /\ pr[p].pc = "origin" /\ pr[p].op = "delete" /\ ~updateorigin
    /\ IF origin = <<>> THEN Goto(p, "cancel")
       ELSE pr' = [pr EXCEPT ![p].pc = "ocut", ![p].size = Len(origin)]
    /\ UNCHANGED <<files, shm, events, ghosts>>

CutOrigin(p) ==
    LET n == pr[p].size
        e == Search_Bin(View(origin, n), pr[p].rec.id) IN
    /\ pr[p].pc = "ocut"
    /\ origin' = IF e = 0 THEN origin ELSE Removed(origin, n, e, e)
    /\ loose' = (loose \/ n # Len(origin) \/ ~Gone(pr[p].rec))
    /\ Goto(p, "cancel")
    /\ UNCHANGED <<dir, deleted, body, shm, events, mixed, disorder, asked>>

\* cancelpost: the body is renamed and the record goes to .DELETED.
cancelpost(p) ==
    /\ pr[p].pc = "cancel"
    /\ body' = Renamed(body, pr[p].rec, "D")
    /\ deleted' = Append(deleted, [pr[p].rec EXCEPT !.kind = "D"])
    /\ Done(p)
    /\ UNCHANGED <<dir, origin, shm, events, ghosts>>

-----------------------------------------------------------------------------
(* do_undel_post *)

Undelete(p, i) ==
    /\ deleted[i].art # 0
    /\ Starts(p, [Idle EXCEPT !.pc = "check", !.op = "undelete", !.rec = deleted[i], !.ent = i])
    /\ UNCHANGED <<files, shm, ghosts>>

\* There is such a body, and none of the new name.
Check(p) ==
    /\ pr[p].pc = "check"
    /\ IF body[pr[p].rec.art] = "D" THEN Goto(p, "move") ELSE Done(p)
    /\ UNCHANGED <<files, shm, events, ghosts>>

\* Nobody looks whether the body could be renamed.
Move(p) ==
    LET r == pr[p].rec IN
    /\ pr[p].pc = "move"
    /\ body' = Renamed(body, r, "M")
    /\ mixed' = IF body[r.art] = "D" THEN mixed ELSE mixed \cup {r.art}
    /\ pr' = [pr EXCEPT ![p].pc = "insert", ![p].rec.kind = "M"]
    /\ UNCHANGED <<dir, origin, deleted, shm, events, disorder, loose, asked>>

\* mmap_search_apply with insert_func, under the lock: by its id, or under
\* a new id if the file is empty or the id taken.
Renumbers(s, r) == s = <<>> \/ Search_Bin(s, r.id) # 0
Renumbered(r) == [r EXCEPT !.id = nowid + 1, !.root = TRUE]
\* Faulty: what comes back goes to the end.
InsertedLast(s, r) == Append(s, IF Renumbers(s, r) THEN Renumbered(r) ELSE r)
Inserted(s, r) ==
    IF Renumbers(s, r) THEN Append(s, Renumbered(r)) ELSE InsertAt(s, Bisect(s, r.id)[1], r)

Insert(p) ==
    LET r == pr[p].rec IN
    /\ pr[p].pc = "insert"
    /\ dir' = Inserted(dir, r)
    /\ nowid' = IF Renumbers(dir, r) THEN nowid + 1 ELSE nowid
    /\ AfterDir(p, IF Renumbers(dir, r) THEN Renumbered(r) ELSE r, "blank")
    /\ UNCHANGED <<origin, deleted, body, updateorigin, idseq, events, ghosts>>

\* The id in .ORIGIN can become another one than in .DIR.
InsertOrigin(p) ==
    LET r == pr[p].rec IN
    /\ pr[p].pc = "origin" /\ pr[p].op = "undelete" /\ ~updateorigin
    /\ origin' = Inserted(origin, r)
    /\ nowid' = IF Renumbers(origin, r) THEN nowid + 1 ELSE nowid
    /\ loose' = (loose \/ Renumbers(origin, r) \/ Gone(r))
    /\ Goto(p, "blank")
    /\ UNCHANGED <<dir, deleted, body, updateorigin, idseq, events, mixed, disorder, asked>>

\* The record of .DELETED at the place it had on the screen loses its name.
Blank(p) ==
    LET e == pr[p].ent IN
    /\ pr[p].pc = "blank"
    /\ deleted' = substitute_record(deleted, e, Zero)
    /\ mixed' = mixed \cup {a \in Arts(<<View(deleted, e)[e]>>) : body[a] = "D"}
    /\ Done(p)
    /\ UNCHANGED <<dir, origin, body, shm, events, disorder, loose, asked>>

-----------------------------------------------------------------------------
(* edit_title: the record of the screen is written back. *)

EditTitle(p, i) ==
    /\ dir[i].art # 0
    /\ Starts(p, [Idle EXCEPT !.pc = "find", !.op = "edit", !.rec = dir[i], !.ent = i])
    /\ UNCHANGED <<files, shm, ghosts>>

\* The place is looked for from the screen's one down.
Find(p) ==
    LET at == {i \in 1..pr[p].ent : i <= Len(dir) /\ SameFile(dir[i], pr[p].rec)} IN
    /\ pr[p].pc = "find"
    /\ IF at = {} THEN Done(p)
       ELSE pr' = [pr EXCEPT ![p].pc = "write",
                             ![p].ent = CHOOSE i \in at : \A j \in at : j <= i]
    /\ UNCHANGED <<files, shm, events, ghosts>>

Write(p) ==
    LET r == pr[p].rec
        e == pr[p].ent
        stale == View(dir, e)[e] # r IN
    /\ pr[p].pc = "write"
    /\ dir' = substitute_record(dir, e, r)
    /\ mixed' = IF stale THEN mixed \cup {r.art, View(dir, e)[e].art} ELSE mixed
    /\ disorder' = (disorder \/ stale)
    /\ loose' = (loose \/ stale)
    /\ IF r.root THEN AfterDir(p, r, "idle") ELSE Done(p)
    /\ UNCHANGED <<origin, deleted, body, shm, events, asked>>

\* Faulty: it is written back although it was not found.
FindOriginOrNot(p) ==
    /\ pr[p].pc = "origin" /\ pr[p].op = "edit" /\ ~updateorigin
    /\ pr' = [pr EXCEPT ![p].pc = "owrite", ![p].ent = Search_Bin(origin, pr[p].rec.id)]
    /\ UNCHANGED <<files, shm, events, ghosts>>
FindOrigin(p) ==
    LET e == Search_Bin(origin, pr[p].rec.id) IN
    /\ pr[p].pc = "origin" /\ pr[p].op = "edit" /\ ~updateorigin
    /\ IF e = 0 THEN Done(p) ELSE pr' = [pr EXCEPT ![p].pc = "owrite", ![p].ent = e]
    /\ UNCHANGED <<files, shm, events, ghosts>>

WriteOrigin(p) ==
    LET e == pr[p].ent IN
    /\ pr[p].pc = "owrite"
    /\ origin' = substitute_record(origin, e, pr[p].rec)
    /\ loose' = (loose \/ View(origin, e)[e] # pr[p].rec)
    /\ Done(p)
    /\ UNCHANGED <<dir, deleted, body, shm, events, mixed, disorder, asked>>

-----------------------------------------------------------------------------
(* delete_range_base, of the articles i..j: its fcntl lock keeps out only
   the others that use fcntl. *)

DeleteRange(p, i, j) ==
    /\ i <= j
    /\ Starts(p, [Idle EXCEPT !.pc = "stat", !.op = "range", !.ent = i, !.to = j])
    /\ asked' = asked \cup Arts(SubSeq(dir, i, j))
    /\ UNCHANGED <<files, shm, mixed, disorder, loose>>

\* (If .DIR is newer than the screen the moderator is asked, and may go on.)
Stat(p) ==
    /\ pr[p].pc = "stat"
    /\ IF pr[p].ent > Len(dir) THEN Done(p)
       ELSE pr' = [pr EXCEPT ![p].pc = "rmove", ![p].size = Len(dir),
                             ![p].to = IF @ > Len(dir) THEN Len(dir) ELSE @]
    /\ UNCHANGED <<files, shm, events, ghosts>>

InRange(p, i) == pr[p].ent <= i /\ i <= pr[p].to
Locked(q) == pr[q].pc = "rcut"
\* delete_range_cancel_post_mv for each: body and record get a D.
MoveRange(p) ==
    /\ pr[p].pc = "rmove" /\ ~\E q \in Procs : Locked(q)
    /\ body' = [a \in 1..posted |->
                  IF \E i \in 1..Len(dir) : InRange(p, i) /\ dir[i].art = a /\ dir[i].kind = body[a]
                  THEN "D" ELSE body[a]]
    /\ dir' = [i \in 1..Len(dir) |->
                 IF InRange(p, i) /\ dir[i].art # 0 THEN [dir[i] EXCEPT !.kind = "D"] ELSE dir[i]]
    /\ mixed' = mixed \cup ({dir[i].art : i \in {k \in 1..Len(dir) : InRange(p, k)}} \ asked)
    /\ Goto(p, "rcut")
    /\ UNCHANGED <<origin, deleted, shm, events, disorder, loose, asked>>

\* What is now in the range goes to .DELETED, the rest is moved up and the
\* file cut to the size it had before, less the range.  That .ORIGIN is to be
\* made anew is not said yet.
CutRange(p) ==
    LET n == pr[p].size
        V == View(dir, n) IN
    /\ pr[p].pc = "rcut"
    /\ dir' = Removed(dir, n, pr[p].ent, pr[p].to)
    /\ deleted' = deleted \o SubSeq(V, pr[p].ent, pr[p].to)
    /\ mixed' = mixed \cup Arts(SubSeq(dir, n + 1, Len(dir)))
                      \cup {V[i].art : i \in {k \in 1..n : InRange(p, k) # (V[k].kind = "D")}}
    /\ disorder' = (disorder \/ n > Len(dir)) /\ loose' = TRUE
    /\ Goto(p, "flag")
    /\ UNCHANGED <<origin, body, shm, events, asked>>

Regenerating(q) == pr[q].pc \in {"rewrite", "clear"}
\* Faulty: the flag is as it was.
FlagNot(p) ==
    /\ pr[p].pc = "flag"
    /\ loose' = (loose /\ \E q \in Procs : Regenerating(q))
    /\ Done(p)
    /\ UNCHANGED <<files, shm, events, mixed, disorder, asked>>

\* setboardorigin, after the lock has been given back and signals are let in
\* again: .ORIGIN will be made anew, whatever it lacks.  (Whoever makes it just
\* now may have missed the cut, and takes the flag away again.)
Flag(p) ==
    /\ pr[p].pc = "flag"
    /\ updateorigin' = TRUE
    /\ loose' = (loose /\ \E q \in Procs : Regenerating(q))
    /\ Done(p)
    /\ UNCHANGED <<files, nowid, idseq, events, mixed, disorder, asked>>

-----------------------------------------------------------------------------
(* board_regenspecial of .ORIGIN *)

\* The flag is looked at again under the lock; the size of .DIR is taken.
Regen(p) ==
    /\ pr[p].pc = "origin" /\ updateorigin
    /\ Goto(p, "regen")
    /\ UNCHANGED <<files, shm, events, ghosts>>
RegenLock(p) ==
    /\ pr[p].pc = "regen" /\ ~\E q \in Procs : Regenerating(q)
    /\ IF updateorigin /\ dir # <<>>
       THEN pr' = [pr EXCEPT ![p].pc = "rewrite", ![p].size = Len(dir), ![p].was = dir]
       ELSE GoesOn(p)
    /\ UNCHANGED <<files, shm, events, ghosts>>
RegenWrite(p) ==
    /\ pr[p].pc = "rewrite"
    /\ origin' = Roots(View(dir, pr[p].size))
    /\ loose' = (dir # pr[p].was)
    /\ Goto(p, "clear")
    /\ UNCHANGED <<dir, deleted, body, shm, events, mixed, disorder, asked>>
RegenClear(p) ==
    /\ pr[p].pc = "clear"
    /\ updateorigin' = FALSE
    /\ loose' = (loose \/ dir # pr[p].was \/ \E q \in Procs \ {p} : pr[q].pc # "idle")
    /\ GoesOn(p)
    /\ UNCHANGED <<files, nowid, idseq, events, mixed, disorder, asked>>

-----------------------------------------------------------------------------
(* miscd, and the machine. *)

\* killdir: the oldest deleted articles are removed for good.
killdir(k) ==
    LET old == SubSeq(deleted, 1, k) IN
    /\ events < MaxEvents /\ events' = events + 1
    /\ deleted' = SubSeq(deleted, k + 1, Len(deleted))
    /\ body' = [a \in 1..posted |->
                  IF a \in Arts(old) /\ body[a] = "D" THEN "none" ELSE body[a]]
    /\ UNCHANGED <<dir, origin, shm, pr, ghosts>>

flush_bcache ==
    /\ events < MaxEvents /\ events' = events + 1
    /\ idseq # nowid /\ idseq' = nowid
    /\ UNCHANGED <<files, nowid, updateorigin, pr, ghosts>>

\* resolve_boards after the machine went down: the last id is taken from
\* the record before the last one; without one lastfh is what the last
\* board left there.
Listed == {(dir \o deleted)[i] : i \in 1..Len(dir \o deleted)}
LastIds == IF Len(dir) > 1 THEN {dir[Len(dir) - 1].id} ELSE 0..nowid

\* Between two lists: the article is in none, and only p knows of it.
Carries(x) ==
    \/ x.pc \in {"append", "insert"}
    \/ x.op = "delete" /\ x.pc \in {"origin", "ocut", "cancel", "regen", "rewrite", "clear"}
InHand == {pr[p].rec.art : p \in {q \in Procs : Carries(pr[q])}}
\* A thread that has come to .DIR or left it, but not yet .ORIGIN.
Enters(x) == x.op \in {"post", "undelete"} /\ x.pc \in {"origin", "regen"}
Leaves(x) == x.op = "delete" /\ x.pc \in {"origin", "ocut"}
\* What a range deletion has marked but not cut.
HalfDeleted == {dir[i].art : i \in {k \in 1..Len(dir) : dir[k].kind = "D"}}

Restart ==
    /\ events < MaxEvents /\ events' = events + 1
    /\ \E last \in LastIds :
         /\ nowid' = IF idseq > last + 1 THEN idseq ELSE last + 1
         /\ disorder' = (disorder \/ \E r \in Listed : r.id > nowid')
    /\ updateorigin' = FALSE
    /\ pr' = [p \in Procs |-> Idle]
    /\ mixed' = mixed \cup InHand \cup HalfDeleted
    /\ loose' = (loose \/ updateorigin \/ \E p \in Procs : Enters(pr[p]) \/ Leaves(pr[p]))
    /\ UNCHANGED <<files, idseq, asked>>

\* abort_bbs at a SIGHUP, or a fault: one process ends, whatever it was about.
\* What it has done stays done, the rest is done by nobody.
Die(p) ==
    LET x == pr[p] IN
    /\ x.pc # "idle"
    /\ events < MaxEvents /\ events' = events + 1
    /\ Done(p)
    /\ mixed' = mixed \cup (IF Carries(x) THEN {x.rec.art} ELSE {})
                     \cup (IF x.pc = "rcut" THEN HalfDeleted ELSE {})
    /\ loose' = (loose \/ Enters(x) \/ Leaves(x))
    /\ UNCHANGED <<files, shm, disorder, asked>>

Next ==
    \/ \E p \in Procs :
         \/ \E root \in BOOLEAN : Post(p, root)
         \/ \E i \in 1..Len(dir), ent \in 0..Len(dir) : Delete(p, i, ent)
         \/ \E i \in 1..Len(deleted) : Undelete(p, i)
         \/ \E i \in 1..Len(dir) : EditTitle(p, i)
         \/ \E i, j \in 1..Len(dir) : DeleteRange(p, i, j)
    \/ \E p \in Procs :
         \/ AppendDir(p) \/ AppendOrigin(p)
         \/ Map(p) \/ Cut(p) \/ MapOrigin(p) \/ CutOrigin(p) \/ cancelpost(p)
         \/ Check(p) \/ Move(p) \/ Insert(p) \/ InsertOrigin(p) \/ Blank(p)
         \/ Find(p) \/ Write(p) \/ FindOrigin(p) \/ WriteOrigin(p)
         \/ Stat(p) \/ MoveRange(p) \/ CutRange(p) \/ Flag(p) \/ Die(p)
         \/ Regen(p) \/ RegenLock(p) \/ RegenWrite(p) \/ RegenClear(p)
    \/ \E k \in 1..Len(deleted) : killdir(k)
    \/ flush_bcache \/ Restart

Spec == Init /\ [][Next]_vars

-----------------------------------------------------------------------------
(* Properties. *)

\* Values have their types, and what is looked up is in range.
Records == [art : 0..posted, kind : {"", "M", "D"}, id : Nat, root : BOOLEAN]
TypeOK ==
    /\ {dir, origin, deleted} \subseteq Seq(Records)
    /\ body \in Seq({"M", "D", "none"})
    /\ {nowid, idseq} \subseteq Nat /\ updateorigin \in BOOLEAN
    /\ \A p \in Procs :
         /\ pr[p].rec \in Records /\ pr[p].ent \in Nat
         /\ pr[p].pc \in {"write", "owrite"} => pr[p].ent > 0

\* The body's name and the lists agree about every article that no process
\* has between two lists: one with its M is in .DIR once, one with its D is not
\* in .DIR and can be undeleted, and nobody deleted one that was not on the
\* screen, wherever it had moved to.  Articles go wrong in no other way than
\* by two operations at once (a size or place taken before the lock), by ids
\* used again, or by a process that ended, or the machine, while it had the
\* article between two lists or in a range it was cutting.
RangeAtWork == \E p \in Procs : pr[p].pc = "rcut"
Times(a) == Cardinality({i \in 1..Len(dir) : dir[i].art = a})
IndexAgrees ==
    RangeAtWork \/ \A a \in 1..posted \ (mixed \cup InHand) :
        /\ Times(a) = (IF body[a] = "M" THEN 1 ELSE 0)
        /\ body[a] = "D" => a \in Arts(deleted)
        /\ body[a] # "M" => a \in asked \/ disorder

\* .DIR is sorted by id, which the bisections rest on: articles that come
\* back from .DELETED have their place, ids are given in the order of the
\* file, also after a restart unless ids had been left out before the last
\* article and not saved.
IdsSorted ==
    disorder \/ \A i \in 1..Len(dir) - 1 : dir[i].id < dir[i+1].id

\* When nobody is at work, .ORIGIN lists the articles that begin a thread,
\* or the flag says that it is to be made anew; it stays wrong only after
\* operations that overlapped (a size, a place or a new copy that was stale,
\* an article that came to .ORIGIN or left it when .DIR had it no more or
\* again), after one that ended between .DIR and .ORIGIN, or between the cut
\* of a range and its flag, when the machine went down with the flag set, or
\* when an undeleted article got an id of its own in .ORIGIN.
OriginsListed ==
    (\A p \in Procs : pr[p].pc = "idle") /\ ~updateorigin /\ ~loose /\ ~disorder
        => Arts(origin) = RootArts
=============================================================================
