------------------------------- MODULE MsgBox -------------------------------
(***************************************************************************)
(* The message box of one user (libBBS/libmsg.c, src/sendmsg.c): files     *)
(* msgindex (the heads of all messages), msgindex2 (the heads of those     *)
(* received, behind the number of the first unread one) and msgcontent     *)
(* (the texts).  Senders append to all three, the logins of the user read, *)
(* and mail_msg empties the box; each with its own locks or none.          *)
(*                                                                         *)
(* A file is opened by name and then used through its descriptor, so what  *)
(* is removed stays with the processes that have it open: name gives the   *)
(* inode of a file, disk the inodes.  A text is as long as one unit of pos.*)
(* A message is its number; a head keeps what readers use of it.           *)
(***************************************************************************)
EXTENDS Integers, Sequences, FiniteSets, FiniteSetsExt, SequencesExt

CONSTANTS
    Telnet,             \* logins of the user with a process of their own
    Web,                \* its web logins, all of pid 1
    Senders,            \* sessions of other users
    MAXMESSAGE,         \* no message is sent to whoever has more unread
    Modes,              \* 0 for a message, 3 for a broadcast
    MaxEvents           \* bound: messages, Ctrl-Z, mail_msg and kills together

Logins == Telnet \cup Web
ASSUME MsgAssumption ==
    /\ {MAXMESSAGE, MaxEvents} \subseteq Nat
    /\ IsFiniteSet(Telnet) /\ IsFiniteSet(Web) /\ IsFiniteSet(Senders)
    /\ Telnet \cap Web = {} /\ Modes \subseteq {0, 3}

VARIABLES
    name,       \* file name -> its inode, 0 if there is none
    disk,       \* the inodes: [first |-> unread number, recs |-> records]
    alive,      \* logins of the user in the login table
    flag,       \* login -> SIGUSR2 pending, or CHECK_MSG in mailcheck
    msg_count,  \* telnet login -> signals it has taken and not answered
    sd,         \* sender -> what its sendmsgfunc does
    rd,         \* login -> what its r_msg or receive_webmsg does
    mail,       \* the mail_msg under way
    sent, asks, \* messages numbered so far, Ctrl-Z pressed so far
    own         \* messages that the sender keeps a copy of

\* What happened, for the properties only.
VARIABLES
    took,       \* <<message, its login, the login whose get_unreadmsg returned it>>
    again,      \* a message was returned twice
    overlap,    \* two get_unreadmsg held the read lock at the same time
    shown,      \* <<login, message, text>> displayed, but while files were removed
    disposed,   \* messages mail_msg has handed to mail_file
    raced,      \* messages being saved while mail_msg was at work, or
                \* together with one of these
    unsig       \* messages saved whose signal woke nobody

ghosts == <<took, again, overlap, shown, disposed, raced, unsig>>
vars == <<name, disk, alive, flag, msg_count, sd, rd, mail, sent, asks, own, ghosts>>

Files == {"msgindex", "msgindex2", "msgcontent"}
Empty == [first |-> 0, recs |-> <<>>]
NoHead == [m |-> 0, to |-> 0, mode |-> 0, pos |-> 0]
HeadOf(s) ==
    [m |-> sd[s].m, to |-> sd[s].to, mode |-> sd[s].mode, pos |-> sd[s].size]

IdleSender == [pc |-> "idle", m |-> 0, to |-> 0, mode |-> 0, fd |-> 0, fd2 |-> 0, size |-> 0]
IdleReader == [pc |-> "idle", count |-> 0, now |-> -1, fd |-> 0, first |-> TRUE,
               head |-> NoHead, other |-> FALSE, cleared |-> FALSE]
IdleMail == [pc |-> "idle", runs |-> 0]

Inode(f) == IF name[f] = 0 THEN Len(disk) + 1 ELSE name[f]
\* open(f, O_CREAT)
Creat(f) ==
    /\ name' = [name EXCEPT ![f] = Inode(f)]
    /\ disk' = IF name[f] = 0 THEN Append(disk, Empty) ELSE disk

Recs(f) == IF name[f] = 0 THEN <<>> ELSE disk[name[f]].recs
get_msgcount(f) == Len(Recs(f))
get_unreadcount ==
    IF name["msgindex2"] = 0 THEN 0
    ELSE Max({0, Len(Recs("msgindex2")) - disk[name["msgindex2"]].first})

\* lseek to pos and write one record.
WriteAt(recs, pos, r) ==
    IF pos < Len(recs) THEN ReplaceAt(recs, pos + 1, r) ELSE Append(recs, r)

Killed == Cardinality(Logins \ alive) + Cardinality({s \in Senders : sd[s].pc = "dead"})
Events == sent + asks + mail.runs + Killed

Saving == {"openc", "lock", "write", "text", "open2", "append2"}
InProgress == {sd[s].m : s \in {t \in Senders : sd[t].pc \in Saving}}
WriteLocked(i) == \E s \in Senders : sd[s].pc \in {"write", "text"} /\ sd[s].fd = i
ReadLocked(i) == \E l \in Logins : rd[l].pc = "bump" /\ rd[l].fd = i

Init ==
    /\ name = [f \in Files |-> 0] /\ disk = <<>>
    /\ alive = Logins
    /\ flag = [l \in Logins |-> FALSE] /\ msg_count = [l \in Telnet |-> 0]
    /\ sd = [s \in Senders |-> IdleSender] /\ rd = [l \in Logins |-> IdleReader]
    /\ mail = IdleMail /\ sent = 0 /\ asks = 0 /\ own = {}
    /\ took = {} /\ again = FALSE /\ overlap = FALSE /\ shown = {}
    /\ disposed = {} /\ raced = {} /\ unsig = 0

-----------------------------------------------------------------------------
(* Senders: sendmsgfunc and save_msgtext. *)

\* Faulty: nobody is limited.
MaySendAlways(to, mode) == to \in Logins /\ mode \in Modes
\* sendmsgfunc up to the text: mode 3 is a broadcast.  A web login's box is
\* not limited; the others are refused when enough is unread.
MaySend(to, mode) == mode # 3 /\ to \notin Web => get_unreadcount <= MAXMESSAGE
Send(s, l, mode) ==
    /\ sd[s].pc = "idle" /\ Events < MaxEvents /\ l \in alive
    /\ MaySend(l, mode)
    /\ sent' = sent + 1
    /\ sd' = [sd EXCEPT ![s] = [IdleSender EXCEPT !.pc = "search", !.m = sent + 1,
                                                  !.to = l, !.mode = mode]]
    /\ UNCHANGED <<name, disk, alive, flag, msg_count, rd, mail, asks, own, ghosts>>

\* The second look at the login table (t_search): the message is given up,
\* and mailed back, when its login has gone.  Else msgindex is opened.
OpenIndex(s) ==
    /\ sd[s].pc = "search"
    /\ IF sd[s].to \in alive
       THEN /\ Creat("msgindex")
            /\ sd' = [sd EXCEPT ![s].pc = "openc", ![s].fd = Inode("msgindex")]
            /\ raced' = IF mail.pc = "idle" /\ InProgress \cap raced = {} THEN raced
                         ELSE raced \cup {sd[s].m}
       ELSE /\ sd' = [sd EXCEPT ![s] = IdleSender]
            /\ UNCHANGED <<name, disk, raced>>
    /\ UNCHANGED <<alive, flag, msg_count, rd, mail, sent, asks, own,
                   took, again, overlap, shown, disposed, unsig>>

OpenContent(s) ==
    /\ sd[s].pc = "openc"
    /\ Creat("msgcontent")
    /\ sd' = [sd EXCEPT ![s].pc = "lock", ![s].fd2 = Inode("msgcontent")]
    /\ UNCHANGED <<alive, flag, msg_count, rd, mail, sent, asks, own, ghosts>>

\* Faulty: msgindex is not locked.
LockIndexNot(s) ==
    /\ sd[s].pc = "lock"
    /\ sd' = [sd EXCEPT ![s].pc = "write", ![s].size = Len(disk[sd[s].fd2].recs)]
    /\ UNCHANGED <<name, disk, alive, flag, msg_count, rd, mail, sent, asks, own, ghosts>>

\* The lock, and the size of msgcontent while it is held.
LockIndex(s) ==
    /\ sd[s].pc = "lock" /\ ~WriteLocked(sd[s].fd)
    /\ sd' = [sd EXCEPT ![s].pc = "write", ![s].size = Len(disk[sd[s].fd2].recs)]
    /\ UNCHANGED <<name, disk, alive, flag, msg_count, rd, mail, sent, asks, own, ghosts>>

\* The head is written behind the others ...
WriteHead(s) ==
    /\ sd[s].pc = "write"
    /\ disk' = [disk EXCEPT ![sd[s].fd].recs = Append(@, HeadOf(s))]
    /\ sd' = [sd EXCEPT ![s].pc = "text"]
    /\ UNCHANGED <<name, alive, flag, msg_count, rd, mail, sent, asks, own, ghosts>>

\* ... then the text, at the place the head has, and the lock is given back.
WriteText(s) ==
    /\ sd[s].pc = "text"
    /\ disk' = [disk EXCEPT ![sd[s].fd2].recs = WriteAt(@, sd[s].size, sd[s].m)]
    /\ sd' = [sd EXCEPT ![s].pc = "open2"]
    /\ UNCHANGED <<name, alive, flag, msg_count, rd, mail, sent, asks, own, ghosts>>

OpenIndex2(s) ==
    /\ sd[s].pc = "open2"
    /\ Creat("msgindex2")
    /\ sd' = [sd EXCEPT ![s].pc = "append2", ![s].fd = Inode("msgindex2")]
    /\ UNCHANGED <<alive, flag, msg_count, rd, mail, sent, asks, own, ghosts>>

\* The head behind the others of msgindex2, under its lock.
AppendIndex2(s) ==
    /\ sd[s].pc = "append2" /\ ~ReadLocked(sd[s].fd)
    /\ disk' = [disk EXCEPT ![sd[s].fd].recs = Append(@, HeadOf(s))]
    /\ sd' = [sd EXCEPT ![s].pc = "notify"]
    /\ UNCHANGED <<name, alive, flag, msg_count, rd, mail, sent, asks, own, ghosts>>

\* The sender's own copy, except of a broadcast (one step: nobody else uses
\* the sender's box here).  Then CHECK_MSG for a web login, SIGUSR2 for a
\* process; a signal that finds another one pending is lost, and one to a
\* process that is gone fails.
Notify(s) ==
    LET l == sd[s].to IN
    /\ sd[s].pc = "notify"
    /\ flag' = IF l \in alive THEN [flag EXCEPT ![l] = TRUE] ELSE flag
    /\ unsig' = IF l \in alive /\ ~flag[l] THEN unsig ELSE unsig + 1
    /\ own' = IF sd[s].mode = 3 THEN own ELSE own \cup {sd[s].m}
    /\ sd' = [sd EXCEPT ![s] = IdleSender]
    /\ UNCHANGED <<name, disk, alive, msg_count, rd, mail, sent, asks,
                   took, again, overlap, shown, disposed, raced>>

\* A sender is killed (a kick, a hangup) wherever it is; its locks go with it.
Die(s) ==
    /\ sd[s].pc \notin {"idle", "dead"}
    /\ Events < MaxEvents
    /\ sd' = [sd EXCEPT ![s] = [IdleSender EXCEPT !.pc = "dead"]]
    /\ unsig' = IF sd[s].pc = "notify" THEN unsig + 1 ELSE unsig
    /\ UNCHANGED <<name, disk, alive, flag, msg_count, rd, mail, sent, asks, own,
                   took, again, overlap, shown, disposed, raced>>

-----------------------------------------------------------------------------
(* Logins: r_msg_sig, r_msg and receive_webmsg. *)

r_msg_sig(l) ==
    /\ l \in Telnet /\ l \in alive /\ flag[l]
    /\ flag' = [flag EXCEPT ![l] = FALSE]
    /\ msg_count' = [msg_count EXCEPT ![l] = @ + 1]
    /\ UNCHANGED <<name, disk, alive, sd, rd, mail, sent, asks, own, ghosts>>

\* Faulty: r_msg does not ask whether there is a message.
BeginAnyway(l) ==
    rd' = [rd EXCEPT ![l] = [IdleReader EXCEPT !.pc = "take", !.count = get_msgcount("msgindex2")]]
\* r_msg looks at the number of messages first; there may be none.
Begin(l) ==
    rd' = [rd EXCEPT ![l] =
             IF get_msgcount("msgindex2") = 0 /\ l \in Telnet THEN IdleReader
             ELSE [IdleReader EXCEPT !.pc = "take", !.count = get_msgcount("msgindex2")]]

\* Faulty: one r_msg for all signals.
AnswerDrains(l) ==
    /\ l \in Telnet /\ l \in alive /\ rd[l].pc = "idle" /\ msg_count[l] > 0
    /\ msg_count' = [msg_count EXCEPT ![l] = 0]
    /\ Begin(l)
    /\ UNCHANGED <<name, disk, alive, flag, sd, mail, sent, asks, own, ghosts>>
\* igetkey calls r_msg once per signal taken, and for Ctrl-Z; a page of the
\* web session calls receive_webmsg while CHECK_MSG is set.
Answer(l) ==
    /\ l \in Telnet /\ l \in alive /\ rd[l].pc = "idle" /\ msg_count[l] > 0
    /\ msg_count' = [msg_count EXCEPT ![l] = @ - 1]
    /\ Begin(l)
    /\ UNCHANGED <<name, disk, alive, flag, sd, mail, sent, asks, own, ghosts>>
CtrlZ(l) ==
    /\ l \in Telnet /\ l \in alive /\ rd[l].pc = "idle" /\ Events < MaxEvents
    /\ asks' = asks + 1
    /\ Begin(l)
    /\ UNCHANGED <<name, disk, alive, flag, msg_count, sd, mail, sent, own, ghosts>>
WebPage(l) ==
    /\ l \in Web /\ l \in alive /\ rd[l].pc = "idle" /\ flag[l]
    /\ Begin(l)
    /\ UNCHANGED <<name, disk, alive, flag, msg_count, sd, mail, sent, asks, own, ghosts>>

\* get_unreadmsg: the number of the first unread message is read under a
\* read lock, which others may share.  Without one, the first call makes
\* r_msg show the last message and receive_webmsg give up; the calls of the
\* loop go on with the head they have.
Take(l) ==
    LET i == Inode("msgindex2")
        ret == disk'[i].first IN
    /\ rd[l].pc = "take"
    /\ Creat("msgindex2")
    /\ IF ret < Len(disk'[i].recs)
       THEN /\ rd' = [rd EXCEPT ![l].pc = "bump", ![l].fd = i, ![l].now = ret]
            /\ overlap' = (overlap \/ ReadLocked(i))
       ELSE /\ rd' = IF ~rd[l].first THEN rd
                     ELSE IF l \in Web THEN [rd EXCEPT ![l].pc = "fail"]
                     ELSE [rd EXCEPT ![l].pc = "show", ![l].now = rd[l].count - 1]
            /\ UNCHANGED overlap
    /\ UNCHANGED <<alive, flag, msg_count, sd, mail, sent, asks, own,
                   took, again, shown, disposed, raced, unsig>>

\* Faulty: the number in the file is increased, whatever was read.
BumpRereads(l) ==
    LET h == disk[rd[l].fd].recs[rd[l].now + 1] IN
    /\ rd[l].pc = "bump"
    /\ disk' = [disk EXCEPT ![rd[l].fd].first = @ + 1]
    /\ rd' = [rd EXCEPT ![l].pc = "head"]
    /\ took' = took \cup {<<h.m, h.to, l>>}
    /\ again' = (again \/ \E x \in took : x[1] = h.m)
    /\ UNCHANGED <<name, alive, flag, msg_count, sd, mail, sent, asks, own,
                   overlap, shown, disposed, raced, unsig>>
\* The next number is written back and the lock given up.
Bump(l) ==
    LET h == disk[rd[l].fd].recs[rd[l].now + 1] IN
    /\ rd[l].pc = "bump"
    /\ disk' = [disk EXCEPT ![rd[l].fd].first = rd[l].now + 1]
    /\ rd' = [k \in Logins |->
                IF k = l THEN [rd[l] EXCEPT !.pc = "head"]
                ELSE [rd[k] EXCEPT !.other = rd[k].pc # "idle"]]
    /\ took' = took \cup {<<h.m, h.to, l>>}
    /\ again' = (again \/ \E x \in took : x[1] = h.m)
    /\ UNCHANGED <<name, alive, flag, msg_count, sd, mail, sent, asks, own,
                   overlap, shown, disposed, raced, unsig>>

\* load_msghead; a head that cannot be read leaves the one from before, and
\* the first one is then what the stack held (NoHead).
Loaded(l) == IF rd[l].now \in 0..get_msgcount("msgindex2") - 1
             THEN Recs("msgindex2")[rd[l].now + 1] ELSE rd[l].head
IsMine(l, h) == IF h = NoHead THEN BOOLEAN ELSE {h.to = l \/ {h.to, l} \subseteq Web}

\* Where the loop goes with that head: a message that is not this login's is
\* passed over if there is another; it counts as read, and nobody saw it.
\* Faulty: the loop goes past the last message; up to the last message.
LoopPast(l, mine) == IF mine \/ rd[l].now >= rd[l].count THEN "show" ELSE "take"
LoopToLast(l, mine) == IF rd[l].now >= rd[l].count - 1 THEN "show" ELSE "take"
Loop(l, mine) == IF mine \/ rd[l].now >= rd[l].count - 1 THEN "show" ELSE "take"

\* receive_webmsg gives up a first message that came after the count.
LoadHead(l) ==
    LET h == Loaded(l) IN
    /\ rd[l].pc = "head"
    /\ \E mine \in IsMine(l, h) :
         rd' = [rd EXCEPT ![l].head = h,
                          ![l].first = FALSE,
                          ![l].pc = IF l \in Web /\ rd[l].first /\ rd[l].now >= rd[l].count
                                    THEN "fail" ELSE Loop(l, mine)]
    /\ UNCHANGED <<name, disk, alive, flag, msg_count, sd, mail, sent, asks, own, ghosts>>

\* The text is read and displayed; r_msg reads the head once more, and
\* receive_webmsg gives up when there is no file of texts.
Show(l) ==
    LET h == IF l \in Telnet THEN Loaded(l) ELSE rd[l].head
        text == IF h.pos < get_msgcount("msgcontent")
                THEN Recs("msgcontent")[h.pos + 1] ELSE 0
    IN
    /\ rd[l].pc = "show"
    /\ IF l \in Web /\ name["msgcontent"] = 0
       THEN rd' = [rd EXCEPT ![l].pc = "fail"] /\ UNCHANGED shown
       ELSE /\ shown' = IF rd[l].cleared THEN shown ELSE shown \cup {<<l, h.m, text>>}
            /\ rd' = [rd EXCEPT ![l] = IdleReader]
    /\ UNCHANGED <<name, disk, alive, flag, msg_count, sd, mail, sent, asks, own,
                   took, again, overlap, disposed, raced, unsig>>

\* bbs_getwebmsg has got nothing and takes CHECK_MSG away.
Unflag(l) ==
    /\ rd[l].pc = "fail"
    /\ flag' = [flag EXCEPT ![l] = FALSE]
    /\ unsig' = unsig + get_unreadcount
    /\ rd' = [rd EXCEPT ![l] = IdleReader]
    /\ UNCHANGED <<name, disk, alive, msg_count, sd, mail, sent, asks, own,
                   took, again, overlap, shown, disposed, raced>>

\* The login ends, also by a kick in the middle of r_msg.
Leave(l) ==
    /\ l \in alive /\ Events < MaxEvents
    /\ alive' = alive \ {l}
    /\ flag' = [flag EXCEPT ![l] = FALSE]
    /\ msg_count' = IF l \in Telnet THEN [msg_count EXCEPT ![l] = 0] ELSE msg_count
    /\ rd' = [rd EXCEPT ![l] = IdleReader]
    /\ unsig' = unsig + get_unreadcount
    /\ UNCHANGED <<name, disk, sd, mail, sent, asks, own,
                   took, again, overlap, shown, disposed, raced>>

-----------------------------------------------------------------------------
(* mail_msg, at the user's command or at the last exit: the messages are
   counted, mailed in one letter, and the files removed without a lock,
   also when the letter could not be written (mail_file's result is not
   looked at): disposed says what was in it, not that it arrived. *)

\* Faulty: only the unread messages are mailed.
MailMsgUnread ==
    /\ mail.pc = "idle" /\ Events < MaxEvents
    /\ mail' = [pc |-> "msgindex", runs |-> mail.runs + 1]
    /\ disposed' = IF name["msgindex2"] = 0 THEN {}
                   ELSE {Recs("msgindex2")[i].m :
                            i \in disk[name["msgindex2"]].first + 1 .. get_msgcount("msgindex2")}
    /\ raced' = raced \cup InProgress
    /\ UNCHANGED <<name, disk, alive, flag, msg_count, sd, rd, sent, asks, own,
                   took, again, overlap, shown, unsig>>
MailMsg ==
    /\ mail.pc = "idle" /\ Events < MaxEvents
    /\ mail' = [pc |-> "msgindex", runs |-> mail.runs + 1]
    /\ disposed' = disposed \cup {Recs("msgindex")[i].m : i \in 1..get_msgcount("msgindex")}
    /\ raced' = raced \cup InProgress
    /\ UNCHANGED <<name, disk, alive, flag, msg_count, sd, rd, sent, asks, own,
                   took, again, overlap, shown, unsig>>

NextFile == [msgindex |-> "msgindex2", msgindex2 |-> "msgcontent", msgcontent |-> "idle"]
Unlink ==
    /\ mail.pc # "idle"
    /\ name' = [name EXCEPT ![mail.pc] = 0]
    /\ mail' = [mail EXCEPT !.pc = NextFile[mail.pc]]
    /\ rd' = [l \in Logins |-> [rd[l] EXCEPT !.other = rd[l].pc # "idle",
                                            !.cleared = rd[l].pc # "idle"]]
    /\ UNCHANGED <<disk, alive, flag, msg_count, sd, sent, asks, own, ghosts>>

\* The process is killed before all files are removed (runs counts this too).
Abort ==
    /\ mail.pc # "idle" /\ Events < MaxEvents
    /\ mail' = [pc |-> "idle", runs |-> mail.runs + 1]
    /\ UNCHANGED <<name, disk, alive, flag, msg_count, sd, rd, sent, asks, own, ghosts>>

Next ==
    \/ \E s \in Senders, l \in Logins, mode \in Modes : Send(s, l, mode)
    \/ \E s \in Senders :
         \/ OpenIndex(s) \/ OpenContent(s) \/ LockIndex(s) \/ WriteHead(s) \/ WriteText(s)
         \/ OpenIndex2(s) \/ AppendIndex2(s) \/ Notify(s) \/ Die(s)
    \/ \E l \in Logins :
         \/ r_msg_sig(l) \/ Answer(l) \/ CtrlZ(l) \/ WebPage(l) \/ Take(l)
         \/ Bump(l) \/ LoadHead(l) \/ Show(l) \/ Unflag(l) \/ Leave(l)
    \/ MailMsg \/ Unlink \/ Abort

Spec == Init /\ [][Next]_vars

-----------------------------------------------------------------------------
(* Properties. *)

\* Values have their types, and a message to show has a number.
TypeOK ==
    /\ name \in [Files -> 0..Len(disk)]
    /\ \A i \in 1..Len(disk) : disk[i].first \in Nat
    /\ alive \subseteq Logins
    /\ flag \in [Logins -> BOOLEAN] /\ msg_count \in [Telnet -> Nat]
    /\ \A s \in Senders : sd[s].m \in 0..sent /\ sd[s].to \in Logins \cup {0}
    /\ \A l \in Logins : rd[l].now \in (IF rd[l].pc = "show" THEN 0 ELSE -1)..MaxEvents
    /\ sent \in 0..MaxEvents /\ own \subseteq 1..sent /\ shown \subseteq Logins \X Nat \X Nat

\* The pointer in msgindex2 never passes a message that no call of
\* get_unreadmsg returned, although readers move it under a shared lock;
\* and a message is returned a second time only if two logins of the user
\* once held that lock together.
NothingSkipped ==
    /\ again => overlap
    /\ \A i \in 1..Len(disk) : \A k \in 1..disk[i].first :
          k <= Len(disk[i].recs) /\ \E x \in took : x[1] = disk[i].recs[k].m

\* What is displayed under a head is the text sent with it, although texts
\* of several senders go to one file; unless it was saved while mail_msg
\* removed the files.
TextMatches ==
    \A x \in shown : x[2] # 0 /\ (x[2] \in raced \/ x[3] = x[2])

\* The limit of unread messages is looked up long before the message is
\* written: the senders together exceed it by one each, and no more, as
\* long as the pointer is not set back.
Limited(h) == h.mode # 3 /\ h.to \in Telnet
UnreadLimited ==
    IF name["msgindex2"] = 0 THEN {}
    ELSE {k \in disk[name["msgindex2"]].first + 1 .. Len(Recs("msgindex2")) :
            Limited(Recs("msgindex2")[k])}
UnreadBounded ==
    overlap \/ Cardinality(UnreadLimited) <= MAXMESSAGE + Cardinality(Senders)

\* No unread message is forgotten: each has a signal pending, taken or still
\* to be sent, or an r_msg that has not yet looked; a web login has
\* CHECK_MSG.  Lost are only signals that met another one pending, those
\* of a sender killed between saving and signalling, those of logins that
\* ended, and a CHECK_MSG taken away when a message had just come.
ToNotify == {s \in Senders : sd[s].pc = "notify"}
Looking(l) == rd[l].pc \in {"take", "bump"} /\ rd[l].first
Wakeups == [l \in Telnet |-> msg_count[l] + (IF flag[l] THEN 1 ELSE 0) + (IF Looking(l) THEN 1 ELSE 0)]
Tokens(w) == UNION {{l} \X (1..w[l]) : l \in Telnet}   \* w[l] of each login
WakeupsCover ==
    \/ overlap \/ \E l \in Web : flag[l]
    \/ get_unreadcount <= unsig + Cardinality(ToNotify) + Cardinality(Tokens(Wakeups))

\* The loop of r_msg that looks for a message of its own login comes to
\* nothing left to read, and then turns for ever, only if another login
\* read the rest or mail_msg removed it meanwhile.
Spinning(l) == rd[l].pc = "take" /\ ~rd[l].first /\ get_unreadcount = 0
SpinOnlyWithOther == \A l \in Logins : Spinning(l) => rd[l].other

\* What was saved is in the box, index and unread list, or mail_msg has put
\* it in a letter (and removes it even if that failed); else a message can get
\* lost only if it was being saved while mail_msg was at work.
Accepted == own \cup {sd[s].m : s \in ToNotify}
InFile(m, f) == \E i \in 1..get_msgcount(f) : Recs(f)[i].m = m
AcceptedKept ==
    \A m \in Accepted \ (raced \cup disposed) :
        InFile(m, "msgindex") /\ InFile(m, "msgindex2")

\* A telnet login that takes a message of its own displays it, however many
\* of another login it passes over before.
TakenIsShown ==
    \A x \in took :
        LET m == x[1] l == x[2] IN
        x[3] = l /\ l \in Telnet \cap alive /\ rd[l].pc = "idle" =>
            \/ \E y \in shown : y[1] = l /\ y[2] = m
            \/ mail.runs > 0
=============================================================================
