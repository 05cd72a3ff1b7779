--------------------------- MODULE MsgBox_proofs ---------------------------
(***************************************************************************)
(* The messages between logins: proofs about module MsgBox.                *)
(*                                                                         *)
(* A file keeps its inode while processes have it open, though its name    *)
(* may be removed (mail_msg) and given to a new one.  The invariant is     *)
(* therefore about inodes: K says as what file each was opened, and every  *)
(* process uses its descriptors as that.  On top of it: no message is in   *)
(* the unread lists twice (Once); the pointer only passes messages that    *)
(* were taken (Pointers); a sender that mail_msg did not meet writes to    *)
(* the files that have the names, one at a time (Apart), so the text at    *)
(* the place a head gives stays the text of its message (Texts); and what  *)
(* a reader has counted and taken is still there (Reading, Alone, Kept,    *)
(* Taking).  The signals stand apart, at the end: Covered.                 *)
(***************************************************************************)
EXTENDS MsgBox, FiniteSetTheorems, SequenceTheorems, TLAPS

Numbers == Nat \ {0}
Heads == [m : Numbers, to : Logins, mode : Modes, pos : Nat]
Inodes == [first : Nat, recs : Seq(Heads) \cup Seq(Nat)]
SenderStates ==
    [pc : {"idle", "search", "openc", "lock", "write", "text", "open2", "append2", "notify", "dead"},
     m : Nat, to : Logins \cup {0}, mode : Modes \cup {0}, fd : Nat, fd2 : Nat, size : Nat]
ReaderStates ==
    [pc : {"idle", "take", "bump", "head", "show", "fail"}, count : Nat, now : Nat \cup {-1},
     fd : Nat, first : BOOLEAN, head : Heads \cup {NoHead}, other : BOOLEAN, cleared : BOOLEAN]

Types ==
    /\ name \in [Files -> 0..Len(disk)] /\ disk \in Seq(Inodes)
    /\ alive \subseteq Logins
    /\ flag \in [Logins -> BOOLEAN] /\ msg_count \in [Telnet -> Nat]
    /\ sd \in [Senders -> SenderStates] /\ rd \in [Logins -> ReaderStates]
    /\ mail \in [pc : Files \cup {"idle"}, runs : Nat]
    /\ sent \in 0..MaxEvents /\ asks \in Nat
    /\ \A s \in Senders : sd[s].m <= sent
    /\ own \subseteq 1..sent /\ shown \subseteq Logins \X Nat \X Nat
    /\ took \subseteq Nat \X Logins \X Logins
    /\ raced \subseteq 0..sent /\ again \in BOOLEAN /\ overlap \in BOOLEAN

\* What file inode i was opened as is K[i]; processes use it as that.
DiskKinds(K) ==
    /\ K \in [1..Len(disk) -> Files]
    /\ \A i \in 1..Len(disk) :
         /\ K[i] = "msgcontent" => disk[i].recs \in Seq(Nat)
         /\ K[i] # "msgcontent" => disk[i].recs \in Seq(Heads)
         /\ K[i] # "msgindex2" => disk[i].first = 0
    /\ \A f \in Files : name[f] # 0 => K[name[f]] = f
SenderKinds(K, x) ==
    /\ x.pc \in {"openc", "lock", "write", "text"} => x.fd \in 1..Len(disk) /\ K[x.fd] = "msgindex"
    /\ x.pc \in {"lock", "write", "text"} => x.fd2 \in 1..Len(disk) /\ K[x.fd2] = "msgcontent"
    /\ x.pc = "append2" => x.fd \in 1..Len(disk) /\ K[x.fd] = "msgindex2"
ReaderKinds(K, x) ==
    x.pc = "bump" =>
      /\ x.fd \in 1..Len(disk) /\ K[x.fd] = "msgindex2"
      /\ x.now \in 0..Len(disk[x.fd].recs) - 1
Kinds(K) ==
    /\ DiskKinds(K)
    /\ \A s \in Senders : SenderKinds(K, sd[s])
    /\ \A l \in Logins : ReaderKinds(K, rd[l])

\* A message is once in the unread lists, or on its way there.
Unsaved == {"search", "openc", "lock", "write", "text", "open2", "append2"}
Listed(K) ==
    /\ \A i \in 1..Len(disk) : K[i] = "msgindex2" =>
         \A k \in 1..Len(disk[i].recs) : disk[i].recs[k].m <= sent
    /\ \A i, j \in 1..Len(disk) : K[i] = "msgindex2" /\ K[j] = "msgindex2" =>
         \A k \in 1..Len(disk[i].recs), n \in 1..Len(disk[j].recs) :
            disk[i].recs[k].m = disk[j].recs[n].m => i = j /\ k = n
NotListed(K, m) ==
    \A i \in 1..Len(disk) : K[i] = "msgindex2" =>
      \A k \in 1..Len(disk[i].recs) : disk[i].recs[k].m # m
OnceOf(K, x) ==
    /\ x.pc \in Unsaved => x.m # 0 /\ x.to \in Logins /\ x.mode \in Modes /\ NotListed(K, x.m)
    /\ x.pc = "notify" => x.m # 0
Once(K) ==
    /\ Listed(K)
    /\ \A s \in Senders : OnceOf(K, sd[s])
    /\ \A s, t \in Senders :
         sd[s].pc \in Unsaved /\ sd[t].pc \in Unsaved /\ sd[s].m = sd[t].m => s = t

\* The pointer and those who move it.
IsTaken(m) == \E x \in took : x[1] = m
PointersOf(x) == x.pc = "bump" => \A k \in 1..x.now : IsTaken(disk[x.fd].recs[k].m)
Pointers(K) ==
    /\ \A i \in 1..Len(disk) :
         /\ disk[i].first <= Len(disk[i].recs)
         /\ \A k \in 1..disk[i].first : IsTaken(disk[i].recs[k].m)
    /\ \A l \in Logins : PointersOf(rd[l])
    /\ ~overlap =>
         /\ ~again
         /\ \A l \in Logins : rd[l].pc = "bump" => disk[rd[l].fd].first = rd[l].now
         /\ \A l, k \in Logins :
              rd[l].pc = "bump" /\ rd[k].pc = "bump" /\ rd[l].fd = rd[k].fd => l = k
         /\ \A x \in took : \E i \in 1..Len(disk) :
              K[i] = "msgindex2" /\ \E k \in 1..disk[i].first : disk[i].recs[k].m = x[1]

\* Senders that mail_msg does not meet write to the files that have the names.
ApartOf(x) ==
    /\ x.m \notin raced =>
         /\ x.pc \in {"openc", "lock", "write", "text"} => x.fd = name["msgindex"]
         /\ x.pc \in {"lock", "write", "text"} => x.fd2 = name["msgcontent"]
         /\ x.pc \in {"write", "text"} => x.size = Len(disk[x.fd2].recs)
         /\ x.pc \in {"text", "open2", "append2"} => InFile(x.m, "msgindex")
         /\ x.pc = "append2" => x.fd = name["msgindex2"]
    /\ x.pc \in {"write", "text"} => x.size <= Len(disk[x.fd2].recs)
    /\ x.pc = "search" => x.m \notin raced
Apart ==
    /\ InProgress \subseteq raced \/ InProgress \cap raced = {}
    /\ mail.pc # "idle" => InProgress \subseteq raced
    /\ \A s \in Senders : ApartOf(sd[s])
    /\ \A s, t \in Senders :
         sd[s].pc \in {"write", "text"} /\ sd[t].pc \in {"write", "text"} /\ sd[s].fd = sd[t].fd => s = t

\* The text at pos is that of m, and no sender is about to write it over.
Text(m, pos) ==
    /\ name["msgcontent"] # 0
    /\ pos < Len(disk[name["msgcontent"]].recs)
    /\ disk[name["msgcontent"]].recs[pos + 1] = m
    /\ \A t \in Senders : sd[t].pc \in {"write", "text"} /\ sd[t].fd2 = name["msgcontent"] => sd[t].size > pos
HeadText(h) == h.m \in raced \/ (mail.pc # "msgcontent" /\ Text(h.m, h.pos))
SenderText(x) == x.pc \in {"open2", "append2"} => x.m \in raced \/ Text(x.m, x.size)
Texts ==
    /\ name["msgindex2"] # 0 =>
         \A k \in 1..Len(disk[name["msgindex2"]].recs) : HeadText(disk[name["msgindex2"]].recs[k])
    /\ \A s \in Senders : SenderText(sd[s])
    /\ TextMatches

\* A reader whose files have not been removed has a head that is there.
Index2 == disk[name["msgindex2"]]
ReadingOf(l, x) ==
    /\ x.pc = "idle" => x.now = -1
    /\ x.pc \in {"bump", "head", "show"} => x.now >= 0
    /\ x.pc # "idle" /\ l \in Telnet => x.count >= 1
    /\ x.pc # "idle" => x.count <= sent /\ x.now < sent
    /\ x.pc # "idle" /\ ~x.cleared =>
         /\ x.count > 0 => name["msgindex2"] # 0 /\ x.count <= Len(Index2.recs)
         /\ x.pc = "bump" => x.fd = name["msgindex2"]
         /\ x.pc \in {"head", "show"} => name["msgindex2"] # 0 /\ x.now < Len(Index2.recs)
         /\ x.pc = "show" /\ l \in Web => x.head = Index2.recs[x.now + 1]
Reading == \A l \in Logins : ReadingOf(l, rd[l])

\* ... and nobody else has moved the pointer.
AloneOf(x) ==
    x.pc # "idle" /\ ~x.other =>
      /\ ~x.cleared
      /\ x.pc = "head" => Index2.first = x.now + 1
      /\ x.pc = "take" /\ ~x.first =>
           /\ name["msgindex2"] # 0
           /\ Index2.first = x.now + 1 /\ x.now + 1 < x.count
Alone == \A l \in Logins : AloneOf(rd[l])

Kept ==
    /\ AcceptedKept
    /\ mail.pc # "idle" => Accepted \subseteq raced \cup disposed

\* The message a login has taken is the one it will show.
Pending(l, m) ==
    /\ rd[l].pc \in {"head", "show"}
    /\ name["msgindex2"] # 0 /\ rd[l].now < Len(Index2.recs)
    /\ Index2.recs[rd[l].now + 1].m = m /\ Index2.recs[rd[l].now + 1].to = l
IsShown(l, m) == \E y \in shown : y[1] = l /\ y[2] = m
Taking ==
    mail.runs = 0 =>
      /\ mail.pc = "idle"
      /\ \A l \in Logins : ~rd[l].cleared
      /\ \A x \in took : x[3] = x[2] /\ x[2] \in Telnet \cap alive =>
           IsShown(x[2], x[1]) \/ Pending(x[2], x[1])

\* The messages on their way count against the limit.
UnderWay == {s \in Senders : sd[s].pc \in Unsaved /\ sd[s].mode # 3 /\ sd[s].to \in Telnet}
Limit ==
    overlap \/ Cardinality(UnreadLimited) + Cardinality(UnderWay) <= MAXMESSAGE + Cardinality(Senders)

Rest == Apart /\ Texts /\ Reading /\ Alone /\ Kept /\ Taking /\ Limit
KInv(K) == Types /\ Kinds(K) /\ Once(K) /\ Pointers(K) /\ Rest
IInv == \E K : KInv(K)

-----------------------------------------------------------------------------
(* Parts of the invariant under steps that leave most of it alone. *)

\* A step that changes nothing a part is about keeps it.
LEMMA FrameKinds ==
  ASSUME NEW K, Kinds(K), UNCHANGED <<name, disk, sd, rd>>
  PROVE  Kinds(K)'
BY DEF Kinds, DiskKinds, SenderKinds, ReaderKinds

\* What a message is listed as depends on the files, the senders and the count of messages only.
LEMMA FrameOnce ==
  ASSUME NEW K, Once(K), UNCHANGED <<disk, sent, sd>>
  PROVE  Once(K)'
BY DEF Once, Listed, OnceOf, NotListed

\* A step that leaves the files, the readers and what has been taken alone leaves the pointers right.
LEMMA FramePointers ==
  ASSUME NEW K, Pointers(K), UNCHANGED <<disk, took, rd, overlap, again>>
  PROVE  Pointers(K)'
BY DEF Pointers, PointersOf, IsTaken

\* A step of a reader does not bring a sender onto another file.
LEMMA FrameApart ==
  ASSUME Apart, UNCHANGED <<name, disk, raced, mail, sd>>
  PROVE  Apart'
BY DEF Apart, ApartOf, InProgress, Saving, InFile, get_msgcount, Recs

\* A step that touches neither files nor senders and shows nothing leaves the texts in place.
LEMMA FrameTexts ==
  ASSUME Texts, UNCHANGED <<name, disk, raced, mail, sd, shown>>
  PROVE  Texts'
BY DEF Texts, HeadText, SenderText, Text, TextMatches

\* A reader's head stays there while the files and the readers are left alone; messages may be sent meanwhile.
LEMMA FrameReading ==
  ASSUME Reading, UNCHANGED <<name, disk, rd>>, rd \in [Logins -> ReaderStates],
         sent \in Nat, sent' \in Nat, sent <= sent'
  PROVE  Reading'
<1>1. \A l \in Logins : rd[l].count \in Int /\ rd[l].now \in Int
  BY DEF ReaderStates
<1> QED BY <1>1 DEF Reading, ReadingOf, Index2

\* The same for a reader that nobody else has got in the way of.
LEMMA FrameAlone ==
  ASSUME Alone, UNCHANGED <<name, disk, rd>>
  PROVE  Alone'
BY DEF Alone, AloneOf, Index2

\* Fewer messages count as saved, and no file changes.
LEMMA FrameKept ==
  ASSUME Kept, Accepted' \subseteq Accepted, UNCHANGED <<name, disk, mail, raced, disposed>>
  PROVE  Kept'
BY DEF Kept, AcceptedKept, InFile, get_msgcount, Recs

\* What has been taken stays pending or shown while files, readers and mail_msg are left alone.
LEMMA FrameTaking ==
  ASSUME Taking, UNCHANGED <<name, disk, mail, rd, took, alive, shown>>
  PROVE  Taking'
BY DEF Taking, Pending, IsShown, Index2

\* Processes and logins are finitely many, and so is every set of them.
LEMMA Finite ==
  /\ IsFiniteSet(Senders) /\ IsFiniteSet(Logins) /\ Cardinality(Senders) \in Nat
  /\ \A S \in SUBSET Senders : IsFiniteSet(S) /\ Cardinality(S) \in Nat
                               /\ Cardinality(S) <= Cardinality(Senders)
  /\ \A S \in SUBSET Logins : Cardinality(S) \in Nat
BY MsgAssumption, FS_Subset, FS_CardinalityType, FS_Union DEF Logins

\* The unread messages that count against the limit are finitely many, as the file is.
LEMMA UnreadFinite ==
  ASSUME Types
  PROVE  IsFiniteSet(UnreadLimited) /\ Cardinality(UnreadLimited) \in Nat
<1>1. CASE name["msgindex2"] = 0
  BY <1>1, FS_EmptySet DEF UnreadLimited
<1>2. CASE name["msgindex2"] # 0
  <2> DEFINE a == disk[name["msgindex2"]].first + 1
             b == Len(disk[name["msgindex2"]].recs)
  <2>1. name["msgindex2"] \in 1..Len(disk)
    BY <1>2 DEF Types, Files
  <2>2. disk[name["msgindex2"]] \in Inodes
    BY <2>1 DEF Types
  <2>3. a \in Int /\ b \in Int
    <3>1. disk[name["msgindex2"]].first \in Nat
      BY <2>2 DEF Inodes
    <3>2. disk[name["msgindex2"]].recs \in Seq(Heads) \/ disk[name["msgindex2"]].recs \in Seq(Nat)
      BY <2>2 DEF Inodes
    <3>3. b \in Nat
      BY <3>2, LenProperties
    <3> QED BY <3>1, <3>3
  <2>4. IsFiniteSet(a..b)
    BY <2>3, FS_Interval
  <2>5. UnreadLimited \subseteq a..b
    BY <1>2 DEF UnreadLimited, Recs
  <2> QED BY <2>4, <2>5, FS_Subset, FS_CardinalityType
<1> QED BY <1>1, <1>2

\* Max of the community modules on the two values that MsgBox applies it to.
LEMMA MaxOfTwo == \A d \in Int : Max({0, d}) = IF d >= 0 THEN d ELSE 0
BY DEF Max

\* What counts for the limit is among what get_unreadcount counts.
LEMMA UnreadAtMost ==
  ASSUME Types
  PROVE  get_unreadcount \in Nat /\ Cardinality(UnreadLimited) <= get_unreadcount
<1>1. CASE name["msgindex2"] = 0
  BY <1>1, FS_EmptySet DEF UnreadLimited, get_unreadcount
<1>2. CASE name["msgindex2"] # 0
  <2> DEFINE p == disk[name["msgindex2"]].first
             b == Len(disk[name["msgindex2"]].recs)
  <2>1. name["msgindex2"] \in 1..Len(disk)
    BY <1>2 DEF Types, Files
  <2>2. disk[name["msgindex2"]] \in Inodes
    BY <2>1 DEF Types
  <2>3. p \in Nat /\ b \in Nat
    <3>1. disk[name["msgindex2"]].first \in Nat
      BY <2>2 DEF Inodes
    <3>2. disk[name["msgindex2"]].recs \in Seq(Heads) \/ disk[name["msgindex2"]].recs \in Seq(Nat)
      BY <2>2 DEF Inodes
    <3> QED BY <3>1, <3>2, LenProperties
  <2>4. get_unreadcount = IF b - p >= 0 THEN b - p ELSE 0
    BY <1>2, <2>3, MaxOfTwo DEF get_unreadcount, Recs
  <2>5. UnreadLimited \subseteq p + 1 .. b
    BY <1>2 DEF UnreadLimited, Recs
  <2> HIDE DEF p, b
  <2>6. /\ IsFiniteSet(p + 1 .. b)
        /\ Cardinality(p + 1 .. b) = IF p + 1 > b THEN 0 ELSE b - (p + 1) + 1
    BY <2>3, FS_Interval
  <2>7. Cardinality(UnreadLimited) <= Cardinality(p + 1 .. b)
    BY <2>5, <2>6, FS_Subset
  <2> QED BY <2>3, <2>4, <2>6, <2>7
<1> QED BY <1>1, <1>2

\* The limit holds on if the list is left alone and no sender begins.
LEMMA FrameLimit ==
  ASSUME Limit, Types, UnderWay' \subseteq UnderWay, UNCHANGED <<name, disk, overlap>>
  PROVE  Limit'
<1>1. UnreadLimited' = UnreadLimited
  BY DEF UnreadLimited, Limited, Recs
<1>2. Cardinality(UnderWay') <= Cardinality(UnderWay)
      /\ Cardinality(UnderWay') \in Nat /\ Cardinality(UnderWay) \in Nat
  <2>1. UnderWay \in SUBSET Senders
    BY DEF UnderWay
  <2>2. IsFiniteSet(UnderWay) /\ Cardinality(UnderWay) \in Nat
    BY <2>1, Finite
  <2> QED BY <2>2, FS_Subset, FS_CardinalityType
<1>3. Cardinality(UnreadLimited) \in Nat
  BY UnreadFinite
<1>4. MAXMESSAGE \in Nat /\ Cardinality(Senders) \in Nat
  BY MsgAssumption, Finite
<1> QED BY <1>1, <1>2, <1>3, <1>4 DEF Limit

\* What a file holds is of its kind.
LEMMA RecordAt ==
  ASSUME NEW K, DiskKinds(K), NEW i \in 1..Len(disk)
  PROVE  /\ Len(disk[i].recs) \in Nat
         /\ K[i] # "msgcontent" => \A k \in 1..Len(disk[i].recs) : disk[i].recs[k] \in Heads
         /\ K[i] = "msgcontent" => \A k \in 1..Len(disk[i].recs) : disk[i].recs[k] \in Nat
<1>1. CASE disk[i].recs \in Seq(Heads) /\ K[i] # "msgcontent"
  BY <1>1, LenProperties, ElementOfSeq
<1>2. CASE disk[i].recs \in Seq(Nat) /\ K[i] = "msgcontent"
  BY <1>2, LenProperties, ElementOfSeq
<1> QED BY <1>1, <1>2 DEF DiskKinds

\* One sender's record changes, and no file.
LEMMA OneSender ==
  ASSUME NEW K, Kinds(K), Once(K), sd \in [Senders -> SenderStates], sent \in Nat,
         NEW s \in Senders, NEW y \in SenderStates,
         sd' = [sd EXCEPT ![s] = y], sent' \in Nat, sent <= sent',
         UNCHANGED <<name, disk, rd>>,
         SenderKinds(K, y), OnceOf(K, y),
         y.pc \in Unsaved => \A t \in Senders : t # s /\ sd[t].pc \in Unsaved => sd[t].m # y.m
  PROVE  Kinds(K)' /\ Once(K)'
<1>1. sd'[s] = y /\ \A t \in Senders : t # s => sd'[t] = sd[t]
  OBVIOUS
<1>2. Kinds(K)'
  <2>1. DiskKinds(K)' /\ \A l \in Logins : ReaderKinds(K, rd[l])'
    BY DEF Kinds, DiskKinds, ReaderKinds
  <2>2. \A t \in Senders : SenderKinds(K, sd[t])'
    BY <1>1 DEF Kinds, SenderKinds
  <2> QED BY <2>1, <2>2 DEF Kinds
<1>3. Once(K)'
  <2>1. Listed(K)'
    <3>1. \A i \in 1..Len(disk) : K[i] = "msgindex2" =>
            \A k \in 1..Len(disk[i].recs) : disk[i].recs[k].m \in Nat
      <4> SUFFICES ASSUME NEW i \in 1..Len(disk), K[i] = "msgindex2",
                          NEW k \in 1..Len(disk[i].recs)
                   PROVE  disk[i].recs[k].m \in Nat
        OBVIOUS
      <4>1. disk[i].recs[k] \in Heads
        BY RecordAt DEF Kinds
      <4> QED BY <4>1 DEF Heads, Numbers
    <3> QED BY <3>1, SMTT(40) DEF Once, Listed
  <2>2. \A t \in Senders : OnceOf(K, sd[t])'
    BY <1>1 DEF Once, OnceOf, NotListed
  <2>3. \A p, t \in Senders :
          sd'[p].pc \in Unsaved /\ sd'[t].pc \in Unsaved /\ sd'[p].m = sd'[t].m => p = t
    BY <1>1 DEF Once
  <2> QED BY <2>1, <2>2, <2>3 DEF Once
<1> QED BY <1>2, <1>3

\* One sender goes on, on the files that have the names unless mail_msg met it; only one holds the lock of an index.
LEMMA OneSenderApart ==
  ASSUME Apart, sd \in [Senders -> SenderStates], NEW s \in Senders, NEW y \in SenderStates,
         sd' = [sd EXCEPT ![s] = y], UNCHANGED <<name, disk, mail, raced>>,
         y.pc \in Saving => sd[s].pc \in Saving /\ y.m = sd[s].m,
         ApartOf(y), y.pc \in {"write", "text"} => ~WriteLocked(y.fd)
  PROVE  Apart'
<1>1. sd'[s] = y /\ \A t \in Senders : t # s => sd'[t] = sd[t]
  OBVIOUS
<1>2. InProgress' \subseteq InProgress
  BY <1>1 DEF InProgress
<1>3. \A t \in Senders : ApartOf(sd[t])'
  BY <1>1 DEF Apart, ApartOf, InFile, get_msgcount, Recs
<1>4. \A p, t \in Senders :
         sd'[p].pc \in {"write", "text"} /\ sd'[t].pc \in {"write", "text"} /\ sd'[p].fd = sd'[t].fd => p = t
  BY <1>1 DEF Apart, WriteLocked
<1> QED BY <1>2, <1>3, <1>4 DEF Apart

\* One sender goes on without writing: it is about to write behind every text there is.
LEMMA OneSenderTexts ==
  ASSUME Texts, sd \in [Senders -> SenderStates], NEW s \in Senders, NEW y \in SenderStates,
         sd' = [sd EXCEPT ![s] = y], UNCHANGED <<name, disk, mail, raced, shown>>,
         y.pc \notin {"open2", "append2"},
         y.pc \in {"write", "text"} => y.size = Len(disk[y.fd2].recs)
  PROVE  Texts'
<1>1. sd'[s] = y /\ \A t \in Senders : t # s => sd'[t] = sd[t]
  OBVIOUS
<1>2. ASSUME NEW m, NEW pos, Text(m, pos) PROVE Text(m, pos)'
  BY <1>1, <1>2 DEF Text
<1>3. \A h : HeadText(h) => HeadText(h)'
  BY <1>2 DEF HeadText
<1>4. \A x : SenderText(x) => SenderText(x)'
  BY <1>2 DEF SenderText
<1>5. \A t \in Senders : SenderText(sd[t])'
  BY <1>1, <1>4 DEF Texts, SenderText
<1> QED BY <1>3, <1>5 DEF Texts, TextMatches

-----------------------------------------------------------------------------
(* Senders between two files. *)

\* The bound on events is one on the messages sent.
LEMMA EventsBound == Types /\ Events < MaxEvents => sent + 1 <= MaxEvents
<1> SUFFICES ASSUME Types, Events < MaxEvents PROVE sent + 1 <= MaxEvents
  OBVIOUS
<1>1. Killed \in Nat
  <2>1. {s \in Senders : sd[s].pc = "dead"} \in SUBSET Senders /\ Logins \ alive \in SUBSET Logins
    OBVIOUS
  <2> QED BY <2>1, Finite DEF Killed
<1>2. sent \in Nat /\ asks \in Nat /\ mail.runs \in Nat /\ MaxEvents \in Nat
  BY MsgAssumption DEF Types
<1> QED BY <1>1, <1>2 DEF Events

\* send_msg begins: the count is read and compared with the limit, and the message is on its way once.
LEMMA SendInv ==
  ASSUME NEW K, KInv(K), NEW s \in Senders, NEW l \in Logins, NEW mode \in Modes, Send(s, l, mode)
  PROVE  KInv(K)'
<1> DEFINE y == [IdleSender EXCEPT !.pc = "search", !.m = sent + 1, !.to = l, !.mode = mode]
<1> USE DEF KInv, Rest
<1>1. /\ sent' = sent + 1 /\ sent \in Nat /\ sent + 1 <= MaxEvents
      /\ UNCHANGED <<name, disk, alive, flag, msg_count, rd, mail, asks, own, ghosts>>
  BY EventsBound DEF Send, Types
<1>2. sd \in [Senders -> SenderStates] /\ rd \in [Logins -> ReaderStates]
  BY DEF Types
<1>3. /\ y \in SenderStates /\ y.pc = "search" /\ y.m = sent + 1 /\ y.to = l /\ y.mode = mode
  <2>1. IdleSender \in SenderStates /\ sent + 1 \in Nat
    BY <1>1 DEF IdleSender, SenderStates
  <2> HIDE DEF IdleSender
  <2> QED BY <2>1 DEF SenderStates
<1>4. sd' = [sd EXCEPT ![s] = y] /\ sd[s].pc = "idle"
  BY DEF Send
<1> HIDE DEF y
<1>5. sd'[s] = y /\ \A t \in Senders : t # s => sd'[t] = sd[t]
  BY <1>2, <1>4
<1>6. Types'
  <2>1. sd' \in [Senders -> SenderStates] /\ \A t \in Senders : sd'[t].m <= sent'
    <3>1. \A t \in Senders : sd[t].m \in Nat /\ sd[t].m <= sent
      BY <1>2 DEF Types, SenderStates
    <3> QED BY <1>1, <1>2, <1>3, <1>4, <3>1
  <2>2. own \subseteq 1..sent' /\ sent' \in 0..MaxEvents /\ raced \subseteq 0..sent'
    BY <1>1, MsgAssumption DEF Types
  <2> QED BY <1>1, <2>1, <2>2 DEF Types, ghosts
<1>7. Kinds(K)' /\ Once(K)'
  <2>1. SenderKinds(K, y)
    BY <1>3 DEF SenderKinds
  <2>2. OnceOf(K, y)
    <3>1. \A i \in 1..Len(disk) : K[i] = "msgindex2" =>
            \A k \in 1..Len(disk[i].recs) : disk[i].recs[k].m # sent + 1
      BY <1>1, RecordAt DEF Kinds, Once, Listed, Heads, Numbers
    <3> QED BY <1>1, <1>3, <3>1 DEF OnceOf, NotListed, Unsaved
  <2>3. \A t \in Senders : sd[t].m # y.m
    BY <1>1, <1>2, <1>3 DEF Types, SenderStates
  <2>4. sent' \in Nat /\ sent <= sent' /\ UNCHANGED <<name, disk, rd>>
    BY <1>1
  <2> HIDE DEF KInv
  <2>5. Kinds(K) /\ Once(K)
    BY DEF KInv
  <2> QED BY <1>1, <1>2, <1>3, <1>4, <2>1, <2>2, <2>3, <2>4, <2>5, OneSender
<1>8. Pointers(K)' /\ Alone' /\ Taking' /\ Reading'
  BY <1>1, <1>2, FramePointers, FrameAlone, FrameTaking, FrameReading DEF ghosts
<1>9. Apart' /\ Texts'
  <2>1. ApartOf(y)
    BY <1>1, <1>3 DEF ApartOf, Types
  <2> QED BY <1>1, <1>2, <1>3, <1>4, <2>1, OneSenderApart, OneSenderTexts DEF Saving, ghosts
<1>10. Kept'
  <2>1. Accepted' \subseteq Accepted
    BY <1>1, <1>3, <1>5 DEF Accepted, ToNotify
  <2> QED BY <1>1, <2>1, FrameKept DEF ghosts
<1>11. Limit'
  <2>1. CASE mode # 3 /\ l \in Telnet
    <3>1. get_unreadcount <= MAXMESSAGE
      BY <2>1, MsgAssumption DEF Send, MaySend
    <3>2. Cardinality(UnreadLimited) <= get_unreadcount
      BY UnreadAtMost
    <3>3. UnreadLimited' = UnreadLimited
      BY <1>1 DEF UnreadLimited, Limited, Recs
    <3>4. Cardinality(UnderWay') <= Cardinality(Senders) /\ Cardinality(UnderWay') \in Nat
      <4>1. UnderWay' \in SUBSET Senders
        BY DEF UnderWay
      <4> QED BY <4>1, Finite
    <3>5. Cardinality(UnreadLimited) \in Nat /\ get_unreadcount \in Nat /\ MAXMESSAGE \in Nat
          /\ Cardinality(Senders) \in Nat
      BY UnreadFinite, UnreadAtMost, MsgAssumption, Finite
    <3> QED BY <3>1, <3>2, <3>3, <3>4, <3>5 DEF Limit
  <2>2. CASE ~(mode # 3 /\ l \in Telnet)
    <3>1. UnderWay' \subseteq UnderWay
      BY <1>3, <1>5, <2>2 DEF UnderWay
    <3> QED BY <1>1, <3>1, FrameLimit DEF ghosts
  <2> QED BY <2>1, <2>2
<1> QED BY <1>6, <1>7, <1>8, <1>9, <1>10, <1>11

\* The lock of msgindex, and the end of msgcontent as the place of the text.
LEMMA LockIndexInv ==
  ASSUME NEW K, KInv(K), NEW s \in Senders, LockIndex(s)
  PROVE  KInv(K)'
<1> DEFINE y == [sd[s] EXCEPT !.pc = "write", !.size = Len(disk[sd[s].fd2].recs)]
<1> USE DEF KInv, Rest
<1>1. /\ UNCHANGED <<name, disk, alive, flag, msg_count, rd, mail, sent, asks, own, ghosts>>
      /\ sd[s].pc = "lock" /\ ~WriteLocked(sd[s].fd)
  BY DEF LockIndex
<1>2. /\ sd \in [Senders -> SenderStates] /\ rd \in [Logins -> ReaderStates] /\ sent \in Nat
      /\ sd[s] \in SenderStates /\ sd[s].m <= sent
  BY DEF Types
<1>3. sd[s].fd2 \in 1..Len(disk) /\ Len(disk[sd[s].fd2].recs) \in Nat
  BY <1>1, RecordAt DEF Kinds, SenderKinds
<1>4. /\ y \in SenderStates /\ y.pc = "write" /\ y.m = sd[s].m /\ y.to = sd[s].to
      /\ y.mode = sd[s].mode /\ y.fd = sd[s].fd /\ y.fd2 = sd[s].fd2
      /\ y.size = Len(disk[sd[s].fd2].recs)
  BY <1>2, <1>3 DEF SenderStates
<1>5. sd' = [sd EXCEPT ![s] = y]
  BY <1>2 DEF LockIndex, SenderStates
<1> HIDE DEF y
<1>6. sd'[s] = y /\ \A t \in Senders : t # s => sd'[t] = sd[t]
  BY <1>2, <1>5
<1>7. Types'
  BY <1>1, <1>2, <1>4, <1>5 DEF Types, ghosts
<1>8. Kinds(K)' /\ Once(K)'
  <2>1. SenderKinds(K, y)
    BY <1>1, <1>4 DEF Kinds, SenderKinds
  <2>2. OnceOf(K, y)
    BY <1>1, <1>4 DEF Once, OnceOf, Unsaved
  <2>3. \A t \in Senders : t # s /\ sd[t].pc \in Unsaved => sd[t].m # y.m
    BY <1>1, <1>4 DEF Once, Unsaved
  <2>4. sent' \in Nat /\ sent <= sent' /\ UNCHANGED <<name, disk, rd>>
    BY <1>1, <1>2
  <2>5. Kinds(K) /\ Once(K)
    OBVIOUS
  <2> HIDE DEF KInv
  <2> QED BY <1>2, <1>4, <1>5, <2>1, <2>2, <2>3, <2>4, <2>5, OneSender
<1>9. Pointers(K)' /\ Alone' /\ Taking' /\ Reading'
  BY <1>1, <1>2, FramePointers, FrameAlone, FrameTaking, FrameReading DEF ghosts
<1>10. Apart' /\ Texts'
  <2>1. ApartOf(y)
    BY <1>1, <1>3, <1>4 DEF Apart, ApartOf
  <2> QED BY <1>1, <1>2, <1>4, <1>5, <2>1, OneSenderApart, OneSenderTexts DEF Saving, ghosts
<1>11. Kept'
  <2>1. Accepted' \subseteq Accepted
    BY <1>1, <1>4, <1>6 DEF Accepted, ToNotify
  <2> QED BY <1>1, <2>1, FrameKept DEF ghosts
<1>12. Limit'
  <2>1. UnderWay' \subseteq UnderWay
    BY <1>1, <1>4, <1>6 DEF UnderWay, Unsaved
  <2> QED BY <1>1, <2>1, FrameLimit DEF ghosts
<1> QED BY <1>7, <1>8, <1>9, <1>10, <1>11, <1>12

\* The receiver is signalled after its message is in the list.
LEMMA NotifyInv ==
  ASSUME NEW K, KInv(K), NEW s \in Senders, Notify(s)
  PROVE  KInv(K)'
<1> USE DEF KInv, Rest
<1>1. /\ UNCHANGED <<name, disk, alive, msg_count, rd, mail, sent, asks,
                   took, again, overlap, shown, disposed, raced>>
      /\ sd[s].pc = "notify" /\ sd' = [sd EXCEPT ![s] = IdleSender]
      /\ own' \subseteq own \cup {sd[s].m} /\ flag' \in [Logins -> BOOLEAN]
  BY DEF Notify, Types
<1>2. /\ sd \in [Senders -> SenderStates] /\ rd \in [Logins -> ReaderStates] /\ sent \in Nat
      /\ sd[s] \in SenderStates /\ sd[s].m <= sent /\ IdleSender \in SenderStates
      /\ IdleSender.pc = "idle" /\ IdleSender.m = 0
  BY DEF Types, IdleSender, SenderStates
<1>3. sd'[s] = IdleSender /\ \A t \in Senders : t # s => sd'[t] = sd[t]
  BY <1>1, <1>2
<1>4. Types'
  <2>1. sd[s].m # 0 /\ sd[s].m \in Nat
    BY <1>1, <1>2 DEF Once, OnceOf, SenderStates
  <2>2. own' \subseteq 1..sent
    BY <1>1, <1>2, <2>1 DEF Types
  <2> QED BY <1>1, <1>2, <2>2 DEF Types
<1>5. Kinds(K)' /\ Once(K)'
  <2>1. SenderKinds(K, IdleSender) /\ OnceOf(K, IdleSender)
    BY <1>2 DEF SenderKinds, OnceOf, Unsaved
  <2>2. sent' \in Nat /\ sent <= sent' /\ UNCHANGED <<name, disk, rd>>
    BY <1>1, <1>2
  <2>3. Kinds(K) /\ Once(K)
    OBVIOUS
  <2> HIDE DEF KInv
  <2> QED BY <1>1, <1>2, <2>1, <2>2, <2>3, OneSender DEF Unsaved
<1>6. Pointers(K)' /\ Alone' /\ Taking' /\ Reading'
  BY <1>1, <1>2, FramePointers, FrameAlone, FrameTaking, FrameReading
<1>7. Apart' /\ Texts'
  <2>1. ApartOf(IdleSender)
    BY <1>2 DEF ApartOf
  <2> QED BY <1>1, <1>2, <2>1, OneSenderApart, OneSenderTexts DEF Saving
<1>8. Kept'
  <2>1. Accepted' \subseteq Accepted
    BY <1>1, <1>2, <1>3 DEF Accepted, ToNotify
  <2> QED BY <1>1, <2>1, FrameKept
<1>9. Limit'
  <2>1. UnderWay' \subseteq UnderWay
    BY <1>2, <1>3 DEF UnderWay, Unsaved
  <2> QED BY <1>1, <2>1, FrameLimit
<1> QED BY <1>4, <1>5, <1>6, <1>7, <1>8, <1>9

\* A message is given up, or its sender killed, wherever it was.
LEMMA SenderGone ==
  ASSUME NEW K, KInv(K), NEW s \in Senders, NEW y, y \in {IdleSender, [IdleSender EXCEPT !.pc = "dead"]},
         sd' = [sd EXCEPT ![s] = y],
         UNCHANGED <<name, disk, alive, flag, msg_count, rd, mail, sent, asks, own,
                     took, again, overlap, shown, disposed, raced>>
  PROVE  KInv(K)'
<1> USE DEF KInv, Rest
<1>1. /\ UNCHANGED <<name, disk, alive, flag, msg_count, rd, mail, sent, asks, own,
                   took, again, overlap, shown, disposed, raced>>
      /\ sd' = [sd EXCEPT ![s] = y]
  OBVIOUS
<1>2. /\ sd \in [Senders -> SenderStates] /\ rd \in [Logins -> ReaderStates] /\ sent \in Nat
      /\ y \in SenderStates /\ y.pc \in {"idle", "dead"} /\ y.m = 0
  BY DEF Types, IdleSender, SenderStates
<1>3. sd'[s] = y /\ \A t \in Senders : t # s => sd'[t] = sd[t]
  BY <1>1, <1>2
<1>4. Types'
  BY <1>1, <1>2 DEF Types
<1>5. Kinds(K)' /\ Once(K)'
  <2>1. SenderKinds(K, y) /\ OnceOf(K, y)
    BY <1>2 DEF SenderKinds, OnceOf, Unsaved
  <2>2. sent' \in Nat /\ sent <= sent' /\ UNCHANGED <<name, disk, rd>>
    BY <1>1, <1>2
  <2>3. Kinds(K) /\ Once(K)
    OBVIOUS
  <2> HIDE DEF KInv
  <2> QED BY <1>1, <1>2, <2>1, <2>2, <2>3, OneSender DEF Unsaved
<1>6. Pointers(K)' /\ Alone' /\ Taking' /\ Reading'
  BY <1>1, <1>2, FramePointers, FrameAlone, FrameTaking, FrameReading
<1>7. Apart' /\ Texts'
  <2>1. ApartOf(y)
    BY <1>2 DEF ApartOf
  <2> QED BY <1>1, <1>2, <2>1, OneSenderApart, OneSenderTexts DEF Saving
<1>8. Kept'
  <2>1. Accepted' \subseteq Accepted
    BY <1>1, <1>2, <1>3 DEF Accepted, ToNotify
  <2> QED BY <1>1, <2>1, FrameKept
<1>9. Limit'
  <2>1. UnderWay' \subseteq UnderWay
    BY <1>2, <1>3 DEF UnderWay, Unsaved
  <2> QED BY <1>1, <2>1, FrameLimit
<1> QED BY <1>4, <1>5, <1>6, <1>7, <1>8, <1>9

\* A sender that is killed, or gives up on the full list, leaves the files as they are.
LEMMA DieInv ==
  ASSUME NEW K, KInv(K), NEW s \in Senders, Die(s)
  PROVE  KInv(K)'
BY SenderGone DEF Die

-----------------------------------------------------------------------------
(* Logins that read, and change no file. *)

\* One reader's record changes, and no file.
LEMMA OneReader ==
  ASSUME NEW K, Kinds(K), Pointers(K), Reading, Alone, rd \in [Logins -> ReaderStates],
         NEW l \in Logins, NEW y \in ReaderStates, rd' = [rd EXCEPT ![l] = y],
         UNCHANGED <<name, disk, sd, sent, took, overlap, again>>,
         y.pc # "bump", ReadingOf(l, y), AloneOf(y)
  PROVE  Kinds(K)' /\ Pointers(K)' /\ Reading' /\ Alone'
<1>1. rd'[l] = y /\ \A k \in Logins : k # l => rd'[k] = rd[k]
  OBVIOUS
<1>2. Kinds(K)'
  <2>1. DiskKinds(K)' /\ \A s \in Senders : SenderKinds(K, sd[s])'
    BY DEF Kinds, DiskKinds, SenderKinds
  <2>2. \A k \in Logins : ReaderKinds(K, rd[k])'
    BY <1>1 DEF Kinds, ReaderKinds
  <2> QED BY <2>1, <2>2 DEF Kinds
<1>3. Pointers(K)'
  BY <1>1 DEF Pointers, PointersOf, IsTaken
<1>4. Reading'
  BY <1>1 DEF Reading, ReadingOf, Index2
<1>5. Alone'
  BY <1>1 DEF Alone, AloneOf, Index2
<1> QED BY <1>2, <1>3, <1>4, <1>5

\* ... and what it has taken stays its next, or has been shown.
LEMMA OneReaderTaking ==
  ASSUME Taking, rd \in [Logins -> ReaderStates],
         NEW l \in Logins, NEW y \in ReaderStates, rd' = [rd EXCEPT ![l] = y],
         UNCHANGED <<name, disk, mail, took>>, alive' \subseteq alive, shown \subseteq shown',
         y.cleared => rd[l].cleared,
         mail.runs = 0 /\ l \in Telnet /\ l \in alive' =>
           \A m : Pending(l, m) =>
             IsShown(l, m)' \/ (y.pc \in {"head", "show"} /\ y.now = rd[l].now)
  PROVE  Taking'
<1>1. rd'[l] = y /\ \A k \in Logins : k # l => rd'[k] = rd[k]
  OBVIOUS
<1>2. \A k, m : IsShown(k, m) => IsShown(k, m)'
  BY DEF IsShown
<1>3. \A k \in Logins : k # l => \A m : Pending(k, m) => Pending(k, m)'
  BY <1>1 DEF Pending, Index2
<1>4. \A m : Pending(l, m) /\ y.pc \in {"head", "show"} /\ y.now = rd[l].now => Pending(l, m)'
  BY <1>1 DEF Pending, Index2
<1>5. ASSUME mail.runs = 0, NEW x \in took, x[3] = x[2], x[2] \in Telnet \cap alive'
      PROVE  IsShown(x[2], x[1])' \/ Pending(x[2], x[1])'
  <2>1. IsShown(x[2], x[1]) \/ Pending(x[2], x[1])
    BY <1>5 DEF Taking
  <2>2. x[2] \in Logins
    BY <1>5 DEF Logins
  <2> QED BY <1>2, <1>3, <1>4, <1>5, <2>1, <2>2
<1>6. mail.runs = 0 => mail.pc = "idle" /\ \A k \in Logins : ~rd'[k].cleared
  BY <1>1 DEF Taking
<1>7. mail' = mail /\ took' = took
  OBVIOUS
<1> QED BY <1>5, <1>6, <1>7 DEF Taking

\* A list is no longer than messages have been sent.
LEMMA ListBounded ==
  ASSUME NEW K, Kinds(K), Once(K), sent \in Nat, NEW i \in 1..Len(disk), K[i] = "msgindex2"
  PROVE  Len(disk[i].recs) \in Nat /\ Len(disk[i].recs) <= sent
<1> DEFINE n == Len(disk[i].recs)
           f == [k \in 1..n |-> disk[i].recs[k].m]
<1>1. n \in Nat /\ \A k \in 1..n : disk[i].recs[k].m \in 1..sent
  <2>1. n \in Nat /\ \A k \in 1..n : disk[i].recs[k] \in Heads
    BY RecordAt DEF Kinds
  <2>2. \A k \in 1..n : disk[i].recs[k].m \in Nat \ {0}
    BY <2>1 DEF Heads, Numbers
  <2>3. \A k \in 1..n : disk[i].recs[k].m <= sent
    BY DEF Once, Listed
  <2> QED BY <2>1, <2>2, <2>3
<1>2. f \in [1..n -> 1..sent]
  BY <1>1
<1>3. \A j, k \in 1..n : f[j] = f[k] => j = k
  BY DEF Once, Listed
<1> HIDE DEF f, n
<1>4. /\ IsFiniteSet(1..n) /\ IsFiniteSet(1..sent)
      /\ Cardinality(1..n) = n /\ Cardinality(1..sent) = sent
  <2>1. n \in Int /\ sent \in Int /\ 1 \in Int /\ n >= 0 /\ sent >= 0
    BY <1>1
  <2>2. IsFiniteSet(1..n) /\ Cardinality(1..n) = IF 1 > n THEN 0 ELSE n - 1 + 1
    BY <2>1, FS_Interval
  <2>3. IsFiniteSet(1..sent) /\ Cardinality(1..sent) = IF 1 > sent THEN 0 ELSE sent - 1 + 1
    BY <2>1, FS_Interval
  <2> QED BY <2>1, <2>2, <2>3
<1>5. ~(Cardinality(1..sent) < Cardinality(1..n))
  <2> SUFFICES ASSUME Cardinality(1..sent) < Cardinality(1..n) PROVE FALSE
    OBVIOUS
  <2>1. \E j, k \in 1..n : j # k /\ f[j] = f[k]
    BY <1>2, <1>4, FS_PigeonHole
  <2> QED BY <1>3, <2>1
<1>6. n <= sent
  BY <1>1, <1>4, <1>5
<1> QED BY <1>1, <1>6 DEF n

\* get_msgcount of the unread list.
LEMMA CountBounded ==
  ASSUME NEW K, KInv(K)
  PROVE  LET n == get_msgcount("msgindex2") IN
         /\ n \in Nat /\ n <= sent
         /\ n > 0 => name["msgindex2"] # 0 /\ n = Len(Index2.recs)
<1>1. CASE name["msgindex2"] = 0
  BY <1>1 DEF get_msgcount, Recs, KInv, Types
<1>2. CASE name["msgindex2"] # 0
  <2>1. name["msgindex2"] \in 1..Len(disk) /\ K[name["msgindex2"]] = "msgindex2" /\ sent \in Nat
    BY <1>2 DEF Types, Files, KInv, Kinds, DiskKinds
  <2>2. Len(Index2.recs) \in Nat /\ Len(Index2.recs) <= sent
    BY <2>1, ListBounded DEF KInv, Index2
  <2> QED BY <1>2, <2>2 DEF get_msgcount, Recs, Index2
<1> QED BY <1>1, <1>2

\* A process that does not read claims nothing.
LEMMA IdleReaderFacts ==
  /\ IdleReader \in ReaderStates /\ IdleReader.pc = "idle" /\ ~IdleReader.cleared
  /\ AloneOf(IdleReader) /\ \A l \in Logins : ReadingOf(l, IdleReader)
BY DEF IdleReader, ReaderStates, AloneOf, ReadingOf

\* The steps of a login that are about its own reading only.
LEMMA ReaderStepInv ==
  ASSUME NEW K, KInv(K), NEW l \in Logins, NEW y \in ReaderStates, rd' = [rd EXCEPT ![l] = y],
         UNCHANGED <<name, disk, sd, mail, sent, own, took, again, overlap, disposed, raced>>,
         alive' \subseteq alive, flag' \in [Logins -> BOOLEAN], msg_count' \in [Telnet -> Nat],
         asks' \in Nat,
         y.pc # "bump", ReadingOf(l, y), AloneOf(y), y.cleared => rd[l].cleared,
         shown' \subseteq Logins \X Nat \X Nat, shown \subseteq shown', TextMatches',
         mail.runs = 0 /\ l \in Telnet /\ l \in alive' =>
           \A m : Pending(l, m) =>
             IsShown(l, m)' \/ (y.pc \in {"head", "show"} /\ y.now = rd[l].now)
  PROVE  KInv(K)'
<1> USE DEF KInv, Rest
<1>1. rd \in [Logins -> ReaderStates]
  BY DEF Types
<1>2. Types'
  BY DEF Types
<1>3. Kinds(K)' /\ Pointers(K)' /\ Reading' /\ Alone'
  <2>1. Kinds(K) /\ Pointers(K) /\ Reading /\ Alone
    OBVIOUS
  <2> HIDE DEF KInv
  <2> QED BY <1>1, <2>1, OneReader
<1>4. Once(K)' /\ Apart'
  BY FrameOnce, FrameApart
<1>5. Kept'
  <2>1. Accepted' = Accepted
    BY DEF Accepted, ToNotify
  <2> QED BY <2>1, FrameKept
<1>6. Limit'
  <2>1. UnderWay' = UnderWay
    BY DEF UnderWay
  <2> QED BY <2>1, FrameLimit
<1>7. Taking'
  <2>1. Taking
    OBVIOUS
  <2> HIDE DEF KInv
  <2> QED BY <1>1, <2>1, OneReaderTaking
<1>8. Texts'
  BY DEF Texts, HeadText, SenderText, Text
<1> QED BY <1>2, <1>3, <1>4, <1>5, <1>6, <1>7, <1>8

\* r_msg or receive_webmsg begins, or finds that there is no message.
LEMMA BeginInv ==
  ASSUME NEW K, KInv(K), NEW l \in Logins, rd[l].pc = "idle", Begin(l),
         UNCHANGED <<name, disk, alive, flag, sd, mail, sent, own, ghosts>>,
         msg_count' \in [Telnet -> Nat], asks' \in Nat
  PROVE  KInv(K)'
<1> DEFINE n == get_msgcount("msgindex2")
           y == IF n = 0 /\ l \in Telnet THEN IdleReader
                ELSE [IdleReader EXCEPT !.pc = "take", !.count = n]
<1>1. rd' = [rd EXCEPT ![l] = y]
  BY DEF Begin
<1>2. /\ n \in Nat /\ n <= sent /\ sent \in Nat
      /\ n > 0 => name["msgindex2"] # 0 /\ n = Len(Index2.recs)
  <2>1. /\ n \in Nat /\ n <= sent
        /\ n > 0 => name["msgindex2"] # 0 /\ n = Len(Index2.recs)
    BY CountBounded
  <2>2. sent \in Nat
    BY DEF KInv, Types
  <2> QED BY <2>1, <2>2
<1> HIDE DEF n
<1>3. CASE n = 0 /\ l \in Telnet
  <2>1. y = IdleReader
    BY <1>3
  <2>2. \A m : ~Pending(l, m)
    BY DEF Pending
  <2> HIDE DEF y
  <2> QED BY <1>1, <2>1, <2>2, IdleReaderFacts, ReaderStepInv DEF ghosts, KInv, Rest, Types, Texts, TextMatches
<1>4. CASE ~(n = 0 /\ l \in Telnet)
  <2>1. /\ y \in ReaderStates /\ y.pc = "take" /\ y.count = n /\ y.now = -1 /\ y.first
        /\ ~y.cleared
    BY <1>2, <1>4 DEF IdleReader, ReaderStates
  <2> HIDE DEF y
  <2>2. ReadingOf(l, y)
    BY <1>2, <1>4, <2>1 DEF ReadingOf
  <2>3. AloneOf(y)
    BY <2>1 DEF AloneOf
  <2>4. \A m : ~Pending(l, m)
    BY DEF Pending
  <2> QED BY <1>1, <2>1, <2>2, <2>3, <2>4, ReaderStepInv DEF ghosts, KInv, Rest, Types, Texts, TextMatches
<1> QED BY <1>3, <1>4

\* The signal, the key and the page by which a login begins to read.
LEMMA AnswerInv ==
  ASSUME NEW K, KInv(K), NEW l \in Logins, r_msg_sig(l) \/ Answer(l) \/ CtrlZ(l) \/ WebPage(l)
  PROVE  KInv(K)'
<1>1. CASE r_msg_sig(l)
  <2>1. UNCHANGED <<name, disk, alive, sd, rd, mail, sent, asks, own, ghosts>>
    BY <1>1 DEF r_msg_sig
  <2>2. flag' \in [Logins -> BOOLEAN] /\ msg_count' \in [Telnet -> Nat]
    BY <1>1 DEF r_msg_sig, KInv, Types
  <2>3. Types'
    BY <2>1, <2>2 DEF KInv, Types, ghosts
  <2>4. Kinds(K)' /\ Once(K)' /\ Pointers(K)' /\ Apart' /\ Texts' /\ Alone' /\ Taking'
    BY <2>1, FrameKinds, FrameOnce, FramePointers, FrameApart, FrameTexts, FrameAlone, FrameTaking
       DEF KInv, Rest, ghosts
  <2>5. Reading' /\ Kept' /\ Limit'
    <3>1. rd \in [Logins -> ReaderStates] /\ sent \in Nat /\ sent' \in Nat /\ sent <= sent'
      BY <2>1 DEF KInv, Types
    <3>2. Accepted' = Accepted /\ UnderWay' = UnderWay
      BY <2>1 DEF Accepted, ToNotify, UnderWay
    <3> QED BY <2>1, <3>1, <3>2, FrameReading, FrameKept, FrameLimit DEF KInv, Rest, ghosts
  <2> QED BY <2>3, <2>4, <2>5 DEF KInv, Rest
<1>2. CASE Answer(l)
  <2>1. /\ rd[l].pc = "idle" /\ Begin(l)
        /\ UNCHANGED <<name, disk, alive, flag, sd, mail, sent, asks, own, ghosts>>
    BY <1>2 DEF Answer
  <2>2. msg_count' \in [Telnet -> Nat] /\ asks' \in Nat
    BY <1>2 DEF Answer, KInv, Types
  <2> QED BY <2>1, <2>2, BeginInv
<1>3. CASE CtrlZ(l)
  <2>1. /\ rd[l].pc = "idle" /\ Begin(l)
        /\ UNCHANGED <<name, disk, alive, flag, sd, mail, sent, msg_count, own, ghosts>>
    BY <1>3 DEF CtrlZ
  <2>2. msg_count' \in [Telnet -> Nat] /\ asks' \in Nat
    BY <1>3 DEF CtrlZ, KInv, Types
  <2> QED BY <2>1, <2>2, BeginInv
<1>4. CASE WebPage(l)
  <2>1. /\ rd[l].pc = "idle" /\ Begin(l)
        /\ UNCHANGED <<name, disk, alive, flag, sd, mail, sent, asks, msg_count, own, ghosts>>
    BY <1>4 DEF WebPage
  <2>2. msg_count' \in [Telnet -> Nat] /\ asks' \in Nat
    BY <2>1 DEF KInv, Types
  <2> QED BY <2>1, <2>2, BeginInv
<1> QED BY <1>1, <1>2, <1>3, <1>4

\* The head a login works with.
LEMMA LoadedFacts ==
  ASSUME NEW K, KInv(K), NEW l \in Logins
  PROVE  /\ Loaded(l) \in Heads \cup {NoHead}
         /\ rd[l].now >= 0 /\ name["msgindex2"] # 0 /\ rd[l].now < Len(Index2.recs) =>
              Loaded(l) = Index2.recs[rd[l].now + 1] /\ Loaded(l) \in Heads
<1>1. rd[l] \in ReaderStates /\ rd[l].now \in Int /\ rd[l].head \in Heads \cup {NoHead}
  BY DEF KInv, Types, ReaderStates
<1>2. CASE name["msgindex2"] = 0
  BY <1>1, <1>2 DEF Loaded, get_msgcount, Recs
<1>3. CASE name["msgindex2"] # 0
  <2>1. name["msgindex2"] \in 1..Len(disk) /\ K[name["msgindex2"]] = "msgindex2"
    BY <1>3 DEF Types, Files, KInv, Kinds, DiskKinds
  <2>2. Len(Index2.recs) \in Nat /\ \A k \in 1..Len(Index2.recs) : Index2.recs[k] \in Heads
    BY <2>1, RecordAt DEF KInv, Kinds, Index2
  <2>3. get_msgcount("msgindex2") = Len(Index2.recs) /\ Recs("msgindex2") = Index2.recs
    BY <1>3 DEF get_msgcount, Recs, Index2
  <2>4. Loaded(l) = IF rd[l].now \in 0..Len(Index2.recs) - 1
                    THEN Index2.recs[rd[l].now + 1] ELSE rd[l].head
    BY <2>3 DEF Loaded
  <2>5. rd[l].now \in 0..Len(Index2.recs) - 1 => rd[l].now + 1 \in 1..Len(Index2.recs)
    BY <1>1, <2>2
  <2>6. rd[l].now >= 0 /\ rd[l].now < Len(Index2.recs) => rd[l].now \in 0..Len(Index2.recs) - 1
    BY <1>1, <2>2
  <2> QED BY <1>1, <2>2, <2>4, <2>5, <2>6
<1> QED BY <1>2, <1>3

\* The head of the message taken is read from the file.
LEMMA LoadHeadInv ==
  ASSUME NEW K, KInv(K), NEW l \in Logins, LoadHead(l)
  PROVE  KInv(K)'
<1> DEFINE h == Loaded(l)
           pc(mine) == IF l \in Web /\ rd[l].first /\ rd[l].now >= rd[l].count
                       THEN "fail" ELSE Loop(l, mine)
           y(mine) == [rd[l] EXCEPT !.head = h, !.first = FALSE, !.pc = pc(mine)]
<1>1. PICK mine \in IsMine(l, h) : rd' = [rd EXCEPT ![l] = y(mine)]
  <2>1. rd[l] \in ReaderStates
    BY DEF KInv, Types
  <2>2. PICK mine \in IsMine(l, h) :
          rd' = [rd EXCEPT ![l].head = h, ![l].first = FALSE, ![l].pc = pc(mine)]
    BY DEF LoadHead
  <2> HIDE DEF h, pc
  <2> QED BY <2>1, <2>2 DEF KInv, Types, ReaderStates
<1>2. /\ rd[l].pc = "head" /\ rd[l] \in ReaderStates
      /\ UNCHANGED <<name, disk, alive, flag, msg_count, sd, mail, sent, asks, own, ghosts>>
  BY DEF LoadHead, KInv, Types
<1>3. /\ h \in Heads \cup {NoHead}
      /\ rd[l].now >= 0 /\ name["msgindex2"] # 0 /\ rd[l].now < Len(Index2.recs) =>
           h = Index2.recs[rd[l].now + 1] /\ h \in Heads
  BY LoadedFacts
<1>4. /\ pc(mine) \in {"fail", "show", "take"}
      /\ pc(mine) = "take" => rd[l].now < rd[l].count - 1
      /\ l \in Telnet /\ mine => pc(mine) = "show"
  <2>1. rd[l].now \in Int /\ rd[l].count \in Int
    BY <1>2 DEF ReaderStates
  <2> QED BY <2>1, MsgAssumption DEF Loop
<1> DEFINE z == y(mine)
<1> HIDE DEF h
<1>5. /\ z \in ReaderStates /\ z.pc = pc(mine) /\ z.head = h /\ ~z.first
      /\ z.now = rd[l].now /\ z.count = rd[l].count /\ z.cleared = rd[l].cleared
      /\ z.other = rd[l].other
  <2> HIDE DEF pc
  <2> QED BY <1>2, <1>3, <1>4 DEF ReaderStates
<1> HIDE DEF z, pc
<1>6. ReadingOf(l, rd[l]) /\ AloneOf(rd[l])
  BY DEF KInv, Rest, Reading, Alone
<1>7. ReadingOf(l, z)
  BY <1>2, <1>3, <1>4, <1>5, <1>6 DEF ReadingOf
<1>8. AloneOf(z)
  <2>1. rd[l].now \in Int /\ rd[l].count \in Int
    BY <1>2 DEF ReaderStates
  <2> QED BY <1>2, <1>4, <1>5, <1>6, <2>1 DEF AloneOf, ReadingOf
<1>9. l \in Telnet => \A m : Pending(l, m) => z.pc = "show"
  <2> SUFFICES ASSUME l \in Telnet, NEW m, Pending(l, m) PROVE z.pc = "show"
    OBVIOUS
  <2>1. h \in Heads /\ h.to = l
    BY <1>2, <1>3, <1>6 DEF Pending, ReadingOf
  <2>2. h # NoHead
    BY <2>1 DEF Heads, Numbers, NoHead
  <2>3. mine
    BY <2>1, <2>2 DEF IsMine
  <2> QED BY <1>4, <1>5, <2>3
<1>10. /\ flag' \in [Logins -> BOOLEAN] /\ msg_count' \in [Telnet -> Nat] /\ asks' \in Nat
       /\ shown' \subseteq Logins \X Nat \X Nat /\ shown' = shown /\ TextMatches'
       /\ alive' = alive
  BY <1>2 DEF KInv, Rest, Types, Texts, TextMatches, ghosts
<1> QED BY <1>1, <1>2, <1>4, <1>5, <1>7, <1>8, <1>9, <1>10, ReaderStepInv DEF ghosts, z

\* The text is read at the place the head gives and shown: it is the text of that message.
LEMMA ShowInv ==
  ASSUME NEW K, KInv(K), NEW l \in Logins, Show(l)
  PROVE  KInv(K)'
<1> DEFINE h == IF l \in Telnet THEN Loaded(l) ELSE rd[l].head
           text == IF h.pos < get_msgcount("msgcontent") THEN Recs("msgcontent")[h.pos + 1] ELSE 0
           z == [rd[l] EXCEPT !.pc = "fail"]
<1>1. /\ rd[l].pc = "show" /\ rd[l] \in ReaderStates /\ rd \in [Logins -> ReaderStates]
      /\ UNCHANGED <<name, disk, alive, flag, msg_count, sd, mail, sent, asks, own,
                   took, again, overlap, disposed, raced, unsig>>
  BY DEF Show, KInv, Types
<1>2. ReadingOf(l, rd[l]) /\ AloneOf(rd[l])
  BY DEF KInv, Rest, Reading, Alone
<1>3. /\ flag' \in [Logins -> BOOLEAN] /\ msg_count' \in [Telnet -> Nat] /\ asks' \in Nat
      /\ alive' = alive /\ shown \subseteq Logins \X Nat \X Nat /\ TextMatches
  BY <1>1 DEF KInv, Rest, Types, Texts
<1>4. CASE l \in Web /\ name["msgcontent"] = 0
  <2>1. rd' = [rd EXCEPT ![l] = z] /\ shown' = shown
    BY <1>1, <1>4 DEF Show, ReaderStates
  <2>2. /\ z \in ReaderStates /\ z.pc = "fail" /\ z.count = rd[l].count /\ z.now = rd[l].now
        /\ z.cleared = rd[l].cleared /\ z.other = rd[l].other
    BY <1>1 DEF ReaderStates
  <2> HIDE DEF z
  <2>3. ReadingOf(l, z) /\ AloneOf(z)
    BY <1>1, <1>2, <2>2 DEF ReadingOf, AloneOf
  <2>4. l \notin Telnet
    BY <1>4, MsgAssumption
  <2>5. TextMatches'
    BY <1>1, <1>3, <2>1 DEF TextMatches
  <2> QED BY <1>1, <1>3, <2>1, <2>2, <2>3, <2>4, <2>5, ReaderStepInv
<1>5. CASE ~(l \in Web /\ name["msgcontent"] = 0)
  <2>1. /\ rd' = [rd EXCEPT ![l] = IdleReader]
        /\ shown' = IF rd[l].cleared THEN shown ELSE shown \cup {<<l, h.m, text>>}
    BY <1>5 DEF Show
  <2>2. h \in Heads \cup {NoHead} /\ h.m \in Nat /\ h.pos \in Nat
    <3>1. h \in Heads \cup {NoHead}
      BY <1>1, LoadedFacts DEF ReaderStates
    <3> HIDE DEF h
    <3> QED BY <3>1 DEF Heads, Numbers, NoHead
  <2>3. ~rd[l].cleared => /\ name["msgindex2"] # 0 /\ rd[l].now >= 0 /\ rd[l].now < Len(Index2.recs)
                          /\ h = Index2.recs[rd[l].now + 1] /\ h \in Heads
    <3> SUFFICES ASSUME ~rd[l].cleared
                 PROVE  /\ name["msgindex2"] # 0 /\ rd[l].now >= 0 /\ rd[l].now < Len(Index2.recs)
                        /\ h = Index2.recs[rd[l].now + 1] /\ h \in Heads
      OBVIOUS
    <3>1. name["msgindex2"] # 0 /\ rd[l].now >= 0 /\ rd[l].now < Len(Index2.recs)
      BY <1>1, <1>2 DEF ReadingOf
    <3>2. Loaded(l) = Index2.recs[rd[l].now + 1] /\ Loaded(l) \in Heads
      BY <3>1, LoadedFacts
    <3>3. l \in Web => rd[l].head = Index2.recs[rd[l].now + 1]
      BY <1>1, <1>2 DEF ReadingOf
    <3> QED BY <3>1, <3>2, <3>3 DEF Logins
  <2> HIDE DEF h
  <2>4. text \in Nat
    <3>1. CASE h.pos < get_msgcount("msgcontent") /\ name["msgcontent"] # 0
      <4> DEFINE i == name["msgcontent"]
      <4>1. i \in 1..Len(disk) /\ K[i] = "msgcontent"
        BY <3>1 DEF Types, Files, KInv, Kinds, DiskKinds
      <4>2. Len(disk[i].recs) \in Nat /\ \A k \in 1..Len(disk[i].recs) : disk[i].recs[k] \in Nat
        BY <4>1, RecordAt DEF KInv, Kinds
      <4>3. text = disk[i].recs[h.pos + 1] /\ h.pos < Len(disk[i].recs)
        BY <3>1 DEF get_msgcount, Recs
      <4> QED BY <2>2, <4>2, <4>3
    <3>2. CASE h.pos < get_msgcount("msgcontent") /\ name["msgcontent"] = 0
      BY <2>2, <3>2 DEF get_msgcount, Recs
    <3>3. CASE ~(h.pos < get_msgcount("msgcontent"))
      BY <3>3
    <3> QED BY <3>1, <3>2, <3>3
  <2>5. ~rd[l].cleared => h.m # 0 /\ (h.m \in raced \/ text = h.m)
    <3> SUFFICES ASSUME ~rd[l].cleared PROVE h.m # 0 /\ (h.m \in raced \/ text = h.m)
      OBVIOUS
    <3>1. h.m # 0
      BY <2>3 DEF Heads, Numbers
    <3>2. HeadText(h)
      <4>1. name["msgindex2"] \in 1..Len(disk) /\ K[name["msgindex2"]] = "msgindex2"
        BY <2>3 DEF Types, Files, KInv, Kinds, DiskKinds
      <4>2. Len(Index2.recs) \in Nat
        BY <4>1, RecordAt DEF KInv, Kinds, Index2
      <4>3. rd[l].now + 1 \in 1..Len(Index2.recs)
        BY <1>1, <2>3, <4>2 DEF ReaderStates
      <4> QED BY <2>3, <4>3 DEF KInv, Rest, Texts, Index2
    <3>3. Text(h.m, h.pos) => text = h.m
      BY DEF Text, get_msgcount, Recs
    <3> QED BY <3>1, <3>2, <3>3 DEF HeadText
  <2>6. shown' \subseteq Logins \X Nat \X Nat /\ shown \subseteq shown'
    BY <1>3, <2>1, <2>2, <2>4
  <2>7. TextMatches'
    <3>1. \A x \in shown' : x \in shown \/ (~rd[l].cleared /\ x[2] = h.m /\ x[3] = text)
      BY <2>1
    <3> QED BY <1>1, <1>3, <2>5, <3>1 DEF TextMatches
  <2>8. mail.runs = 0 /\ l \in Telnet => \A m : Pending(l, m) => IsShown(l, m)'
    <3> SUFFICES ASSUME mail.runs = 0, l \in Telnet, NEW m, Pending(l, m) PROVE IsShown(l, m)'
      OBVIOUS
    <3>1. ~rd[l].cleared
      BY DEF KInv, Rest, Taking
    <3>2. h.m = m
      BY <2>3, <3>1 DEF Pending
    <3>3. <<l, h.m, text>> \in shown'
      BY <2>1, <3>1
    <3> QED BY <3>2, <3>3 DEF IsShown
  <2> QED BY <1>1, <1>3, <2>1, <2>6, <2>7, <2>8, ReaderStepInv, IdleReaderFacts
<1> QED BY <1>4, <1>5

\* A login stops reading or leaves: what it had taken counts no more.
LEMMA EndReadingInv ==
  ASSUME NEW K, KInv(K), NEW l \in Logins, Unflag(l) \/ Leave(l)
  PROVE  KInv(K)'
<1>1. /\ rd' = [rd EXCEPT ![l] = IdleReader] /\ alive' \subseteq alive
      /\ UNCHANGED <<name, disk, sd, mail, sent, asks, own, took, again, overlap, shown, disposed, raced>>
  BY DEF Unflag, Leave
<1>2. flag' \in [Logins -> BOOLEAN] /\ msg_count' \in [Telnet -> Nat] /\ asks' \in Nat
  <2>1. flag \in [Logins -> BOOLEAN] /\ msg_count \in [Telnet -> Nat] /\ asks \in Nat
    BY DEF KInv, Types
  <2>2. /\ flag' = [flag EXCEPT ![l] = FALSE]
        /\ msg_count' = msg_count \/ msg_count' = [msg_count EXCEPT ![l] = 0]
    BY DEF Unflag, Leave
  <2> QED BY <1>1, <2>1, <2>2
<1>3. l \in alive' => \A m : ~Pending(l, m)
  BY DEF Unflag, Leave, Pending
<1>4. shown' \subseteq Logins \X Nat \X Nat /\ shown \subseteq shown' /\ TextMatches'
  BY <1>1 DEF KInv, Rest, Types, Texts, TextMatches
<1> QED BY <1>1, <1>2, <1>3, <1>4, ReaderStepInv, IdleReaderFacts

-----------------------------------------------------------------------------
(* mail_msg. *)

\* mail_msg begins: every sender under way from now on may lose its files.
LEMMA MailMsgInv ==
  ASSUME NEW K, KInv(K), MailMsg
  PROVE  KInv(K)'
<1> USE DEF KInv, Rest
<1>1. /\ UNCHANGED <<name, disk, alive, flag, msg_count, sd, rd, sent, asks, own,
                   took, again, overlap, shown, unsig>>
      /\ mail' = [pc |-> "msgindex", runs |-> mail.runs + 1]
      /\ raced' = raced \cup InProgress
      /\ disposed' = disposed \cup {Recs("msgindex")[i].m : i \in 1..get_msgcount("msgindex")}
  BY DEF MailMsg
<1>2. mail.runs \in Nat /\ mail'.pc = "msgindex" /\ mail'.runs = mail.runs + 1
  BY <1>1 DEF Types
<1>3. Types'
  <2>1. InProgress \subseteq 0..sent
    BY DEF InProgress, Types, SenderStates
  <2> QED BY <1>1, <1>2, <2>1 DEF Types, Files
<1>4. Kinds(K)' /\ Once(K)' /\ Pointers(K)' /\ Alone'
  BY <1>1, FrameKinds, FrameOnce, FramePointers, FrameAlone
<1>5. Reading'
  <2>1. rd \in [Logins -> ReaderStates] /\ sent \in Nat /\ sent' \in Nat /\ sent <= sent'
    BY <1>1 DEF Types
  <2> QED BY <1>1, <2>1, FrameReading
<1>6. Apart'
  <2>1. InProgress' = InProgress
    BY <1>1 DEF InProgress
  <2>2. ASSUME NEW s \in Senders PROVE ApartOf(sd[s])'
    <3>1. sd[s].pc = "search" => sd[s].m \notin InProgress
      BY DEF Once, InProgress, Unsaved, Saving
    <3> QED BY <1>1, <3>1 DEF Apart, ApartOf, InFile, get_msgcount, Recs
  <2> QED BY <1>1, <2>1, <2>2 DEF Apart
<1>7. Texts'
  <2>1. \A m, pos : Text(m, pos) => Text(m, pos)'
    BY <1>1 DEF Text
  <2>2. \A h : HeadText(h) => HeadText(h)'
    BY <1>1, <1>2, <2>1 DEF HeadText
  <2>3. \A s \in Senders : SenderText(sd[s])'
    BY <1>1, <2>1 DEF Texts, SenderText
  <2> QED BY <1>1, <2>2, <2>3 DEF Texts, TextMatches
<1>8. Kept'
  <2>1. Accepted' = Accepted
    BY <1>1 DEF Accepted, ToNotify
  <2>2. \A m, f : InFile(m, f)' <=> InFile(m, f)
    BY <1>1 DEF InFile, get_msgcount, Recs
  <2>3. \A m \in Accepted \ (raced \cup disposed) : m \in disposed'
    BY <1>1 DEF Kept, AcceptedKept, InFile
  <2> QED BY <1>1, <2>1, <2>2, <2>3 DEF Kept, AcceptedKept
<1>9. Taking'
  BY <1>2 DEF Taking
<1>10. Limit'
  <2>1. UnderWay' = UnderWay
    BY <1>1 DEF UnderWay
  <2> QED BY <1>1, <2>1, FrameLimit
<1> QED BY <1>3, <1>4, <1>5, <1>6, <1>7, <1>8, <1>9, <1>10

\* mail_msg ends before it is through; what it has removed is gone.
LEMMA AbortInv ==
  ASSUME NEW K, KInv(K), Abort
  PROVE  KInv(K)'
<1> USE DEF KInv, Rest
<1>1. /\ UNCHANGED <<name, disk, alive, flag, msg_count, sd, rd, sent, asks, own,
                   took, again, overlap, shown, disposed, raced, unsig>>
      /\ mail' = [pc |-> "idle", runs |-> mail.runs + 1]
  BY DEF Abort, ghosts
<1>2. mail.runs \in Nat /\ mail'.pc = "idle" /\ mail'.runs = mail.runs + 1
  BY <1>1 DEF Types
<1>3. Types'
  BY <1>1, <1>2 DEF Types
<1>4. Kinds(K)' /\ Once(K)' /\ Pointers(K)' /\ Alone'
  BY <1>1, FrameKinds, FrameOnce, FramePointers, FrameAlone
<1>5. Reading'
  <2>1. rd \in [Logins -> ReaderStates] /\ sent \in Nat /\ sent' \in Nat /\ sent <= sent'
    BY <1>1 DEF Types
  <2> QED BY <1>1, <2>1, FrameReading
<1>6. Apart'
  <2>1. InProgress' = InProgress
    BY <1>1 DEF InProgress
  <2>2. ASSUME NEW s \in Senders PROVE ApartOf(sd[s])'
    BY <1>1 DEF Apart, ApartOf, InFile, get_msgcount, Recs
  <2> QED BY <1>1, <1>2, <2>1, <2>2 DEF Apart
<1>7. Texts'
  <2>1. \A m, pos : Text(m, pos) => Text(m, pos)'
    BY <1>1 DEF Text
  <2>2. \A h : HeadText(h) => HeadText(h)'
    BY <1>1, <1>2, <2>1 DEF HeadText
  <2>3. \A s \in Senders : SenderText(sd[s])'
    BY <1>1, <2>1 DEF Texts, SenderText
  <2> QED BY <1>1, <2>2, <2>3 DEF Texts, TextMatches
<1>8. Kept'
  <2>1. Accepted' = Accepted
    BY <1>1 DEF Accepted, ToNotify
  <2>2. \A m, f : InFile(m, f)' <=> InFile(m, f)
    BY <1>1 DEF InFile, get_msgcount, Recs
  <2> QED BY <1>1, <1>2, <2>1, <2>2 DEF Kept, AcceptedKept
<1>9. Taking'
  BY <1>2 DEF Taking
<1>10. Limit'
  <2>1. UnderWay' = UnderWay
    BY <1>1 DEF UnderWay
  <2> QED BY <1>1, <2>1, FrameLimit
<1> QED BY <1>3, <1>4, <1>5, <1>6, <1>7, <1>8, <1>9, <1>10

\* mail_msg removes a file; processes that have it open keep the old inode.
LEMMA UnlinkInv ==
  ASSUME NEW K, KInv(K), Unlink
  PROVE  KInv(K)'
<1> USE DEF KInv, Rest
<1> DEFINE f == mail.pc
<1>1. /\ UNCHANGED <<disk, alive, flag, msg_count, sd, sent, asks, own, ghosts>>
      /\ name' = [name EXCEPT ![f] = 0]
      /\ mail' = [mail EXCEPT !.pc = NextFile[mail.pc]]
      /\ rd' = [l \in Logins |-> [rd[l] EXCEPT !.other = rd[l].pc # "idle",
                                               !.cleared = rd[l].pc # "idle"]]
      /\ f # "idle"
  BY DEF Unlink
<1>2. f \in Files /\ mail.runs \in Nat /\ mail'.runs = mail.runs
      /\ mail' \in [pc : Files \cup {"idle"}, runs : Nat]
      /\ (mail'.pc = "msgcontent" => f = "msgindex2")
  <2>1. mail \in [pc : Files \cup {"idle"}, runs : Nat]
    BY DEF Types
  <2>2. f \in Files
    BY <1>1, <2>1
  <2>3. NextFile[f] \in Files \cup {"idle"} /\ (NextFile[f] = "msgcontent" => f = "msgindex2")
    BY <2>2 DEF NextFile, Files
  <2> QED BY <1>1, <2>1, <2>2, <2>3
<1>3. name \in [Files -> 0..Len(disk)] /\ name'[f] = 0 /\ \A g \in Files : g # f => name'[g] = name[g]
  BY <1>1, <1>2 DEF Types
<1>4. /\ rd' \in [Logins -> ReaderStates]
      /\ \A l \in Logins : /\ rd'[l].pc = rd[l].pc /\ rd'[l].count = rd[l].count
                           /\ rd'[l].now = rd[l].now /\ rd'[l].fd = rd[l].fd
                           /\ rd[l].pc # "idle" => rd'[l].other /\ rd'[l].cleared
  <2> SUFFICES ASSUME NEW l \in Logins
               PROVE  /\ rd'[l] \in ReaderStates
                      /\ rd'[l].pc = rd[l].pc /\ rd'[l].count = rd[l].count
                      /\ rd'[l].now = rd[l].now /\ rd'[l].fd = rd[l].fd
                      /\ rd[l].pc # "idle" => rd'[l].other /\ rd'[l].cleared
    BY <1>1
  <2>1. rd[l] \in ReaderStates
    BY DEF Types
  <2>2. rd'[l] = [rd[l] EXCEPT !.other = rd[l].pc # "idle", !.cleared = rd[l].pc # "idle"]
    BY <1>1
  <2> QED BY <2>1, <2>2 DEF ReaderStates
<1> HIDE DEF f
<1>5. Types'
  <2>1. name' \in [Files -> 0..Len(disk)]
    <3>1. 0 \in 0..Len(disk)
      <4>1. disk \in Seq(Inodes)
        BY DEF Types
      <4> QED BY <4>1, LenProperties
    <3> QED BY <1>1, <1>2, <1>3, <3>1
  <2> QED BY <1>1, <1>2, <1>4, <2>1 DEF Types, ghosts
<1>6. Kinds(K)'
  <2>1. DiskKinds(K)'
    BY <1>1, <1>3 DEF Kinds, DiskKinds, ghosts
  <2>2. (\A s \in Senders : SenderKinds(K, sd[s])') /\ \A l \in Logins : ReaderKinds(K, rd[l])'
    BY <1>1, <1>4, ZenonT(40) DEF Kinds, SenderKinds, ReaderKinds
  <2> QED BY <2>1, <2>2 DEF Kinds
<1>7. Once(K)'
  BY <1>1, FrameOnce
<1>8. Pointers(K)'
  <2>1. UNCHANGED <<disk, took, overlap, again>>
    BY <1>1 DEF ghosts
  <2>2. \A i \in 1..Len(disk) : (disk[i].first <= Len(disk[i].recs))'
          /\ \A k \in 1..disk[i].first : IsTaken(disk[i].recs[k].m)'
    BY <2>1 DEF Pointers, IsTaken
  <2>3. \A l \in Logins : PointersOf(rd[l])'
    BY <1>4, <2>1 DEF Pointers, PointersOf, IsTaken
  <2>4. ~overlap =>
         /\ ~again
         /\ \A l \in Logins : rd'[l].pc = "bump" => disk[rd'[l].fd].first = rd'[l].now
         /\ \A l, k \in Logins :
              rd'[l].pc = "bump" /\ rd'[k].pc = "bump" /\ rd'[l].fd = rd'[k].fd => l = k
         /\ \A x \in took : \E i \in 1..Len(disk) :
              K[i] = "msgindex2" /\ \E k \in 1..disk[i].first : disk[i].recs[k].m = x[1]
    BY <1>4 DEF Pointers
  <2> QED BY <2>1, <2>2, <2>3, <2>4 DEF Pointers
<1>9. InProgress \subseteq raced
  BY <1>1 DEF Apart, f
<1>10. Apart'
  <2>1. InProgress' = InProgress
    BY <1>1 DEF InProgress
  <2>2. ASSUME NEW s \in Senders PROVE ApartOf(sd[s])'
    <3>1. sd[s].m \notin raced => sd[s].pc \notin Saving
      BY <1>9 DEF InProgress
    <3>2. ApartOf(sd[s])
      BY DEF Apart
    <3>3. sd' = sd /\ disk' = disk /\ raced' = raced
      BY <1>1 DEF ghosts
    <3> QED BY <3>1, <3>2, <3>3 DEF ApartOf, Saving
  <2>3. sd' = sd /\ raced' = raced
    BY <1>1 DEF ghosts
  <2> QED BY <1>9, <2>1, <2>2, <2>3 DEF Apart
<1>11. Texts'
  <2>1. sd' = sd /\ raced' = raced /\ disk' = disk /\ shown' = shown
    BY <1>1 DEF ghosts
  <2>2. \A s \in Senders : SenderText(sd[s])'
    <3>1. \A s \in Senders : sd[s].pc \in {"open2", "append2"} => sd[s].m \in raced
      BY <1>9 DEF InProgress, Saving
    <3> QED BY <2>1, <3>1 DEF SenderText
  <2>3. ASSUME name'["msgindex2"] # 0, NEW k \in 1..Len(disk[name["msgindex2"]].recs)
        PROVE  HeadText(disk[name["msgindex2"]].recs[k])' /\ name'["msgindex2"] = name["msgindex2"]
    <3>1. f # "msgindex2" /\ name'["msgindex2"] = name["msgindex2"]
      BY <1>3, <2>3 DEF Files
    <3> DEFINE h == disk[name["msgindex2"]].recs[k]
    <3>2. HeadText(h)
      BY <2>3, <3>1 DEF Texts
    <3>3. CASE f = "msgcontent"
      <4>1. h.m \in raced
        BY <3>2, <3>3 DEF HeadText, f
      <4> QED BY <2>1, <3>1, <4>1 DEF HeadText
    <3>4. CASE f = "msgindex"
      <4>1. name'["msgcontent"] = name["msgcontent"]
        BY <1>3, <3>4 DEF Files
      <4>2. Text(h.m, h.pos) => Text(h.m, h.pos)'
        BY <2>1, <3>1, <4>1 DEF Text
      <4> QED BY <1>2, <2>1, <3>1, <3>2, <3>4, <4>2 DEF HeadText
    <3> QED BY <1>2, <3>1, <3>3, <3>4 DEF Files
  <2>4. TextMatches'
    BY <2>1 DEF Texts, TextMatches
  <2>5. name'["msgindex2"] # 0 =>
          \A k \in 1..Len(disk'[name'["msgindex2"]].recs) :
             HeadText(disk[name["msgindex2"]].recs[k])'
    <3> SUFFICES ASSUME name'["msgindex2"] # 0, NEW k \in 1..Len(disk'[name'["msgindex2"]].recs)
                 PROVE  HeadText(disk[name["msgindex2"]].recs[k])'
      OBVIOUS
    <3>1. name'["msgindex2"] = name["msgindex2"]
      BY <1>3 DEF Files
    <3>2. k \in 1..Len(disk[name["msgindex2"]].recs)
      BY <2>1, <3>1
    <3> QED BY <2>3, <3>2
  <2> QED BY <2>2, <2>4, <2>5 DEF Texts
<1>12. Reading' /\ Alone'
  <2>1. sent' = sent
    BY <1>1
  <2>2. \A l \in Logins : ReadingOf(l, rd[l])'
    BY <1>4, <2>1 DEF Reading, ReadingOf
  <2>3. \A l \in Logins : AloneOf(rd[l])'
    BY <1>4 DEF Alone, AloneOf
  <2> QED BY <2>2, <2>3 DEF Reading, Alone
<1>13. Kept'
  <2>1. Accepted' = Accepted /\ raced' = raced /\ disposed' = disposed
    BY <1>1 DEF Accepted, ToNotify, ghosts
  <2>2. Accepted \subseteq raced \cup disposed
    BY <1>1 DEF Kept, f
  <2> QED BY <2>1, <2>2 DEF Kept, AcceptedKept
<1>14. Taking'
  BY <1>1, <1>2 DEF Taking, f
<1>15. Limit'
  <2>1. UnderWay' = UnderWay /\ overlap' = overlap
    BY <1>1 DEF UnderWay, ghosts
  <2>2. CASE name'["msgindex2"] = name["msgindex2"]
    <3>1. UnreadLimited' = UnreadLimited
      BY <1>1, <2>2 DEF UnreadLimited, Limited, Recs
    <3> QED BY <2>1, <3>1 DEF Limit
  <2>3. CASE name'["msgindex2"] = 0
    <3>1. UnreadLimited' = {}
      BY <2>3 DEF UnreadLimited
    <3>2. Cardinality(UnderWay) \in Nat /\ Cardinality(UnderWay) <= Cardinality(Senders)
      <4>1. UnderWay \in SUBSET Senders
        BY DEF UnderWay
      <4> QED BY <4>1, Finite
    <3>3. Cardinality(UnreadLimited') = 0 /\ MAXMESSAGE \in Nat /\ Cardinality(Senders) \in Nat
      BY <3>1, FS_EmptySet, MsgAssumption, Finite
    <3> QED BY <2>1, <3>2, <3>3 DEF Limit
  <2> QED BY <1>2, <1>3, <2>2, <2>3 DEF Files
<1> QED BY <1>5, <1>6, <1>7, <1>8, <1>10, <1>11, <1>12, <1>13, <1>14, <1>15

-----------------------------------------------------------------------------
(* open(O_CREAT): the file may be a new, empty inode. *)

\* The effect of Creat(f); KK tells the kinds of the inodes then.
Created(f, K, KK) ==
    /\ name' \in [Files -> 0..Len(disk')] /\ disk' \in Seq(Inodes)
    /\ Len(disk) \in Nat /\ Len(disk') \in Nat /\ 1..Len(disk) \subseteq 1..Len(disk')
    /\ KK \in [1..Len(disk') -> Files]
    /\ \A i \in 1..Len(disk) : disk'[i] = disk[i] /\ KK[i] = K[i]
    /\ \A i \in 1..Len(disk') : i \notin 1..Len(disk) =>
         /\ KK[i] = f /\ disk'[i].first = 0 /\ Len(disk'[i].recs) = 0
         /\ disk'[i].recs \in Seq(Heads) /\ disk'[i].recs \in Seq(Nat)
    /\ name'[f] \in 1..Len(disk') /\ KK[name'[f]] = f
    /\ \A g \in Files : g # f => name'[g] = name[g]
    /\ name[f] # 0 => name'[f] = name[f]
    /\ name[f] = 0 => name'[f] \notin 1..Len(disk)

\* open(O_CREAT) opens the file that has the name, or a new one that is empty.
LEMMA CreatFacts ==
  ASSUME NEW K, Types, DiskKinds(K), NEW f \in Files, Creat(f)
  PROVE  (\E KK : Created(f, K, KK)) /\ name'[f] = Inode(f)
<1> DEFINE n == Len(disk)
           KK == [j \in 1..Len(disk') |-> IF j \in 1..n THEN K[j] ELSE f]
<1>1. /\ name \in [Files -> 0..n] /\ disk \in Seq(Inodes) /\ n \in Nat
      /\ K \in [1..n -> Files] /\ name[f] \in 0..n
  BY LenProperties DEF Types, DiskKinds
<1>2. name' = [name EXCEPT ![f] = Inode(f)] /\ name'[f] = Inode(f)
      /\ \A g \in Files : g # f => name'[g] = name[g]
  BY <1>1 DEF Creat
<1>3. Empty \in Inodes /\ Empty.first = 0 /\ Len(Empty.recs) = 0
      /\ Empty.recs \in Seq(Heads) /\ Empty.recs \in Seq(Nat)
  <2>1. <<>> \in Seq(Heads) /\ <<>> \in Seq(Nat) /\ Len(<<>>) = 0
    BY EmptySeq
  <2> QED BY <2>1 DEF Empty, Inodes
<1> HIDE DEF n, KK
<1>4. CASE name[f] # 0
  <2>1. disk' = disk /\ Inode(f) = name[f]
    BY <1>4 DEF Creat, Inode
  <2>2. KK = [j \in 1..n |-> K[j]]
    BY <2>1 DEF KK, n
  <2>3. KK = K
    BY <1>1, <2>2
  <2>4. K[name[f]] = f
    BY <1>4 DEF DiskKinds
  <2>5. Created(f, K, KK)
    BY <1>1, <1>2, <1>4, <2>1, <2>3, <2>4 DEF Created, n
  <2> QED BY <1>2, <2>5
<1>5. CASE name[f] = 0
  <2>1. disk' = Append(disk, Empty) /\ Inode(f) = n + 1
    BY <1>5 DEF Creat, Inode, n
  <2>2. /\ disk' \in Seq(Inodes) /\ Len(disk') = n + 1 /\ disk'[n + 1] = Empty
        /\ \A i \in 1..n : disk'[i] = disk[i]
    BY <1>1, <1>3, <2>1, AppendProperties DEF n
  <2>3. KK \in [1..n + 1 -> Files] /\ KK[n + 1] = f /\ \A i \in 1..n : KK[i] = K[i]
    BY <1>1, <2>2 DEF KK
  <2>4. \A i \in 1..n + 1 : i \notin 1..n => i = n + 1
    BY <1>1
  <2>5. 1..n \subseteq 1..n + 1 /\ n + 1 \in 1..n + 1 /\ n + 1 \notin 1..n
    BY <1>1
  <2>6. name' \in [Files -> 0..n + 1]
    BY <1>1, <1>2, <2>1
  <2>7. n + 1 \in Nat
    BY <1>1
  <2> HIDE DEF KK
  <2>8. Created(f, K, KK)
    BY <1>1, <1>2, <1>3, <1>5, <2>1, <2>2, <2>3, <2>4, <2>5, <2>6, <2>7 DEF Created, n
  <2> QED BY <1>2, <2>8
<1> QED BY <1>4, <1>5

\* An inode keeps what it was opened as when a file is created.
LEMMA CreatKinds ==
  ASSUME NEW K, NEW KK, NEW f \in Files, Created(f, K, KK), Types, DiskKinds(K)
  PROVE  /\ DiskKinds(KK)'
         /\ \A x : SenderKinds(K, x) => SenderKinds(KK, x)'
         /\ \A x : ReaderKinds(K, x) => ReaderKinds(KK, x)'
<1>1. \A i \in 1..Len(disk') :
         /\ KK[i] = "msgcontent" => disk'[i].recs \in Seq(Nat)
         /\ KK[i] # "msgcontent" => disk'[i].recs \in Seq(Heads)
         /\ KK[i] # "msgindex2" => disk'[i].first = 0
  <2> SUFFICES ASSUME NEW i \in 1..Len(disk')
               PROVE  /\ KK[i] = "msgcontent" => disk'[i].recs \in Seq(Nat)
                      /\ KK[i] # "msgcontent" => disk'[i].recs \in Seq(Heads)
                      /\ KK[i] # "msgindex2" => disk'[i].first = 0
    OBVIOUS
  <2> QED BY DEF Created, DiskKinds
<1>2. \A g \in Files : name'[g] # 0 => KK[name'[g]] = g
  <2> SUFFICES ASSUME NEW g \in Files, name'[g] # 0 PROVE KK[name'[g]] = g
    OBVIOUS
  <2>1. CASE g = f
    BY <2>1 DEF Created
  <2>2. CASE g # f
    <3>1. name'[g] = name[g] /\ K[name[g]] = g /\ name'[g] \in Nat
      BY <2>2 DEF Created, DiskKinds
    <3>2. name[g] \in 1..Len(disk)
      <4>1. name[g] \in 0..Len(disk) /\ Len(disk) \in Nat /\ name[g] # 0
        BY <2>2, <3>1 DEF Created, Types
      <4> QED BY <4>1
    <3> QED BY <3>1, <3>2 DEF Created
  <2> QED BY <2>1, <2>2
<1>3. DiskKinds(KK)'
  <2>1. KK \in [1..Len(disk') -> Files]
    BY DEF Created
  <2> QED BY <1>1, <1>2, <2>1 DEF DiskKinds
<1>4. \A x : SenderKinds(K, x) => SenderKinds(KK, x)'
  BY DEF Created, SenderKinds
<1>5. \A x : ReaderKinds(K, x) => ReaderKinds(KK, x)'
  BY DEF Created, ReaderKinds
<1> QED BY <1>3, <1>4, <1>5

\* A file created is empty, so nothing is listed twice by it.
LEMMA CreatOnce ==
  ASSUME NEW K, NEW KK, NEW f \in Files, Created(f, K, KK), Listed(K), sent' = sent
  PROVE  Listed(KK)' /\ \A m : NotListed(K, m) => NotListed(KK, m)'
<1>1. \A i \in 1..Len(disk') : \A k \in 1..Len(disk'[i].recs) :
        i \in 1..Len(disk) /\ disk'[i] = disk[i] /\ KK[i] = K[i]
  BY DEF Created
<1>2. Listed(KK)'
  <2>1. \A i \in 1..Len(disk') : KK[i] = "msgindex2" =>
          \A k \in 1..Len(disk'[i].recs) : disk'[i].recs[k].m <= sent'
    BY <1>1 DEF Listed
  <2>2. ASSUME NEW i \in 1..Len(disk'), NEW j \in 1..Len(disk'),
               KK[i] = "msgindex2", KK[j] = "msgindex2",
               NEW k \in 1..Len(disk'[i].recs), NEW n \in 1..Len(disk'[j].recs),
               disk'[i].recs[k].m = disk'[j].recs[n].m
        PROVE  i = j /\ k = n
    <3>1. /\ i \in 1..Len(disk) /\ disk'[i] = disk[i] /\ K[i] = "msgindex2"
          /\ j \in 1..Len(disk) /\ disk'[j] = disk[j] /\ K[j] = "msgindex2"
      BY <1>1, <2>2
    <3>2. /\ k \in 1..Len(disk[i].recs) /\ n \in 1..Len(disk[j].recs)
          /\ disk[i].recs[k].m = disk[j].recs[n].m
      BY <2>2, <3>1
    <3> QED BY <3>1, <3>2 DEF Listed
  <2> QED BY <2>1, <2>2 DEF Listed
<1>3. \A m : NotListed(K, m) => NotListed(KK, m)'
  BY <1>1 DEF NotListed
<1> QED BY <1>2, <1>3

\* ... its pointer is 0, at its end ...
LEMMA CreatPointers ==
  ASSUME NEW K, NEW KK, NEW f \in Files, Created(f, K, KK), Pointers(K), Kinds(K),
         UNCHANGED <<took, again>>,
         \A l \in Logins : rd'[l].pc = "bump" => rd[l].pc = "bump" /\ rd'[l].fd = rd[l].fd
                                                 /\ rd'[l].now = rd[l].now,
         overlap' = overlap
  PROVE  Pointers(KK)'
<1>1. \A i \in 1..Len(disk') :
        \/ i \in 1..Len(disk) /\ disk'[i] = disk[i] /\ KK[i] = K[i]
        \/ disk'[i].first = 0 /\ Len(disk'[i].recs) = 0
  BY DEF Created
<1>2. \A m : IsTaken(m) => IsTaken(m)'
  BY DEF IsTaken
<1>3. ASSUME NEW i \in 1..Len(disk')
      PROVE  (disk[i].first <= Len(disk[i].recs))' /\ \A k \in 1..disk'[i].first : IsTaken(disk[i].recs[k].m)'
  <2>1. CASE i \in 1..Len(disk) /\ disk'[i] = disk[i]
    <3>1. disk[i].first <= Len(disk[i].recs) /\ \A k \in 1..disk[i].first : IsTaken(disk[i].recs[k].m)
      BY <2>1 DEF Pointers
    <3> QED BY <1>2, <2>1, <3>1 DEF IsTaken
  <2>2. CASE disk'[i].first = 0 /\ Len(disk'[i].recs) = 0
    BY <2>2
  <2> QED BY <1>1, <2>1, <2>2
<1>4. ASSUME NEW l \in Logins, rd'[l].pc = "bump"
      PROVE  /\ rd[l].pc = "bump" /\ rd'[l].fd = rd[l].fd /\ rd'[l].now = rd[l].now
             /\ disk'[rd[l].fd] = disk[rd[l].fd]
  <2>1. rd[l].fd \in 1..Len(disk)
    BY <1>4 DEF Kinds, ReaderKinds
  <2> QED BY <1>4, <2>1 DEF Created
<1>5. \A l \in Logins : PointersOf(rd[l])'
  BY <1>2, <1>4 DEF Pointers, PointersOf, IsTaken
<1>6. ~overlap =>
         /\ ~again
         /\ \A l \in Logins : rd'[l].pc = "bump" => disk'[rd'[l].fd].first = rd'[l].now
         /\ \A l, k \in Logins :
              rd'[l].pc = "bump" /\ rd'[k].pc = "bump" /\ rd'[l].fd = rd'[k].fd => l = k
  BY <1>4 DEF Pointers
<1>7. ~overlap => \A x \in took' : \E i \in 1..Len(disk') :
              KK[i] = "msgindex2" /\ \E k \in 1..disk'[i].first : disk'[i].recs[k].m = x[1]
  <2> SUFFICES ASSUME ~overlap, NEW x \in took
               PROVE  \E i \in 1..Len(disk') :
                        KK[i] = "msgindex2" /\ \E k \in 1..disk'[i].first : disk'[i].recs[k].m = x[1]
    OBVIOUS
  <2>1. PICK i \in 1..Len(disk) : K[i] = "msgindex2" /\ \E k \in 1..disk[i].first : disk[i].recs[k].m = x[1]
    BY DEF Pointers
  <2>2. i \in 1..Len(disk') /\ disk'[i] = disk[i] /\ KK[i] = K[i]
    BY DEF Created
  <2> QED BY <2>1, <2>2
<1> QED BY <1>3, <1>5, <1>6, <1>7 DEF Pointers

\* The inodes that have a name before keep it, and what is in them.
LEMMA CreatNames ==
  ASSUME NEW K, NEW KK, NEW f \in Files, Created(f, K, KK), Types
  PROVE  \A g \in Files :
           /\ name[g] # 0 => /\ name'[g] = name[g] /\ disk'[name[g]] = disk[name[g]]
                             /\ name[g] \in 1..Len(disk)
           /\ name[g] = 0 => name'[g] = 0 \/ (/\ disk'[name'[g]].first = 0
                                              /\ Len(disk'[name'[g]].recs) = 0)
<1> SUFFICES ASSUME NEW g \in Files
             PROVE  /\ name[g] # 0 => /\ name'[g] = name[g] /\ disk'[name[g]] = disk[name[g]]
                                      /\ name[g] \in 1..Len(disk)
                    /\ name[g] = 0 => name'[g] = 0 \/ (/\ disk'[name'[g]].first = 0
                                                       /\ Len(disk'[name'[g]].recs) = 0)
  OBVIOUS
<1>1. name[g] \in 0..Len(disk) /\ Len(disk) \in Nat
  BY DEF Types, Created
<1>2. CASE name[g] # 0
  <2>1. name[g] \in 1..Len(disk)
    BY <1>1, <1>2
  <2>2. name'[g] = name[g]
    BY <1>2 DEF Created
  <2> QED BY <1>2, <2>1, <2>2 DEF Created
<1>3. CASE name[g] = 0
  <2>1. CASE g = f
    <3>1. name'[f] \in 1..Len(disk') /\ name'[f] \notin 1..Len(disk)
      BY <1>3, <2>1 DEF Created
    <3> QED BY <1>3, <2>1, <3>1 DEF Created
  <2>2. CASE g # f
    BY <1>3, <2>2 DEF Created
  <2> QED BY <2>1, <2>2
<1> QED BY <1>2, <1>3

\* ... it covers no text of another file ...
LEMMA CreatTexts ==
  ASSUME NEW K, NEW KK, NEW f \in Files, Created(f, K, KK), Types, Texts,
         UNCHANGED <<mail, shown>>, raced \subseteq raced',
         \A t \in Senders : sd'[t].pc \in {"write", "text"} => sd'[t] = sd[t]
  PROVE  /\ \A x : SenderText(x) => SenderText(x)'
         /\ (\A s \in Senders : SenderText(sd[s])') => Texts'
<1>1. name["msgcontent"] # 0 => /\ name'["msgcontent"] = name["msgcontent"]
                                /\ disk'[name["msgcontent"]] = disk[name["msgcontent"]]
  BY CreatNames DEF Files
<1>2. ASSUME NEW m, NEW pos, Text(m, pos) PROVE Text(m, pos)'
  BY <1>1, <1>2 DEF Text
<1>3. ASSUME NEW h, HeadText(h) PROVE HeadText(h)'
  BY <1>2, <1>3 DEF HeadText
<1>4. \A x : SenderText(x) => SenderText(x)'
  BY <1>2 DEF SenderText
<1>5. name'["msgindex2"] # 0 =>
         \A k \in 1..Len(disk'[name'["msgindex2"]].recs) : HeadText(disk[name["msgindex2"]].recs[k])'
  <2>1. CASE name["msgindex2"] # 0
    <3>1. /\ name'["msgindex2"] = name["msgindex2"]
          /\ disk'[name["msgindex2"]] = disk[name["msgindex2"]]
      BY <2>1, CreatNames DEF Files
    <3>2. \A k \in 1..Len(disk[name["msgindex2"]].recs) : HeadText(disk[name["msgindex2"]].recs[k])
      BY <2>1 DEF Texts
    <3> QED BY <1>3, <3>1, <3>2 DEF HeadText
  <2>2. CASE name["msgindex2"] = 0
    <3>1. name'["msgindex2"] = 0 \/ Len(disk'[name'["msgindex2"]].recs) = 0
      BY <2>2, CreatNames DEF Files
    <3> QED BY <3>1
  <2> QED BY <2>1, <2>2
<1>6. TextMatches'
  BY DEF Texts, TextMatches
<1> QED BY <1>4, <1>5, <1>6 DEF Texts

\* ... no reader had counted on it ...
LEMMA CreatReading ==
  ASSUME NEW K, NEW KK, NEW f \in Files, Created(f, K, KK), Types, Kinds(K),
         rd \in [Logins -> ReaderStates], sent' = sent
  PROVE  /\ \A l \in Logins : ReadingOf(l, rd[l]) =>
              \A x : x = rd[l] => ReadingOf(l, x)'
         /\ \A l \in Logins : ReadingOf(l, rd[l]) /\ AloneOf(rd[l]) =>
              \A x : x = rd[l] => AloneOf(x)'
<1>1. name["msgindex2"] # 0 => /\ name'["msgindex2"] = name["msgindex2"]
                               /\ disk'[name["msgindex2"]] = disk[name["msgindex2"]]
  BY CreatNames DEF Files
<1>2. ASSUME NEW l \in Logins, ReadingOf(l, rd[l]), NEW x, x = rd[l]
      PROVE  ReadingOf(l, x)'
  <2>1. x \in ReaderStates /\ x.count \in Nat
    BY <1>2 DEF ReaderStates
  <2>2. x.pc = "bump" => x.fd # 0
    <3>1. x.pc = "bump" => x.fd \in 1..Len(disk)
      BY <1>2 DEF Kinds, ReaderKinds
    <3> QED BY <3>1 DEF Created
  <2>3. CASE name["msgindex2"] # 0
    BY <1>1, <1>2, <2>3 DEF ReadingOf, Index2
  <2>4. CASE name["msgindex2"] = 0
    BY <1>2, <2>1, <2>2, <2>4 DEF ReadingOf
  <2> QED BY <2>3, <2>4
<1>3. ASSUME NEW l \in Logins, ReadingOf(l, rd[l]), AloneOf(rd[l]), NEW x, x = rd[l]
      PROVE  AloneOf(x)'
  <2>1. CASE name["msgindex2"] # 0
    BY <1>1, <1>3, <2>1 DEF AloneOf, Index2
  <2>2. CASE name["msgindex2"] = 0
    BY <1>3, <2>2 DEF AloneOf, ReadingOf
  <2> QED BY <2>1, <2>2
<1> QED BY <1>2, <1>3

\* ... and no message was in it.
LEMMA CreatKept ==
  ASSUME NEW K, NEW KK, NEW f \in Files, Created(f, K, KK), Types, Kept,
         Accepted' \subseteq Accepted, UNCHANGED <<mail, disposed>>, raced \subseteq raced'
  PROVE  Kept' /\ \A m : \A g \in Files : InFile(m, g) => InFile(m, g)'
<1>1. ASSUME NEW m, NEW g \in Files, InFile(m, g) PROVE InFile(m, g)'
  <2>1. name[g] # 0
    <3>1. CASE name[g] = 0
      BY <1>1, <3>1 DEF InFile, get_msgcount, Recs
    <3> QED BY <3>1
  <2>2. name'[g] = name[g] /\ disk'[name[g]] = disk[name[g]]
    BY <2>1, CreatNames
  <2> QED BY <1>1, <2>1, <2>2 DEF InFile, get_msgcount, Recs
<1>2. AcceptedKept'
  BY <1>1 DEF Kept, AcceptedKept, Files
<1> QED BY <1>1, <1>2 DEF Kept

\* A message taken is still where it was after a file is created,
LEMMA CreatPending ==
  ASSUME NEW K, NEW KK, NEW f \in Files, Created(f, K, KK), Types,
         NEW l \in Logins, NEW m, Pending(l, m), rd'[l] = rd[l]
  PROVE  Pending(l, m)'
<1>1. name["msgindex2"] # 0 => /\ name'["msgindex2"] = name["msgindex2"]
                               /\ disk'[name["msgindex2"]] = disk[name["msgindex2"]]
  BY CreatNames DEF Files
<1> QED BY <1>1 DEF Pending, Index2

\* and no unread message has been added.
LEMMA CreatLimit ==
  ASSUME NEW K, NEW KK, NEW f \in Files, Created(f, K, KK), Types
  PROVE  UnreadLimited' = UnreadLimited
<1>1. CASE name["msgindex2"] # 0
  <2>1. /\ name'["msgindex2"] = name["msgindex2"]
        /\ disk'[name["msgindex2"]] = disk[name["msgindex2"]]
    BY <1>1, CreatNames DEF Files
  <2> QED BY <2>1 DEF UnreadLimited, Limited, Recs
<1>2. CASE name["msgindex2"] = 0
  <2>1. \/ name'["msgindex2"] = 0
        \/ disk'[name'["msgindex2"]].first = 0 /\ Len(disk'[name'["msgindex2"]].recs) = 0
    BY <1>2, CreatNames DEF Files
  <2>2. UnreadLimited' = {}
    BY <2>1 DEF UnreadLimited, Recs
  <2> QED BY <1>2, <2>2 DEF UnreadLimited
<1> QED BY <1>1, <1>2

\* A sender with open files has those that have the names, as before.
LEMMA CreatApart ==
  ASSUME NEW K, NEW KK, NEW f \in Files, Created(f, K, KK), Types, Kinds(K), raced \subseteq raced',
         NEW t \in Senders, ApartOf(sd[t]), NEW x, x = sd[t], x.pc = "search" => x.m \notin raced'
  PROVE  ApartOf(x)'
<1>1. \A g \in Files : name[g] # 0 => name'[g] = name[g]
  BY CreatNames
<1>2. /\ x.pc \in {"openc", "lock", "write", "text"} => x.fd # 0
      /\ x.pc \in {"lock", "write", "text"} => x.fd2 # 0 /\ disk'[x.fd2] = disk[x.fd2]
      /\ x.pc = "append2" => x.fd # 0
  <2>1. SenderKinds(K, x)
    BY DEF Kinds
  <2> QED BY <2>1 DEF SenderKinds, Created
<1>3. \A m : InFile(m, "msgindex") => InFile(m, "msgindex")'
  <2> SUFFICES ASSUME NEW m, InFile(m, "msgindex") PROVE InFile(m, "msgindex")'
    OBVIOUS
  <2>1. name["msgindex"] # 0
    <3>1. CASE name["msgindex"] = 0
      BY <3>1 DEF InFile, get_msgcount, Recs
    <3> QED BY <3>1
  <2>2. /\ name'["msgindex"] = name["msgindex"]
        /\ disk'[name["msgindex"]] = disk[name["msgindex"]]
    BY <2>1, CreatNames DEF Files
  <2> QED BY <2>1, <2>2 DEF InFile, get_msgcount, Recs
<1>4. x.m \notin raced' => x.m \notin raced
  OBVIOUS
<1>5. /\ x.pc \in {"openc", "lock", "write", "text"} /\ x.fd = name["msgindex"] => x.fd = name'["msgindex"]
      /\ x.pc \in {"lock", "write", "text"} /\ x.fd2 = name["msgcontent"] => x.fd2 = name'["msgcontent"]
      /\ x.pc = "append2" /\ x.fd = name["msgindex2"] => x.fd = name'["msgindex2"]
  BY <1>1, <1>2 DEF Files
<1>6. ApartOf(x)
  OBVIOUS
<1> QED BY <1>2, <1>3, <1>4, <1>5, <1>6 DEF ApartOf

\* A sender opens one of the files.
LEMMA CreatSender ==
  ASSUME NEW K, NEW KK, NEW f \in Files, Created(f, K, KK), KInv(K),
         NEW s \in Senders, NEW y \in SenderStates, sd' = [sd EXCEPT ![s] = y],
         UNCHANGED <<alive, flag, msg_count, rd, mail, sent, asks, own,
                     took, again, overlap, shown, disposed>>, raced \subseteq raced', raced' \subseteq 0..sent,
         sd[s].pc \in Unsaved, y.pc \in Unsaved, y.pc \notin {"write", "text"},
         y.m = sd[s].m, y.to = sd[s].to, y.mode = sd[s].mode,
         SenderKinds(KK, y)', Apart',
         y.pc \in {"open2", "append2"} => sd[s].pc = "open2" /\ y.size = sd[s].size
  PROVE  KInv(KK)'
<1>1. sd \in [Senders -> SenderStates] /\ rd \in [Logins -> ReaderStates] /\ Types
  BY DEF KInv, Types
<1>2. sd'[s] = y /\ \A t \in Senders : t # s => sd'[t] = sd[t]
  BY <1>1
<1>3. Types'
  <2>1. name' \in [Files -> 0..Len(disk')] /\ disk' \in Seq(Inodes)
    BY DEF Created
  <2>2. sd' \in [Senders -> SenderStates] /\ \A t \in Senders : sd'[t].m <= sent'
    BY <1>1, <1>2 DEF Types
  <2> QED BY <1>1, <2>1, <2>2 DEF Types
<1>4. Kinds(KK)'
  <2>1. Kinds(K) /\ DiskKinds(K)
    BY DEF KInv, Kinds
  <2>2. \A t \in Senders : SenderKinds(KK, sd[t])'
    <3> SUFFICES ASSUME NEW t \in Senders PROVE SenderKinds(KK, sd[t])'
      OBVIOUS
    <3>1. CASE t = s
      BY <1>2, <3>1 DEF SenderKinds
    <3>2. CASE t # s
      <4>1. SenderKinds(K, sd[t])
        BY <2>1 DEF Kinds
      <4>2. \A x : SenderKinds(K, x) => SenderKinds(KK, x)'
        BY <1>1, <2>1, CreatKinds
      <4> QED BY <1>2, <3>2, <4>1, <4>2 DEF SenderKinds
    <3> QED BY <3>1, <3>2
  <2>3. \A l \in Logins : ReaderKinds(KK, rd[l])'
    <3>1. \A l \in Logins : ReaderKinds(K, rd[l])
      BY <2>1 DEF Kinds
    <3>2. \A x : ReaderKinds(K, x) => ReaderKinds(KK, x)'
      BY <1>1, <2>1, CreatKinds
    <3> QED BY <3>1, <3>2 DEF ReaderKinds
  <2> QED BY <1>1, <2>1, <2>2, <2>3, CreatKinds DEF Kinds
<1>5. Once(KK)'
  <2>1. Once(K) /\ Listed(K)
    BY DEF KInv, Once
  <2>2. Listed(KK)' /\ \A m : NotListed(K, m) => NotListed(KK, m)'
    BY <2>1, CreatOnce
  <2>3. \A t \in Senders : OnceOf(KK, sd[t])'
    <3> SUFFICES ASSUME NEW t \in Senders PROVE OnceOf(KK, sd[t])'
      OBVIOUS
    <3>1. OnceOf(K, sd[t])
      BY <2>1 DEF Once
    <3> QED BY <1>2, <2>2, <3>1, SMTT(40) DEF OnceOf, NotListed, Unsaved
  <2>4. \A p, t \in Senders :
          sd'[p].pc \in Unsaved /\ sd'[t].pc \in Unsaved /\ sd'[p].m = sd'[t].m => p = t
    <3>1. \A t \in Senders : sd'[t].m = sd[t].m /\ (sd'[t].pc \in Unsaved => sd[t].pc \in Unsaved)
      BY <1>2
    <3> QED BY <2>1, <3>1 DEF Once
  <2> QED BY <2>2, <2>3, <2>4 DEF Once
<1>6. Pointers(KK)'
  BY CreatPointers DEF KInv
<1>7. Texts'
  <2>1. \A t \in Senders : sd'[t].pc \in {"write", "text"} => sd'[t] = sd[t]
    BY <1>2
  <2>2. Texts
    BY DEF KInv, Rest
  <2>3. \A x : SenderText(x) => SenderText(x)'
    BY <1>1, <2>1, <2>2, CreatTexts
  <2>4. \A t \in Senders : SenderText(sd[t])'
    <3> SUFFICES ASSUME NEW t \in Senders PROVE SenderText(sd[t])'
      OBVIOUS
    <3>1. SenderText(sd[t])
      BY <2>2 DEF Texts
    <3>2. SenderText(sd[t])'
      BY <1>2, <2>3, <3>1 DEF SenderText
    <3> QED BY <3>2
  <2> QED BY <1>1, <2>1, <2>2, <2>4, CreatTexts
<1>8. Reading' /\ Alone'
  <2>1. Kinds(K) /\ \A l \in Logins : ReadingOf(l, rd[l]) /\ AloneOf(rd[l])
    BY DEF KInv, Rest, Reading, Alone
  <2>2. /\ \A l \in Logins : \A x : x = rd[l] => ReadingOf(l, x)'
        /\ \A l \in Logins : \A x : x = rd[l] => AloneOf(x)'
    BY <1>1, <2>1, CreatReading
  <2>3. /\ \A l \in Logins : ReadingOf(l, rd[l])'
        /\ \A l \in Logins : AloneOf(rd[l])'
    BY <2>2 DEF ReadingOf, AloneOf
  <2> QED BY <2>3 DEF Reading, Alone
<1>9. Kept'
  <2>1. Accepted' = Accepted
    <3>1. ToNotify' = ToNotify
      BY <1>2 DEF ToNotify, Unsaved
    <3>2. \A t \in ToNotify : sd'[t] = sd[t]
      BY <1>2 DEF ToNotify, Unsaved
    <3> QED BY <3>1, <3>2 DEF Accepted
  <2> QED BY <1>1, <2>1, CreatKept DEF KInv, Rest
<1>10. Taking'
  <2>1. \A l \in Logins : \A m : Pending(l, m) => Pending(l, m)'
    BY <1>1, CreatPending
  <2>2. \A l, m : IsShown(l, m) => IsShown(l, m)'
    BY DEF IsShown
  <2>3. ASSUME mail.runs = 0, NEW x \in took, x[3] = x[2], x[2] \in Telnet \cap alive
        PROVE  IsShown(x[2], x[1])' \/ Pending(x[2], x[1])'
    <3>1. x[2] \in Logins
      BY <2>3 DEF Logins
    <3>2. IsShown(x[2], x[1]) \/ Pending(x[2], x[1])
      BY <2>3 DEF KInv, Rest, Taking
    <3> QED BY <2>1, <2>2, <3>1, <3>2
  <2> QED BY <2>3 DEF KInv, Rest, Taking
<1>11. Limit'
  <2>1. UnreadLimited' = UnreadLimited
    BY <1>1, CreatLimit
  <2>2. UnderWay' = UnderWay
    BY <1>2 DEF UnderWay
  <2> QED BY <2>1, <2>2 DEF KInv, Rest, Limit
<1> QED BY <1>3, <1>4, <1>5, <1>6, <1>7, <1>8, <1>9, <1>10, <1>11 DEF KInv, Rest

\* save_msgtext opens msgindex.
LEMMA OpenIndexInv ==
  ASSUME IInv, NEW s \in Senders, OpenIndex(s)
  PROVE  IInv'
<1>1. PICK K : KInv(K)
  BY DEF IInv
<1>2. Types /\ sd \in [Senders -> SenderStates] /\ sd[s] \in SenderStates /\ sd[s].pc = "search"
  BY <1>1 DEF KInv, Types, OpenIndex
<1>3. UNCHANGED <<alive, flag, msg_count, rd, mail, sent, asks, own,
                   took, again, overlap, shown, disposed, unsig>>
  BY DEF OpenIndex
<1>4. CASE sd[s].to \in alive
  <2>1. Creat("msgindex") /\ "msgindex" \in Files
    BY <1>4 DEF OpenIndex, Files
  <2>2. (\E KK : Created("msgindex", K, KK)) /\ name'["msgindex"] = Inode("msgindex")
    BY <1>1, <2>1, CreatFacts DEF KInv, Kinds
  <2>3. PICK KK : Created("msgindex", K, KK)
    BY <2>2
  <2>0. PICK y : y = [sd[s] EXCEPT !.pc = "openc", !.fd = Inode("msgindex")]
    OBVIOUS
  <2>4. name'["msgindex"] \in 1..Len(disk') /\ KK[name'["msgindex"]] = "msgindex"
        /\ name'["msgindex"] \in Nat
    BY <2>3 DEF Created
  <2>5. /\ y \in SenderStates /\ y.pc = "openc" /\ y.m = sd[s].m /\ y.to = sd[s].to
        /\ y.mode = sd[s].mode /\ y.fd = name'["msgindex"]
    BY <1>2, <2>0, <2>2, <2>4 DEF SenderStates
  <2>6. sd' = [sd EXCEPT ![s] = y]
    BY <1>2, <1>4, <2>0 DEF OpenIndex, SenderStates
  <2>7. raced' = IF mail.pc = "idle" /\ InProgress \cap raced = {} THEN raced
                 ELSE raced \cup {sd[s].m}
    BY <1>4 DEF OpenIndex
  <2>8. sd'[s] = y /\ \A t \in Senders : t # s => sd'[t] = sd[t]
    BY <1>2, <2>6
  <2>9. SenderKinds(KK, y)'
    BY <2>4, <2>5 DEF SenderKinds
  <2>10. Apart'
    <3>1. InProgress' = InProgress \cup {sd[s].m}
      <4>1. s \notin {t \in Senders : sd[t].pc \in Saving}
        BY <1>2 DEF Saving
      <4>2. {t \in Senders : sd'[t].pc \in Saving} = {t \in Senders : sd[t].pc \in Saving} \cup {s}
        BY <2>5, <2>8 DEF Saving
      <4> QED BY <2>5, <2>8, <4>1, <4>2 DEF InProgress
    <3>2. Apart
      BY <1>1 DEF KInv, Rest
    <3>3. \A t \in Senders : ApartOf(sd[t])'
      <4> SUFFICES ASSUME NEW t \in Senders PROVE ApartOf(sd[t])'
        OBVIOUS
      <4>1. CASE t = s
        BY <2>5, <2>8, <4>1 DEF ApartOf
      <4>2. CASE t # s
        <5>1. ApartOf(sd[t]) /\ Kinds(K)
          BY <1>1, <3>2 DEF Apart, KInv
        <5>2. sd[t].pc = "search" => sd[t].m \notin raced'
          BY <1>1, <1>2, <2>7, <4>2, <5>1 DEF ApartOf, KInv, Once, Unsaved
        <5>3. \A x : x = sd[t] => ApartOf(x)'
          BY <1>2, <2>1, <2>3, <2>7, <5>1, <5>2, CreatApart
        <5> QED BY <2>8, <4>2, <5>3 DEF ApartOf
      <4> QED BY <4>1, <4>2
    <3>4. (InProgress' \subseteq raced' \/ InProgress' \cap raced' = {})
          /\ (mail'.pc # "idle" => InProgress' \subseteq raced')
      <4>1. CASE mail.pc = "idle" /\ InProgress \cap raced = {}
        BY <1>2, <1>3, <2>7, <3>1, <3>2, <4>1 DEF Apart, ApartOf
      <4>2. CASE ~(mail.pc = "idle" /\ InProgress \cap raced = {})
        <5>1. InProgress \subseteq raced
          BY <3>2, <4>2 DEF Apart
        <5> QED BY <2>7, <3>1, <4>2, <5>1
      <4> QED BY <4>1, <4>2
    <3>5. \A p, t \in Senders :
             sd'[p].pc \in {"write", "text"} /\ sd'[t].pc \in {"write", "text"} /\ sd'[p].fd = sd'[t].fd => p = t
      BY <2>5, <2>8, <3>2 DEF Apart
    <3> QED BY <3>3, <3>4, <3>5 DEF Apart
  <2>11. sd[s].pc \in Unsaved /\ y.pc \in Unsaved /\ y.pc \notin {"write", "text"}
    BY <1>2, <2>5 DEF Unsaved
  <2>12. raced \subseteq raced' /\ raced' \subseteq 0..sent
    <3>1. sd[s].m \in Nat /\ sd[s].m <= sent /\ sent \in Nat /\ raced \subseteq 0..sent
      BY <1>2 DEF Types, SenderStates
    <3>2. sd[s].m \in 0..sent
      BY <3>1
    <3> QED BY <2>7, <3>1, <3>2
  <2>13. KInv(KK)'
    BY <1>1, <1>3, <2>1, <2>3, <2>5, <2>6, <2>9, <2>10, <2>11, <2>12, CreatSender
  <2> QED BY <2>13 DEF IInv
<1>5. CASE sd[s].to \notin alive
  <2>1. UNCHANGED <<name, disk, raced>> /\ sd' = [sd EXCEPT ![s] = IdleSender]
    BY <1>5 DEF OpenIndex
  <2>2. KInv(K)'
    BY <1>1, <1>3, <2>1, SenderGone
  <2> QED BY <2>2 DEF IInv
<1> QED BY <1>4, <1>5

\* A sender that goes on saving is one that was saving.
LEMMA SameInProgress ==
  ASSUME NEW s \in Senders, sd'[s].m = sd[s].m, \A t \in Senders : t # s => sd'[t] = sd[t],
         sd'[s].pc \in Saving <=> sd[s].pc \in Saving
  PROVE  InProgress' = InProgress
<1>1. \A t \in Senders : sd'[t].m = sd[t].m /\ (sd'[t].pc \in Saving <=> sd[t].pc \in Saving)
  OBVIOUS
<1> QED BY <1>1 DEF InProgress, Saving

\* save_msgtext opens msgcontent.
LEMMA OpenContentInv ==
  ASSUME IInv, NEW s \in Senders, OpenContent(s)
  PROVE  IInv'
<1>1. PICK K : KInv(K)
  BY DEF IInv
<1>2. /\ Types /\ sd \in [Senders -> SenderStates] /\ sd[s] \in SenderStates /\ sd[s].pc = "openc"
      /\ Kinds(K) /\ DiskKinds(K) /\ Apart
  BY <1>1 DEF KInv, Types, Kinds, Rest, OpenContent
<1>3. /\ UNCHANGED <<alive, flag, msg_count, rd, mail, sent, asks, own,
                     took, again, overlap, shown, disposed, raced, unsig>>
      /\ Creat("msgcontent") /\ "msgcontent" \in Files
  BY DEF OpenContent, ghosts, Files
<1>4. (\E KK : Created("msgcontent", K, KK)) /\ name'["msgcontent"] = Inode("msgcontent")
  BY <1>2, <1>3, CreatFacts
<1>5. PICK KK : Created("msgcontent", K, KK)
  BY <1>4
<1>6. name'["msgcontent"] \in 1..Len(disk') /\ KK[name'["msgcontent"]] = "msgcontent"
      /\ name'["msgcontent"] \in Nat
  BY <1>5 DEF Created
<1>7. PICK y : y = [sd[s] EXCEPT !.pc = "lock", !.fd2 = Inode("msgcontent")]
  OBVIOUS
<1>8. /\ y \in SenderStates /\ y.pc = "lock" /\ y.m = sd[s].m /\ y.to = sd[s].to
      /\ y.mode = sd[s].mode /\ y.fd = sd[s].fd /\ y.fd2 = name'["msgcontent"]
  BY <1>2, <1>4, <1>6, <1>7 DEF SenderStates
<1>9. sd' = [sd EXCEPT ![s] = y]
  BY <1>2, <1>7 DEF OpenContent, SenderStates
<1>10. sd'[s] = y /\ \A t \in Senders : t # s => sd'[t] = sd[t]
  BY <1>2, <1>9
<1>11. sd[s].fd \in 1..Len(disk) /\ K[sd[s].fd] = "msgindex"
  BY <1>2 DEF Kinds, SenderKinds
<1>12. SenderKinds(KK, y)'
  BY <1>5, <1>6, <1>8, <1>11 DEF SenderKinds, Created
<1>13. Apart'
  <2>1. InProgress' = InProgress
    BY <1>2, <1>8, <1>10, SameInProgress DEF Saving
  <2>2. ASSUME NEW t \in Senders PROVE ApartOf(sd[t])'
    <3>1. ApartOf(sd[t])
      BY <1>2 DEF Apart
    <3>2. CASE t = s
      BY <1>2, <1>3, <1>5, <1>8, <1>10, <3>1, <3>2 DEF ApartOf, Created, Files
    <3>3. CASE t # s
      <4>1. sd[t].pc = "search" => sd[t].m \notin raced'
        BY <1>3, <3>1 DEF ApartOf
      <4>2. \A x : x = sd[t] => ApartOf(x)'
        BY <1>2, <1>3, <1>5, <3>1, <4>1, CreatApart
      <4> QED BY <1>10, <3>3, <4>2 DEF ApartOf
    <3> QED BY <3>2, <3>3
  <2>3. \A p, t \in Senders :
           sd'[p].pc \in {"write", "text"} /\ sd'[t].pc \in {"write", "text"} /\ sd'[p].fd = sd'[t].fd => p = t
    BY <1>2, <1>8, <1>10 DEF Apart
  <2> QED BY <1>2, <1>3, <2>1, <2>2, <2>3 DEF Apart
<1>14. sd[s].pc \in Unsaved /\ y.pc \in Unsaved /\ y.pc \notin {"write", "text"}
  BY <1>2, <1>8 DEF Unsaved
<1>15. raced \subseteq raced' /\ raced' \subseteq 0..sent
  BY <1>2, <1>3 DEF Types
<1>16. KInv(KK)'
  BY <1>1, <1>3, <1>5, <1>8, <1>9, <1>12, <1>13, <1>14, <1>15, CreatSender
<1> QED BY <1>16 DEF IInv

\* The list of unread messages is opened to append to it.
LEMMA OpenIndex2Inv ==
  ASSUME IInv, NEW s \in Senders, OpenIndex2(s)
  PROVE  IInv'
<1>1. PICK K : KInv(K)
  BY DEF IInv
<1>2. /\ Types /\ sd \in [Senders -> SenderStates] /\ sd[s] \in SenderStates /\ sd[s].pc = "open2"
      /\ Kinds(K) /\ DiskKinds(K) /\ Apart
  BY <1>1 DEF KInv, Types, Kinds, Rest, OpenIndex2
<1>3. /\ UNCHANGED <<alive, flag, msg_count, rd, mail, sent, asks, own,
                     took, again, overlap, shown, disposed, raced, unsig>>
      /\ Creat("msgindex2") /\ "msgindex2" \in Files
  BY DEF OpenIndex2, ghosts, Files
<1>4. (\E KK : Created("msgindex2", K, KK)) /\ name'["msgindex2"] = Inode("msgindex2")
  BY <1>2, <1>3, CreatFacts
<1>5. PICK KK : Created("msgindex2", K, KK)
  BY <1>4
<1>6. name'["msgindex2"] \in 1..Len(disk') /\ KK[name'["msgindex2"]] = "msgindex2"
      /\ name'["msgindex2"] \in Nat
  BY <1>5 DEF Created
<1>7. PICK y : y = [sd[s] EXCEPT !.pc = "append2", !.fd = Inode("msgindex2")]
  OBVIOUS
<1>8. /\ y \in SenderStates /\ y.pc = "append2" /\ y.m = sd[s].m /\ y.to = sd[s].to
      /\ y.mode = sd[s].mode /\ y.fd = name'["msgindex2"] /\ y.size = sd[s].size
  BY <1>2, <1>4, <1>6, <1>7 DEF SenderStates
<1>9. sd' = [sd EXCEPT ![s] = y]
  BY <1>2, <1>7 DEF OpenIndex2, SenderStates
<1>10. sd'[s] = y /\ \A t \in Senders : t # s => sd'[t] = sd[t]
  BY <1>2, <1>9
<1>11. SenderKinds(KK, y)'
  BY <1>6, <1>8 DEF SenderKinds
<1>12. Apart'
  <2>1. InProgress' = InProgress
    BY <1>2, <1>8, <1>10, SameInProgress DEF Saving
  <2>2. ASSUME NEW t \in Senders PROVE ApartOf(sd[t])'
    <3>1. ApartOf(sd[t])
      BY <1>2 DEF Apart
    <3>2. CASE t = s
      <4>1. \A x : x = sd[s] => ApartOf(x)'
        BY <1>2, <1>3, <1>5, <3>1, <3>2, CreatApart
      <4>2. ASSUME NEW x, x = sd[s] PROVE x.m \notin raced => InFile(x.m, "msgindex")'
        BY <1>2, <1>3, <4>1, <4>2 DEF ApartOf
      <4> QED BY <1>2, <1>3, <1>8, <1>10, <3>2, <4>2 DEF ApartOf, InFile
    <3>3. CASE t # s
      <4>1. sd[t].pc = "search" => sd[t].m \notin raced'
        BY <1>3, <3>1 DEF ApartOf
      <4>2. \A x : x = sd[t] => ApartOf(x)'
        BY <1>2, <1>3, <1>5, <3>1, <4>1, CreatApart
      <4> QED BY <1>10, <3>3, <4>2 DEF ApartOf
    <3> QED BY <3>2, <3>3
  <2>3. \A p, t \in Senders :
           sd'[p].pc \in {"write", "text"} /\ sd'[t].pc \in {"write", "text"} /\ sd'[p].fd = sd'[t].fd => p = t
    BY <1>2, <1>8, <1>10 DEF Apart
  <2> QED BY <1>2, <1>3, <2>1, <2>2, <2>3 DEF Apart
<1>13. sd[s].pc \in Unsaved /\ y.pc \in Unsaved /\ y.pc \notin {"write", "text"}
  BY <1>2, <1>8 DEF Unsaved
<1>14. raced \subseteq raced' /\ raced' \subseteq 0..sent
  BY <1>2, <1>3 DEF Types
<1>15. KInv(KK)'
  BY <1>1, <1>2, <1>3, <1>5, <1>8, <1>9, <1>11, <1>12, <1>13, <1>14, CreatSender
<1> QED BY <1>15 DEF IInv

-----------------------------------------------------------------------------
(* get_unreadmsg. *)

\* A call of get_unreadmsg that finds nothing may create the list.
LEMMA CreatReader ==
  ASSUME NEW K, NEW KK, NEW f \in Files, Created(f, K, KK), KInv(K),
         NEW l \in Logins, NEW y \in ReaderStates, rd' = [rd EXCEPT ![l] = y],
         UNCHANGED <<alive, flag, msg_count, sd, mail, sent, asks, own,
                     took, again, overlap, shown, disposed, raced>>,
         rd[l].pc = "take", y.pc # "bump", y.cleared = rd[l].cleared,
         ReadingOf(l, y)', AloneOf(y)'
  PROVE  KInv(KK)'
<1>1. sd \in [Senders -> SenderStates] /\ rd \in [Logins -> ReaderStates] /\ Types
  BY DEF KInv, Types
<1>2. rd'[l] = y /\ \A k \in Logins : k # l => rd'[k] = rd[k]
  BY <1>1
<1>3. Types'
  <2>1. name' \in [Files -> 0..Len(disk')] /\ disk' \in Seq(Inodes)
    BY DEF Created
  <2> QED BY <1>1, <2>1 DEF Types
<1>4. Kinds(KK)'
  <2>1. Kinds(K) /\ DiskKinds(K)
    BY DEF KInv, Kinds
  <2>2. \A t \in Senders : SenderKinds(KK, sd[t])'
    <3>1. \A t \in Senders : SenderKinds(K, sd[t])
      BY <2>1 DEF Kinds
    <3>2. \A x : SenderKinds(K, x) => SenderKinds(KK, x)'
      BY <1>1, <2>1, CreatKinds
    <3> QED BY <3>1, <3>2 DEF SenderKinds
  <2>3. \A k \in Logins : ReaderKinds(KK, rd[k])'
    <3>1. \A k \in Logins : ReaderKinds(K, rd[k])
      BY <2>1 DEF Kinds
    <3>2. \A x : ReaderKinds(K, x) => ReaderKinds(KK, x)'
      BY <1>1, <2>1, CreatKinds
    <3> QED BY <1>2, <3>1, <3>2 DEF ReaderKinds
  <2> QED BY <1>1, <2>1, <2>2, <2>3, CreatKinds DEF Kinds
<1>5. Once(KK)'
  <2>1. Once(K) /\ Listed(K)
    BY DEF KInv, Once
  <2>2. Listed(KK)' /\ \A m : NotListed(K, m) => NotListed(KK, m)'
    BY <2>1, CreatOnce
  <2>3. \A t \in Senders : OnceOf(KK, sd[t])'
    BY <2>1, <2>2 DEF Once, OnceOf, NotListed
  <2> QED BY <2>1, <2>2, <2>3 DEF Once
<1>6. Pointers(KK)'
  <2>1. \A k \in Logins : rd'[k].pc = "bump" => rd'[k] = rd[k]
    BY <1>2
  <2> QED BY <2>1, CreatPointers DEF KInv
<1>7. Texts' /\ Apart'
  <2>1. Texts /\ Apart /\ Kinds(K)
    BY DEF KInv, Rest
  <2>2. \A x : SenderText(x) => SenderText(x)'
    BY <1>1, <2>1, CreatTexts
  <2>3. \A t \in Senders : SenderText(sd[t])'
    BY <2>1, <2>2 DEF Texts, SenderText
  <2>4. ASSUME NEW t \in Senders PROVE ApartOf(sd[t])'
    <3>1. ApartOf(sd[t])
      BY <2>1 DEF Apart
    <3>2. \A x : x = sd[t] => ApartOf(x)'
      BY <1>1, <2>1, <3>1, CreatApart DEF ApartOf
    <3> QED BY <3>2 DEF ApartOf
  <2>5. InProgress' = InProgress
    BY DEF InProgress
  <2>6. Apart'
    BY <2>1, <2>4, <2>5 DEF Apart
  <2> QED BY <1>1, <2>1, <2>3, <2>6, CreatTexts
<1>8. Reading' /\ Alone'
  <2>1. Kinds(K) /\ \A k \in Logins : ReadingOf(k, rd[k]) /\ AloneOf(rd[k])
    BY DEF KInv, Rest, Reading, Alone
  <2>2. /\ \A k \in Logins : \A x : x = rd[k] => ReadingOf(k, x)'
        /\ \A k \in Logins : \A x : x = rd[k] => AloneOf(x)'
    BY <1>1, <2>1, CreatReading
  <2>3. \A k \in Logins : ReadingOf(k, rd[k])'
    BY <1>2, <2>2 DEF ReadingOf
  <2>4. \A k \in Logins : AloneOf(rd[k])'
    BY <1>2, <2>2 DEF AloneOf
  <2> QED BY <2>3, <2>4 DEF Reading, Alone
<1>9. Kept'
  <2>1. Accepted' = Accepted
    BY DEF Accepted, ToNotify
  <2> QED BY <1>1, <2>1, CreatKept DEF KInv, Rest
<1>10. Taking'
  <2>1. \A k \in Logins : \A m : Pending(k, m) => Pending(k, m)'
    <3> SUFFICES ASSUME NEW k \in Logins, NEW m, Pending(k, m) PROVE Pending(k, m)'
      OBVIOUS
    <3>1. k # l
      BY DEF Pending
    <3> QED BY <1>1, <1>2, <3>1, CreatPending
  <2>2. \A k, m : IsShown(k, m) => IsShown(k, m)'
    BY DEF IsShown
  <2>3. ASSUME mail.runs = 0, NEW x \in took, x[3] = x[2], x[2] \in Telnet \cap alive
        PROVE  IsShown(x[2], x[1])' \/ Pending(x[2], x[1])'
    <3>1. x[2] \in Logins
      BY <2>3 DEF Logins
    <3>2. IsShown(x[2], x[1]) \/ Pending(x[2], x[1])
      BY <2>3 DEF KInv, Rest, Taking
    <3> QED BY <2>1, <2>2, <3>1, <3>2
  <2>4. mail.runs = 0 => mail.pc = "idle" /\ \A k \in Logins : ~rd'[k].cleared
    BY <1>2 DEF KInv, Rest, Taking
  <2> QED BY <2>3, <2>4 DEF Taking
<1>11. Limit'
  <2>1. UnreadLimited' = UnreadLimited
    BY <1>1, CreatLimit
  <2>2. UnderWay' = UnderWay
    BY DEF UnderWay
  <2> QED BY <2>1, <2>2 DEF KInv, Rest, Limit
<1> QED BY <1>3, <1>4, <1>5, <1>6, <1>7, <1>8, <1>9, <1>10, <1>11 DEF KInv, Rest

\* ... and one that finds a message locks the list with the others.
LEMMA TakeFindsInv ==
  ASSUME NEW K, KInv(K), NEW l \in Logins, NEW y \in ReaderStates, NEW i \in 1..Len(disk),
         rd[l].pc = "take", i = name["msgindex2"], rd' = [rd EXCEPT ![l] = y],
         y.pc = "bump", y.fd = i, y.now = disk[i].first, y.count = rd[l].count,
         y.cleared = rd[l].cleared, y.other = rd[l].other,
         disk[i].first < Len(disk[i].recs),
         UNCHANGED <<name, disk, alive, flag, msg_count, sd, mail, sent, asks, own,
                     took, again, shown, disposed, raced>>,
         overlap' = (overlap \/ ReadLocked(i))
  PROVE  KInv(K)'
<1> USE DEF KInv, Rest
<1>1. rd \in [Logins -> ReaderStates] /\ sent \in Nat /\ y.now \in Int
  BY DEF Types, ReaderStates
<1>2. rd'[l] = y /\ \A k \in Logins : k # l => rd'[k] = rd[k]
  BY <1>1
<1>3. i # 0 /\ K[i] = "msgindex2" /\ Len(disk[i].recs) \in Nat /\ Len(disk[i].recs) <= sent
      /\ disk[i].first \in Nat
  <2>1. Len(disk) \in Nat /\ disk[i] \in Inodes
    BY LenProperties DEF Types
  <2>2. i # 0
    BY <2>1
  <2>3. K[i] = "msgindex2"
    BY <2>2 DEF Kinds, DiskKinds, Files
  <2> QED BY <1>1, <2>1, <2>2, <2>3, ListBounded DEF Inodes
<1>4. Types'
  BY <1>1 DEF Types
<1>5. Kinds(K)'
  <2>1. DiskKinds(K)' /\ \A s \in Senders : SenderKinds(K, sd[s])'
    BY DEF Kinds, DiskKinds, SenderKinds
  <2>2. ReaderKinds(K, y)
    BY <1>3 DEF ReaderKinds
  <2>3. \A k \in Logins : ReaderKinds(K, rd[k])'
    BY <1>2, <2>2 DEF Kinds, ReaderKinds
  <2> QED BY <2>1, <2>3 DEF Kinds
<1>6. Once(K)' /\ Apart'
  BY FrameOnce, FrameApart
<1>7. Pointers(K)'
  <2>1. \A k \in 1..disk[i].first : IsTaken(disk[i].recs[k].m)
    BY DEF Pointers
  <2>2. \A k \in Logins : PointersOf(rd[k])'
    BY <1>2, <2>1 DEF Pointers, PointersOf, IsTaken
  <2>3. \A j \in 1..Len(disk) : disk[j].first <= Len(disk[j].recs)
          /\ \A k \in 1..disk[j].first : IsTaken(disk[j].recs[k].m)'
    BY DEF Pointers, IsTaken
  <2>4. ~overlap' =>
         /\ ~again
         /\ \A k \in Logins : rd'[k].pc = "bump" => disk[rd'[k].fd].first = rd'[k].now
         /\ \A j, k \in Logins :
              rd'[j].pc = "bump" /\ rd'[k].pc = "bump" /\ rd'[j].fd = rd'[k].fd => j = k
         /\ \A x \in took : \E j \in 1..Len(disk) :
              K[j] = "msgindex2" /\ \E k \in 1..disk[j].first : disk[j].recs[k].m = x[1]
    <3> SUFFICES ASSUME ~overlap, ~ReadLocked(i)
                 PROVE  /\ ~again
                        /\ \A k \in Logins : rd'[k].pc = "bump" => disk[rd'[k].fd].first = rd'[k].now
                        /\ \A j, k \in Logins :
                             rd'[j].pc = "bump" /\ rd'[k].pc = "bump" /\ rd'[j].fd = rd'[k].fd => j = k
                        /\ \A x \in took : \E j \in 1..Len(disk) :
                             K[j] = "msgindex2" /\ \E k \in 1..disk[j].first : disk[j].recs[k].m = x[1]
      OBVIOUS
    <3>1. /\ ~again
          /\ \A x \in took : \E j \in 1..Len(disk) :
               K[j] = "msgindex2" /\ \E k \in 1..disk[j].first : disk[j].recs[k].m = x[1]
      BY DEF Pointers
    <3>2. \A k \in Logins : rd'[k].pc = "bump" => disk[rd'[k].fd].first = rd'[k].now
      BY <1>2 DEF Pointers
    <3>3. \A j, k \in Logins :
            rd'[j].pc = "bump" /\ rd'[k].pc = "bump" /\ rd'[j].fd = rd'[k].fd => j = k
      BY <1>2 DEF Pointers, ReadLocked
    <3> QED BY <3>1, <3>2, <3>3
  <2>5. disk' = disk /\ took' = took /\ again' = again
    OBVIOUS
  <2> QED BY <2>2, <2>3, <2>4, <2>5 DEF Pointers
<1>8. Texts'
  BY FrameTexts
<1>9. Reading' /\ Alone'
  <2>1. ReadingOf(l, rd[l]) /\ AloneOf(rd[l])
    BY DEF Reading, Alone
  <2>2. ReadingOf(l, y)
    BY <1>1, <1>3, <2>1 DEF ReadingOf
  <2>3. AloneOf(y)
    BY <2>1 DEF AloneOf
  <2>4. Reading'
    BY <1>2, <2>2 DEF Reading, ReadingOf, Index2
  <2>5. Alone'
    BY <1>2, <2>3 DEF Alone, AloneOf, Index2
  <2> QED BY <2>4, <2>5
<1>10. Kept'
  <2>1. Accepted' = Accepted
    BY DEF Accepted, ToNotify
  <2> QED BY <2>1, FrameKept
<1>11. Taking'
  <2>1. \A m : ~Pending(l, m)
    BY DEF Pending
  <2> HIDE DEF KInv
  <2>2. Taking
    BY DEF KInv
  <2> QED BY <1>1, <2>1, <2>2, OneReaderTaking
<1>12. Limit'
  <2>1. UnreadLimited' = UnreadLimited /\ UnderWay' = UnderWay
    BY DEF UnreadLimited, Limited, Recs, UnderWay
  <2> QED BY <2>1 DEF Limit
<1> QED BY <1>4, <1>5, <1>6, <1>7, <1>8, <1>9, <1>10, <1>11, <1>12

\* A reader opens the list and reads the pointer: it finds a message, or none.
LEMMA TakeInv ==
  ASSUME IInv, NEW l \in Logins, Take(l)
  PROVE  IInv'
<1>1. PICK K : KInv(K)
  BY DEF IInv
<1>2. /\ Types /\ Kinds(K) /\ DiskKinds(K) /\ rd \in [Logins -> ReaderStates] /\ rd[l] \in ReaderStates
      /\ ReadingOf(l, rd[l]) /\ AloneOf(rd[l]) /\ sent \in Nat /\ Logins = Telnet \cup Web
  BY <1>1 DEF KInv, Rest, Types, Kinds, Reading, Alone, Logins
<1>3. /\ rd[l].pc = "take" /\ Creat("msgindex2") /\ "msgindex2" \in Files
      /\ UNCHANGED <<alive, flag, msg_count, sd, mail, sent, asks, own,
                   took, again, shown, disposed, raced, unsig>>
  BY DEF Take, Files
<1>4. (\E KK : Created("msgindex2", K, KK)) /\ name'["msgindex2"] = Inode("msgindex2")
  BY <1>2, <1>3, CreatFacts
<1>5. PICK KK : Created("msgindex2", K, KK)
  BY <1>4
<1>6. PICK i : i = Inode("msgindex2")
  OBVIOUS
<1>7. i = name'["msgindex2"] /\ i \in 1..Len(disk') /\ disk'[i].first \in Nat
      /\ i \in Nat
  <2>1. i \in 1..Len(disk') /\ disk' \in Seq(Inodes)
    BY <1>4, <1>5, <1>6 DEF Created
  <2>2. disk'[i] \in Inodes
    BY <2>1
  <2> QED BY <1>4, <1>6, <2>1, <2>2 DEF Inodes
<1>8. CASE disk'[i].first < Len(disk'[i].recs)
  <2>1. PICK y : y = [rd[l] EXCEPT !.pc = "bump", !.fd = i, !.now = disk'[i].first]
    OBVIOUS
  <2>2. rd' = [rd EXCEPT ![l] = y] /\ overlap' = (overlap \/ ReadLocked(i))
    BY <1>2, <1>6, <1>8, <2>1 DEF Take, ReaderStates
  <2>3. /\ y \in ReaderStates /\ y.pc = "bump" /\ y.fd = i /\ y.now = disk'[i].first
        /\ y.count = rd[l].count /\ y.cleared = rd[l].cleared /\ y.other = rd[l].other
    BY <1>2, <1>7, <2>1 DEF ReaderStates
  <2>4. name["msgindex2"] # 0
    <3>1. CASE name["msgindex2"] = 0
      <4>1. disk'[i].first = 0 /\ Len(disk'[i].recs) = 0
        BY <1>2, <1>5, <1>7, <3>1, CreatNames DEF Files
      <4> QED BY <1>8, <4>1
    <3> QED BY <3>1
  <2>5. name' = name /\ disk' = disk /\ i = name["msgindex2"]
    BY <1>2, <1>3, <1>6, <2>4 DEF Creat, Inode, Types
  <2>6. KInv(K)'
    BY <1>1, <1>3, <1>7, <1>8, <2>2, <2>3, <2>5, TakeFindsInv
  <2> QED BY <2>6 DEF IInv
<1>9. CASE ~(disk'[i].first < Len(disk'[i].recs))
  <2>1. overlap' = overlap
        /\ rd' = IF ~rd[l].first THEN rd
                 ELSE IF l \in Web THEN [rd EXCEPT ![l].pc = "fail"]
                 ELSE [rd EXCEPT ![l].pc = "show", ![l].now = rd[l].count - 1]
    BY <1>6, <1>9 DEF Take
  <2>2. \A x : x = rd[l] => ReadingOf(l, x)' /\ AloneOf(x)'
    BY <1>2, <1>3, <1>5, CreatReading
  <2>3. PICK x : x = rd[l]
    OBVIOUS
  <2>4. ReadingOf(l, x)' /\ AloneOf(x)' /\ x \in ReaderStates /\ x.pc = "take"
        /\ x.count \in Nat /\ (l \in Telnet => x.count >= 1)
    BY <1>2, <1>3, <2>2, <2>3 DEF ReaderStates, ReadingOf
  <2>5. CASE ~rd[l].first
    <3>1. rd' = [rd EXCEPT ![l] = x]
      BY <1>2, <2>1, <2>3, <2>5
    <3>2. x.cleared = rd[l].cleared /\ x.pc # "bump"
      BY <2>3, <2>4
    <3>3. KInv(KK)'
      BY <1>1, <1>3, <1>5, <2>1, <2>4, <3>1, <3>2, CreatReader
    <3> QED BY <3>3 DEF IInv
  <2>6. CASE rd[l].first /\ l \in Web
    <3>1. PICK y : y = [x EXCEPT !.pc = "fail"]
      OBVIOUS
    <3>2. rd' = [rd EXCEPT ![l] = y]
      BY <1>2, <2>1, <2>3, <2>6, <3>1 DEF ReaderStates
    <3>3. /\ y \in ReaderStates /\ y.pc = "fail" /\ y.count = x.count /\ y.now = x.now
          /\ y.cleared = x.cleared /\ y.other = x.other
      BY <2>4, <3>1 DEF ReaderStates
    <3>4. ReadingOf(l, y)' /\ AloneOf(y)'
      BY <2>4, <3>3 DEF ReadingOf, AloneOf, Index2
    <3>5. y.cleared = rd[l].cleared /\ y.pc # "bump"
      BY <2>3, <3>3
    <3>6. KInv(KK)'
      BY <1>1, <1>3, <1>5, <2>1, <3>2, <3>3, <3>4, <3>5, CreatReader
    <3> QED BY <3>6 DEF IInv
  <2>7. CASE rd[l].first /\ l \notin Web
    <3>1. PICK y : y = [x EXCEPT !.pc = "show", !.now = x.count - 1]
      OBVIOUS
    <3>2. rd' = [rd EXCEPT ![l] = y]
      BY <1>2, <2>1, <2>3, <2>7, <3>1 DEF ReaderStates
    <3>3. x.count >= 1 /\ x.count - 1 \in Nat /\ x.count - 1 < x.count
      BY <1>2, <2>4, <2>7
    <3>4. /\ y \in ReaderStates /\ y.pc = "show" /\ y.count = x.count /\ y.now = x.count - 1
          /\ y.cleared = x.cleared /\ y.other = x.other
      BY <2>4, <3>1, <3>3 DEF ReaderStates
    <3>5. ReadingOf(l, y)'
      <4>1. Len(disk'[i].recs) \in Nat
        <5>1. disk'[i] \in Inodes
          BY <1>5, <1>7 DEF Created
        <5>2. disk'[i].recs \in Seq(Heads) \/ disk'[i].recs \in Seq(Nat)
          BY <5>1 DEF Inodes
        <5> QED BY <5>2, LenProperties
      <4>2. x.count <= sent' /\ sent' \in Nat
            /\ (~x.cleared => name'["msgindex2"] # 0 /\ x.count <= Len(disk'[name'["msgindex2"]].recs))
        BY <1>2, <1>3, <2>4, <3>3 DEF ReadingOf, Index2
      <4>3. ~x.cleared => name'["msgindex2"] # 0 /\ x.count <= Len(disk'[i].recs)
        BY <1>7, <4>2
      <4>4. ~x.cleared => x.count - 1 < Len(disk'[i].recs)
        BY <2>4, <4>1, <4>3
      <4>5. x.count - 1 < sent' /\ x.count - 1 >= 0
        BY <2>4, <3>3, <4>2
      <4>6. ~y.cleared => name'["msgindex2"] # 0 /\ y.count <= Len(disk'[name'["msgindex2"]].recs)
                          /\ y.now < Len(disk'[name'["msgindex2"]].recs)
        BY <1>7, <3>4, <4>3, <4>4
      <4> QED BY <2>4, <2>7, <3>4, <4>2, <4>5, <4>6 DEF ReadingOf, Index2
    <3>6. AloneOf(y)'
      BY <2>4, <3>4 DEF AloneOf, Index2
    <3>7. y.cleared = rd[l].cleared /\ y.pc # "bump"
      BY <2>3, <3>4
    <3>8. KInv(KK)'
      BY <1>1, <1>3, <1>5, <2>1, <3>2, <3>4, <3>5, <3>6, <3>7, CreatReader
    <3> QED BY <3>8 DEF IInv
  <2> QED BY <2>5, <2>6, <2>7
<1> QED BY <1>8, <1>9

\* One file changes.
LEMMA OneInode ==
  ASSUME disk \in Seq(Inodes), NEW a \in 1..Len(disk), NEW v \in Inodes, disk' = [disk EXCEPT ![a] = v]
  PROVE  /\ disk' \in Seq(Inodes) /\ Len(disk') = Len(disk) /\ disk'[a] = v
         /\ \A j \in 1..Len(disk) : j # a => disk'[j] = disk[j]
BY ExceptSeq

\* A change that leaves the records of the lists alone lists nothing twice.
LEMMA SameRecsOnce ==
  ASSUME NEW K, Once(K), Len(disk') = Len(disk), UNCHANGED <<sent, sd>>,
         \A i \in 1..Len(disk) : K[i] = "msgindex2" => disk'[i].recs = disk[i].recs
  PROVE  Once(K)'
<1>1. Listed(K)'
  <2>1. \A i \in 1..Len(disk') : K[i] = "msgindex2" =>
          \A k \in 1..Len(disk'[i].recs) : disk'[i].recs[k].m <= sent'
    BY DEF Once, Listed
  <2>2. ASSUME NEW i \in 1..Len(disk'), NEW j \in 1..Len(disk'),
               K[i] = "msgindex2", K[j] = "msgindex2",
               NEW k \in 1..Len(disk'[i].recs), NEW n \in 1..Len(disk'[j].recs),
               disk'[i].recs[k].m = disk'[j].recs[n].m
        PROVE  i = j /\ k = n
    <3>1. /\ i \in 1..Len(disk) /\ disk'[i].recs = disk[i].recs
          /\ j \in 1..Len(disk) /\ disk'[j].recs = disk[j].recs
      BY <2>2
    <3>2. /\ k \in 1..Len(disk[i].recs) /\ n \in 1..Len(disk[j].recs)
          /\ disk[i].recs[k].m = disk[j].recs[n].m
      BY <2>2, <3>1
    <3> QED BY <2>2, <3>1, <3>2, SMTT(40) DEF Once, Listed
  <2> QED BY <2>1, <2>2 DEF Listed
<1>2. \A m : NotListed(K, m) => NotListed(K, m)'
  BY DEF NotListed
<1>3. \A s \in Senders : OnceOf(K, sd[s])'
  BY <1>2 DEF Once, OnceOf, NotListed
<1> QED BY <1>1, <1>3 DEF Once

\* The pointer is written back one further.  If no two readers overlapped it is where this reader found it,
\* so it passes the message taken and no other.
LEMMA BumpInv ==
  ASSUME NEW K, KInv(K), NEW l \in Logins, Bump(l)
  PROVE  KInv(K)'
<1>1. PICK a : a = rd[l].fd
  OBVIOUS
<1>2. PICK p : p = rd[l].now
  OBVIOUS
<1>3. PICK h : h = disk[a].recs[p + 1]
  OBVIOUS
<1>4. /\ Types /\ Kinds(K) /\ DiskKinds(K) /\ Once(K) /\ Pointers(K) /\ Apart /\ Texts /\ Reading
      /\ Alone /\ Kept /\ Taking /\ Limit
  BY DEF KInv, Kinds, Rest
<1>5. /\ rd \in [Logins -> ReaderStates] /\ rd[l] \in ReaderStates /\ disk \in Seq(Inodes)
      /\ Len(disk) \in Nat /\ took \subseteq Nat \X Logins \X Logins
      /\ name \in [Files -> 0..Len(disk)]
  BY <1>4, LenProperties DEF Types
<1>6. /\ rd[l].pc = "bump"
      /\ took' = took \cup {<<h.m, h.to, l>>}
      /\ again' = (again \/ \E x \in took : x[1] = h.m)
      /\ UNCHANGED <<name, alive, flag, msg_count, sd, mail, sent, asks, own,
                     overlap, shown, disposed, raced, unsig>>
  BY <1>1, <1>2, <1>3 DEF Bump
<1>7. /\ a \in 1..Len(disk) /\ K[a] = "msgindex2" /\ p \in 0..Len(disk[a].recs) - 1
      /\ Len(disk[a].recs) \in Nat
  <2>1. a \in 1..Len(disk) /\ K[a] = "msgindex2" /\ p \in 0..Len(disk[a].recs) - 1
    BY <1>1, <1>2, <1>4, <1>6 DEF Kinds, ReaderKinds
  <2> QED BY <1>4, <2>1, RecordAt
<1>8. p \in Nat /\ p + 1 \in 1..Len(disk[a].recs) /\ disk[a] \in Inodes /\ h \in Heads
  <2>1. p \in Nat /\ p + 1 \in 1..Len(disk[a].recs) /\ disk[a] \in Inodes
    BY <1>5, <1>7
  <2> QED BY <1>3, <1>4, <1>7, <2>1, RecordAt
<1>9. /\ disk' \in Seq(Inodes) /\ Len(disk') = Len(disk)
      /\ disk'[a].first = p + 1 /\ disk'[a].recs = disk[a].recs
      /\ \A i \in 1..Len(disk) : i # a => disk'[i] = disk[i]
  <2>1. PICK v : v = [disk[a] EXCEPT !.first = p + 1]
    OBVIOUS
  <2>2. v \in Inodes /\ v.first = p + 1 /\ v.recs = disk[a].recs
    BY <1>8, <2>1 DEF Inodes
  <2>3. disk' = [disk EXCEPT ![a] = v]
    BY <1>1, <1>2, <1>5, <1>7, <1>8, <2>1 DEF Bump, Inodes
  <2> QED BY <1>5, <1>7, <2>2, <2>3, OneInode
<1>10. \A i \in 1..Len(disk) : disk'[i].recs = disk[i].recs
  BY <1>9
<1>11. /\ rd' \in [Logins -> ReaderStates]
       /\ /\ rd'[l].pc = "head" /\ rd'[l].now = p /\ rd'[l].count = rd[l].count
          /\ rd'[l].cleared = rd[l].cleared /\ rd'[l].other = rd[l].other
       /\ \A k \in Logins : k # l =>
            /\ rd'[k].pc = rd[k].pc /\ rd'[k].now = rd[k].now /\ rd'[k].count = rd[k].count
            /\ rd'[k].fd = rd[k].fd /\ rd'[k].cleared = rd[k].cleared /\ rd'[k].head = rd[k].head
            /\ rd'[k].pc # "idle" => rd'[k].other
  <2>1. rd' = [k \in Logins |-> IF k = l THEN [rd[l] EXCEPT !.pc = "head"]
                                ELSE [rd[k] EXCEPT !.other = rd[k].pc # "idle"]]
    BY DEF Bump
  <2>2. PICK y : y = [rd[l] EXCEPT !.pc = "head"]
    OBVIOUS
  <2>3. /\ y \in ReaderStates /\ y.pc = "head" /\ y.now = p /\ y.count = rd[l].count
        /\ y.cleared = rd[l].cleared /\ y.other = rd[l].other
    BY <1>2, <1>5, <2>2 DEF ReaderStates
  <2>4. rd'[l] = y
    BY <2>1, <2>2
  <2>5. ASSUME NEW k \in Logins, k # l
        PROVE  /\ rd'[k] \in ReaderStates
               /\ rd'[k].pc = rd[k].pc /\ rd'[k].now = rd[k].now /\ rd'[k].count = rd[k].count
               /\ rd'[k].fd = rd[k].fd /\ rd'[k].cleared = rd[k].cleared /\ rd'[k].head = rd[k].head
               /\ rd'[k].pc # "idle" => rd'[k].other
    <3>1. rd[k] \in ReaderStates /\ rd'[k] = [rd[k] EXCEPT !.other = rd[k].pc # "idle"]
      BY <1>5, <2>1, <2>5
    <3> QED BY <3>1 DEF ReaderStates
  <2>6. rd' \in [Logins -> ReaderStates]
    <3>1. \A k \in Logins : rd'[k] \in ReaderStates
      BY <2>3, <2>4, <2>5
    <3>2. rd' = [k \in Logins |-> rd'[k]]
      BY <2>1
    <3> QED BY <3>1, <3>2
  <2> QED BY <2>3, <2>4, <2>5, <2>6
<1>12. Types'
  <2>1. took' \subseteq Nat \X Logins \X Logins
    BY <1>5, <1>6, <1>8 DEF Heads, Numbers
  <2>2. again' \in BOOLEAN
    BY <1>4, <1>6 DEF Types
  <2> QED BY <1>4, <1>6, <1>9, <1>11, <2>1, <2>2 DEF Types
<1>13. Kinds(K)'
  <2>1. DiskKinds(K)'
    BY <1>4, <1>6, <1>7, <1>9 DEF DiskKinds
  <2>2. \A s \in Senders : SenderKinds(K, sd[s])'
    BY <1>4, <1>6, <1>9 DEF Kinds, SenderKinds
  <2>3. \A k \in Logins : ReaderKinds(K, rd[k])'
    BY <1>4, <1>9, <1>10, <1>11, SMTT(40) DEF Kinds, ReaderKinds
  <2> QED BY <2>1, <2>2, <2>3 DEF Kinds
<1>14. Once(K)'
  BY <1>4, <1>6, <1>9, <1>10, SameRecsOnce
<1>15. Pointers(K)'
  <2>1. \A m : IsTaken(m) => IsTaken(m)'
    BY <1>6 DEF IsTaken
  <2>2. IsTaken(h.m)'
    <3>1. <<h.m, h.to, l>> \in took' /\ <<h.m, h.to, l>>[1] = h.m
      BY <1>6
    <3> QED BY <3>1 DEF IsTaken
  <2>3. \A k \in 1..p + 1 : IsTaken(disk[a].recs[k].m)'
    <3>1. \A k \in 1..p : IsTaken(disk[a].recs[k].m)
      BY <1>1, <1>2, <1>4, <1>6 DEF Pointers, PointersOf
    <3>2. \A k \in 1..p + 1 : k \in 1..p \/ k = p + 1
      BY <1>8
    <3> QED BY <1>3, <1>10, <1>7, <2>1, <2>2, <3>1, <3>2 DEF IsTaken
  <2>4. ASSUME NEW i \in 1..Len(disk')
        PROVE  (disk[i].first <= Len(disk[i].recs))' /\ \A k \in 1..disk'[i].first : IsTaken(disk[i].recs[k].m)'
    <3>1. CASE i = a
      BY <1>8, <1>9, <2>3, <3>1
    <3>2. CASE i # a
      <4>1. disk'[i] = disk[i] /\ i \in 1..Len(disk)
        BY <1>9, <2>4, <3>2
      <4>2. disk[i].first <= Len(disk[i].recs) /\ \A k \in 1..disk[i].first : IsTaken(disk[i].recs[k].m)
        BY <1>4, <4>1 DEF Pointers
      <4> QED BY <2>1, <4>1, <4>2 DEF IsTaken
    <3> QED BY <3>1, <3>2
  <2>5. ASSUME NEW k \in Logins PROVE PointersOf(rd[k])'
    <3>1. CASE rd'[k].pc = "bump"
      <4>1. rd[k].pc = "bump" /\ rd'[k].fd = rd[k].fd /\ rd'[k].now = rd[k].now
        BY <1>11, <3>1
      <4>2. rd[k].fd \in 1..Len(disk)
        BY <1>4, <4>1 DEF Kinds, ReaderKinds
      <4>3. disk'[rd'[k].fd].recs = disk[rd[k].fd].recs
        BY <1>10, <4>1, <4>2
      <4>4. \A j \in 1..rd[k].now : IsTaken(disk[rd[k].fd].recs[j].m)
        BY <1>4, <4>1 DEF Pointers, PointersOf
      <4> QED BY <2>1, <4>1, <4>3, <4>4 DEF PointersOf, IsTaken
    <3>2. CASE rd'[k].pc # "bump"
      BY <3>2 DEF PointersOf
    <3> QED BY <3>1, <3>2
  <2>6. ASSUME ~overlap
        PROVE  /\ ~again'
               /\ \A k \in Logins : rd'[k].pc = "bump" => disk'[rd'[k].fd].first = rd'[k].now
               /\ \A j, k \in Logins :
                    rd'[j].pc = "bump" /\ rd'[k].pc = "bump" /\ rd'[j].fd = rd'[k].fd => j = k
               /\ \A x \in took' : \E i \in 1..Len(disk') :
                    K[i] = "msgindex2" /\ \E k \in 1..disk'[i].first : disk'[i].recs[k].m = x[1]
    <3>1. disk[a].first = p
      BY <1>1, <1>2, <1>4, <1>6, <2>6 DEF Pointers
    <3>2. \A x \in took : \E i \in 1..Len(disk) :
            K[i] = "msgindex2" /\ \E k \in 1..disk[i].first : disk[i].recs[k].m = x[1]
      BY <1>4, <2>6 DEF Pointers
    <3>3. ASSUME NEW x \in took, x[1] = h.m PROVE FALSE
      <4>1. PICK i \in 1..Len(disk) :
              K[i] = "msgindex2" /\ \E k \in 1..disk[i].first : disk[i].recs[k].m = h.m
        BY <3>2, <3>3
      <4>2. PICK k \in 1..disk[i].first : disk[i].recs[k].m = h.m
        BY <4>1
      <4>3. disk[i].first <= Len(disk[i].recs) /\ disk[i].first \in Nat /\ Len(disk[i].recs) \in Nat
        <5>1. disk[i] \in Inodes
          BY <1>5
        <5> QED BY <1>4, <4>1, <5>1, RecordAt DEF Pointers, Inodes
      <4>4. k \in 1..Len(disk[i].recs)
        BY <4>3
      <4>5. i = a /\ k = p + 1
        <5>1. disk[i].recs[k].m = disk[a].recs[p + 1].m
          BY <1>3, <4>2
        <5> QED BY <1>4, <1>7, <1>8, <4>1, <4>4, <5>1, SMTT(40) DEF Once, Listed
      <4> QED BY <1>8, <3>1, <4>2, <4>5
    <3>4. ~again'
      BY <1>4, <1>6, <2>6, <3>3 DEF Pointers
    <3>5. \A k \in Logins : rd'[k].pc = "bump" => k # l /\ rd[k].pc = "bump" /\ rd'[k].fd = rd[k].fd
                                                  /\ rd'[k].now = rd[k].now
      BY <1>11
    <3>6. \A j, k \in Logins :
            rd[j].pc = "bump" /\ rd[k].pc = "bump" /\ rd[j].fd = rd[k].fd => j = k
      BY <1>4, <2>6 DEF Pointers
    <3>7. \A k \in Logins : rd'[k].pc = "bump" => disk'[rd'[k].fd].first = rd'[k].now
      <4> SUFFICES ASSUME NEW k \in Logins, rd'[k].pc = "bump"
                   PROVE  disk'[rd'[k].fd].first = rd'[k].now
        OBVIOUS
      <4>1. rd[k].fd # a
        BY <1>1, <1>6, <3>5, <3>6
      <4>2. rd[k].fd \in 1..Len(disk) /\ disk[rd[k].fd].first = rd[k].now
        BY <1>4, <2>6, <3>5 DEF Pointers, Kinds, ReaderKinds
      <4> QED BY <1>9, <3>5, <4>1, <4>2
    <3>8. \A j, k \in Logins :
            rd'[j].pc = "bump" /\ rd'[k].pc = "bump" /\ rd'[j].fd = rd'[k].fd => j = k
      BY <3>5, <3>6
    <3>9. ASSUME NEW x \in took'
          PROVE  \E i \in 1..Len(disk') :
                   K[i] = "msgindex2" /\ \E k \in 1..disk'[i].first : disk'[i].recs[k].m = x[1]
      <4>1. CASE x \in took
        <5>1. PICK i \in 1..Len(disk) :
                K[i] = "msgindex2" /\ \E k \in 1..disk[i].first : disk[i].recs[k].m = x[1]
          BY <3>2, <4>1
        <5>2. PICK k \in 1..disk[i].first : disk[i].recs[k].m = x[1]
          BY <5>1
        <5>3. k \in 1..disk'[i].first
          BY <1>8, <1>9, <3>1, <5>2
        <5> QED BY <1>9, <1>10, <5>1, <5>2, <5>3
      <4>2. CASE x = <<h.m, h.to, l>>
        <5>1. p + 1 \in 1..disk'[a].first /\ disk'[a].recs[p + 1].m = x[1]
          BY <1>3, <1>8, <1>9, <4>2
        <5> QED BY <1>7, <1>9, <5>1
      <4> QED BY <1>6, <3>9, <4>1, <4>2
    <3> QED BY <3>4, <3>7, <3>8, <3>9
  <2>7. overlap' = overlap
    BY <1>6
  <2> QED BY <2>4, <2>5, <2>6, <2>7 DEF Pointers
<1>16. \A g \in Files : name[g] # 0 => name[g] \in 1..Len(disk)
  BY <1>5
<1>17. \A g \in Files : name[g] # 0 => disk'[name[g]].recs = disk[name[g]].recs
  BY <1>10, <1>16
<1>18. \A m : \A g \in Files : InFile(m, g)' <=> InFile(m, g)
  BY <1>6, <1>17 DEF InFile, get_msgcount, Recs
<1>19. Apart'
  <2>1. InProgress' = InProgress
    BY <1>6 DEF InProgress
  <2>2. ASSUME NEW s \in Senders PROVE ApartOf(sd[s])'
    <3>1. ApartOf(sd[s]) /\ SenderKinds(K, sd[s])
      BY <1>4 DEF Apart, Kinds
    <3>2. sd[s].pc \in {"write", "text"} => disk'[sd[s].fd2].recs = disk[sd[s].fd2].recs
      BY <1>10, <3>1 DEF SenderKinds
    <3>3. InFile(sd[s].m, "msgindex")' <=> InFile(sd[s].m, "msgindex")
      BY <1>6, <1>18 DEF Files, InFile
    <3> QED BY <1>6, <3>1, <3>2, <3>3 DEF ApartOf
  <2> QED BY <1>4, <1>6, <2>1, <2>2 DEF Apart
<1>20. Texts'
  <2>1. \A m, pos : Text(m, pos) => Text(m, pos)'
    BY <1>6, <1>17 DEF Text, Files
  <2>2. \A x : HeadText(x) => HeadText(x)'
    BY <1>6, <2>1 DEF HeadText
  <2>3. \A s \in Senders : SenderText(sd[s])'
    BY <1>4, <1>6, <2>1 DEF Texts, SenderText
  <2>4. name'["msgindex2"] # 0 => \A k \in 1..Len(disk'[name'["msgindex2"]].recs) :
                                    HeadText(disk[name["msgindex2"]].recs[k])'
    <3> SUFFICES ASSUME name["msgindex2"] # 0, NEW k \in 1..Len(disk[name["msgindex2"]].recs)
                 PROVE  HeadText(disk[name["msgindex2"]].recs[k])'
      BY <1>6, <1>17 DEF Files
    <3>1. HeadText(disk[name["msgindex2"]].recs[k])
      BY <1>4 DEF Texts
    <3>2. disk'[name["msgindex2"]].recs[k] = disk[name["msgindex2"]].recs[k]
      BY <1>17 DEF Files
    <3> QED BY <1>6, <2>2, <3>1, <3>2 DEF HeadText
  <2> QED BY <1>4, <1>6, <2>3, <2>4 DEF Texts, TextMatches
<1>21. Index2'.recs = Index2.recs \/ name["msgindex2"] = 0
  BY <1>6, <1>17 DEF Index2, Files
<1>22. ReadingOf(l, rd[l]) /\ AloneOf(rd[l])
  BY <1>4 DEF Reading, Alone
<1>23. ~rd[l].cleared => a = name["msgindex2"] /\ a # 0
  BY <1>1, <1>6, <1>5, <1>7, <1>22 DEF ReadingOf
<1>24. Reading'
  <2>1. ASSUME NEW k \in Logins, k # l PROVE ReadingOf(k, rd[k])'
    <3>1. ReadingOf(k, rd[k])
      BY <1>4 DEF Reading
    <3>2. /\ rd'[k].pc = rd[k].pc /\ rd'[k].now = rd[k].now /\ rd'[k].count = rd[k].count
          /\ rd'[k].fd = rd[k].fd /\ rd'[k].cleared = rd[k].cleared /\ rd'[k].head = rd[k].head
          /\ rd[k] \in ReaderStates
      BY <1>5, <1>11, <2>1
    <3>3. CASE name["msgindex2"] # 0
      BY <1>6, <1>21, <3>1, <3>2, <3>3 DEF ReadingOf
    <3>4. CASE name["msgindex2"] = 0
      <4>1. ReaderKinds(K, rd[k])
        BY <1>4 DEF Kinds
      <4>2. rd[k].count \in Nat
        BY <3>2 DEF ReaderStates
      <4> QED BY <1>5, <1>6, <3>1, <3>2, <3>4, <4>1, <4>2 DEF ReadingOf, ReaderKinds
    <3> QED BY <3>3, <3>4
  <2>2. ReadingOf(l, rd[l])'
    <3>1. p < Len(disk[a].recs) /\ p >= 0
      BY <1>7
    <3>2. ~rd[l].cleared => p < Len(Index2'.recs) /\ name["msgindex2"] # 0
                            /\ Index2'.recs = Index2.recs
      BY <1>6, <1>9, <1>21, <1>23, <3>1 DEF Index2
    <3> QED BY <1>2, <1>6, <1>11, <1>22, <3>1, <3>2 DEF ReadingOf
  <2> QED BY <2>1, <2>2 DEF Reading
<1>25. Alone'
  <2>1. ASSUME NEW k \in Logins, k # l PROVE AloneOf(rd[k])'
    BY <1>11, <2>1 DEF AloneOf
  <2>2. AloneOf(rd[l])'
    <3>1. ~rd[l].other => ~rd[l].cleared
      BY <1>6, <1>22 DEF AloneOf
    <3>2. ~rd[l].other => Index2'.first = p + 1
      BY <1>6, <1>9, <1>23, <3>1 DEF Index2
    <3> QED BY <1>11, <3>1, <3>2 DEF AloneOf
  <2> QED BY <2>1, <2>2 DEF Alone
<1>26. Kept'
  <2>1. Accepted' = Accepted
    BY <1>6 DEF Accepted, ToNotify
  <2>2. \A m : (InFile(m, "msgindex")' <=> InFile(m, "msgindex"))
               /\ (InFile(m, "msgindex2")' <=> InFile(m, "msgindex2"))
    BY <1>18 DEF Files
  <2>3. AcceptedKept'
    BY <1>4, <1>6, <2>1, <2>2 DEF Kept, AcceptedKept
  <2> QED BY <1>4, <1>6, <2>1, <2>3 DEF Kept
<1>27. Taking'
  <2>1. ASSUME mail.runs = 0, NEW x \in took', x[3] = x[2], x[2] \in Telnet \cap alive
        PROVE  IsShown(x[2], x[1])' \/ Pending(x[2], x[1])'
    <3>1. CASE x = <<h.m, h.to, l>>
      <4>1. h.to = l /\ x[2] = l /\ x[1] = h.m
        BY <2>1, <3>1
      <4>2. ~rd[l].cleared
        BY <1>4, <2>1 DEF Taking
      <4>3. Index2'.recs = disk[a].recs /\ name'["msgindex2"] # 0
        BY <1>6, <1>9, <1>23, <4>2 DEF Index2
      <4>4. Pending(l, h.m)'
        BY <1>3, <1>7, <1>8, <1>11, <4>1, <4>3 DEF Pending
      <4> QED BY <4>1, <4>4
    <3>2. CASE x \in took
      <4>1. IsShown(x[2], x[1]) \/ Pending(x[2], x[1])
        BY <1>4, <2>1, <3>2 DEF Taking
      <4>2. IsShown(x[2], x[1]) => IsShown(x[2], x[1])'
        BY <1>6 DEF IsShown
      <4>3. ASSUME NEW k \in Logins, NEW m, Pending(k, m) PROVE Pending(k, m)'
        <5>1. k # l /\ name["msgindex2"] # 0
          BY <1>6, <4>3 DEF Pending
        <5> QED BY <1>6, <1>11, <1>21, <4>3, <5>1 DEF Pending
      <4>4. x[2] \in Logins
        BY <2>1 DEF Logins
      <4>5. Pending(x[2], x[1]) => Pending(x[2], x[1])'
        BY <1>6, <4>3, <4>4
      <4> QED BY <4>1, <4>2, <4>5
    <3> QED BY <1>6, <2>1, <3>1, <3>2
  <2>2. mail.runs = 0 => mail.pc = "idle" /\ \A k \in Logins : ~rd'[k].cleared
    BY <1>4, <1>11 DEF Taking
  <2>3. mail' = mail /\ alive' = alive
    BY <1>6
  <2> QED BY <2>1, <2>2, <2>3 DEF Taking
<1>28. Limit'
  <2>1. UnderWay' = UnderWay /\ overlap' = overlap
    BY <1>6 DEF UnderWay
  <2>2. CASE overlap
    BY <2>1, <2>2 DEF Limit
  <2>3. CASE ~overlap
    <3>1. disk[a].first = p
      BY <1>1, <1>2, <1>4, <1>6, <2>3 DEF Pointers
    <3>2. UnreadLimited' \subseteq UnreadLimited
      <4>1. CASE name["msgindex2"] = 0
        BY <1>6, <4>1 DEF UnreadLimited
      <4>2. CASE name["msgindex2"] # 0 /\ name["msgindex2"] # a
        <5>1. disk'[name["msgindex2"]] = disk[name["msgindex2"]]
          BY <1>9, <1>16, <4>2 DEF Files
        <5> QED BY <1>6, <4>2, <5>1 DEF UnreadLimited, Limited, Recs
      <4>3. CASE name["msgindex2"] = a
        <5>1. a # 0 /\ Len(disk[a].recs) \in Nat
          BY <1>5, <1>7
        <5>2. UnreadLimited = {k \in p + 1 .. Len(disk[a].recs) : Limited(disk[a].recs[k])}
          BY <3>1, <4>3, <5>1 DEF UnreadLimited, Recs
        <5>3. UnreadLimited' = {k \in p + 1 + 1 .. Len(disk[a].recs) : Limited(disk[a].recs[k])}
          BY <1>6, <1>9, <4>3, <5>1 DEF UnreadLimited, Recs, Limited
        <5>4. p + 1 + 1 .. Len(disk[a].recs) \subseteq p + 1 .. Len(disk[a].recs)
          BY <1>8, <5>1
        <5> QED BY <5>2, <5>3, <5>4
      <4> QED BY <4>1, <4>2, <4>3
    <3>3. IsFiniteSet(UnreadLimited) /\ Cardinality(UnreadLimited) \in Nat
      BY <1>4, UnreadFinite
    <3>4. Cardinality(UnreadLimited') <= Cardinality(UnreadLimited) /\ Cardinality(UnreadLimited') \in Nat
      BY <3>2, <3>3, FS_Subset, FS_CardinalityType
    <3>5. Cardinality(UnderWay) \in Nat /\ MAXMESSAGE \in Nat /\ Cardinality(Senders) \in Nat
      <4>1. UnderWay \in SUBSET Senders
        BY DEF UnderWay
      <4> QED BY <4>1, Finite, MsgAssumption
    <3> QED BY <1>4, <2>1, <2>3, <3>3, <3>4, <3>5 DEF Limit
  <2> QED BY <2>2, <2>3
<1> QED BY <1>12, <1>13, <1>14, <1>15, <1>19, <1>20, <1>24, <1>25, <1>26, <1>27, <1>28 DEF KInv, Rest

-----------------------------------------------------------------------------
(* Senders that write. *)

\* The record a sender appends is the head of its message.
LEMMA HeadOfFacts ==
  ASSUME NEW K, Types, Once(K), NEW s \in Senders, sd[s].pc \in Unsaved
  PROVE  /\ HeadOf(s) \in Heads /\ HeadOf(s).m = sd[s].m /\ HeadOf(s).to = sd[s].to
         /\ HeadOf(s).mode = sd[s].mode /\ HeadOf(s).pos = sd[s].size
         /\ sd[s].m \in Numbers /\ sd[s].m <= sent
<1>1. sd[s] \in SenderStates /\ sd[s].m <= sent
  BY DEF Types
<1>2. sd[s].m # 0 /\ sd[s].to \in Logins /\ sd[s].mode \in Modes
  BY DEF Once, OnceOf
<1> QED BY <1>1, <1>2 DEF SenderStates, HeadOf, Heads, Numbers

\* The head is appended to the list: it was not in it, and its text is in place.
LEMMA AppendIndex2Inv ==
  ASSUME NEW K, KInv(K), NEW s \in Senders, AppendIndex2(s)
  PROVE  KInv(K)'
<1>1. PICK a : a = sd[s].fd
  OBVIOUS
<1>2. PICK m : m = sd[s].m
  OBVIOUS
<1>3. PICK h : h = HeadOf(s)
  OBVIOUS
<1>4. PICK n : n = Len(disk[a].recs)
  OBVIOUS
<1>5. /\ Types /\ Kinds(K) /\ DiskKinds(K) /\ Once(K) /\ Pointers(K) /\ Apart /\ Texts /\ Reading
      /\ Alone /\ Kept /\ Taking /\ Limit
  BY DEF KInv, Kinds, Rest
<1>6. /\ sd \in [Senders -> SenderStates] /\ sd[s] \in SenderStates /\ disk \in Seq(Inodes)
      /\ Len(disk) \in Nat /\ name \in [Files -> 0..Len(disk)] /\ rd \in [Logins -> ReaderStates]
  BY <1>5, LenProperties DEF Types
<1>7. /\ sd[s].pc = "append2" /\ ~ReadLocked(a)
      /\ UNCHANGED <<name, alive, flag, msg_count, rd, mail, sent, asks, own, ghosts>>
      /\ UNCHANGED <<took, again, overlap, shown, disposed, raced, unsig>>
  BY <1>1 DEF AppendIndex2, ghosts
<1>8. /\ h \in Heads /\ h.m = m /\ h.to = sd[s].to /\ h.mode = sd[s].mode /\ h.pos = sd[s].size
      /\ m \in Numbers /\ m <= sent
  BY <1>2, <1>3, <1>5, <1>7, HeadOfFacts DEF Unsaved
<1>9. a \in 1..Len(disk) /\ K[a] = "msgindex2" /\ a # 0
  BY <1>1, <1>5, <1>6, <1>7 DEF Kinds, SenderKinds
<1>10. disk[a].recs \in Seq(Heads) /\ disk[a] \in Inodes /\ n \in Nat /\ disk[a].first \in Nat
  <2>1. disk[a] \in Inodes
    BY <1>6, <1>9
  <2> QED BY <1>4, <1>5, <1>9, <2>1, LenProperties DEF DiskKinds, Inodes
<1>11. /\ disk' \in Seq(Inodes) /\ Len(disk') = Len(disk)
       /\ disk'[a].first = disk[a].first /\ disk'[a].recs \in Seq(Heads)
       /\ Len(disk'[a].recs) = n + 1 /\ disk'[a].recs[n + 1] = h
       /\ \A k \in 1..n : disk'[a].recs[k] = disk[a].recs[k]
       /\ \A i \in 1..Len(disk) : i # a => disk'[i] = disk[i]
  <2>1. PICK r : r = Append(disk[a].recs, h)
    OBVIOUS
  <2>2. /\ r \in Seq(Heads) /\ Len(r) = n + 1 /\ r[n + 1] = h
        /\ \A k \in 1..n : r[k] = disk[a].recs[k]
    BY <1>4, <1>8, <1>10, <2>1, AppendProperties
  <2>3. PICK v : v = [disk[a] EXCEPT !.recs = r]
    OBVIOUS
  <2>4. v \in Inodes /\ v.first = disk[a].first /\ v.recs = r
    BY <1>10, <2>2, <2>3 DEF Inodes
  <2>5. disk' = [disk EXCEPT ![a] = v]
    BY <1>1, <1>3, <1>6, <1>9, <1>10, <2>1, <2>3 DEF AppendIndex2, Inodes
  <2> QED BY <1>6, <1>9, <2>2, <2>4, <2>5, OneInode
<1>12. PICK y : y = [sd[s] EXCEPT !.pc = "notify"]
  OBVIOUS
<1>13. /\ y \in SenderStates /\ y.pc = "notify" /\ y.m = m /\ y.to = sd[s].to /\ y.mode = sd[s].mode
  BY <1>2, <1>6, <1>12 DEF SenderStates
<1>14. /\ sd' = [sd EXCEPT ![s] = y] /\ sd'[s] = y /\ \A t \in Senders : t # s => sd'[t] = sd[t]
  <2>1. sd' = [sd EXCEPT ![s] = y]
    BY <1>6, <1>12 DEF AppendIndex2, SenderStates
  <2> QED BY <1>6, <2>1
<1>15. \A t \in Senders : t # s /\ sd[t].pc \in Unsaved => sd[t].m # m
  BY <1>2, <1>5, <1>7 DEF Once, Unsaved
\* What a record was it stays.
<1>16. \A i \in 1..Len(disk) : /\ disk'[i].first = disk[i].first
                               /\ Len(disk[i].recs) \in Nat /\ Len(disk'[i].recs) \in Nat
                               /\ Len(disk[i].recs) <= Len(disk'[i].recs)
                               /\ \A k \in 1..Len(disk[i].recs) : disk'[i].recs[k] = disk[i].recs[k]
  <2> SUFFICES ASSUME NEW i \in 1..Len(disk)
               PROVE  /\ disk'[i].first = disk[i].first
                      /\ Len(disk[i].recs) \in Nat /\ Len(disk'[i].recs) \in Nat
                      /\ Len(disk[i].recs) <= Len(disk'[i].recs)
                      /\ \A k \in 1..Len(disk[i].recs) : disk'[i].recs[k] = disk[i].recs[k]
    OBVIOUS
  <2>1. Len(disk[i].recs) \in Nat
    BY <1>5, RecordAt
  <2>2. CASE i = a
    BY <1>4, <1>10, <1>11, <2>2
  <2>3. CASE i # a
    BY <1>11, <2>1, <2>3
  <2> QED BY <2>2, <2>3
<1>17. \A g \in Files : name[g] # 0 => name[g] \in 1..Len(disk) /\ K[name[g]] = g
  BY <1>5, <1>6 DEF DiskKinds
<1>18. \A g \in Files : name[g] # 0 /\ g # "msgindex2" => disk'[name[g]] = disk[name[g]]
  BY <1>9, <1>11, <1>17
<1>19. Types'
  <2>1. sd' \in [Senders -> SenderStates] /\ \A t \in Senders : sd'[t].m <= sent
    BY <1>5, <1>6, <1>8, <1>13, <1>14 DEF Types
  <2> QED BY <1>5, <1>7, <1>11, <2>1 DEF Types
<1>20. Kinds(K)'
  <2>1. DiskKinds(K)'
    BY <1>5, <1>7, <1>9, <1>11 DEF DiskKinds
  <2>2. \A t \in Senders : SenderKinds(K, sd[t])'
    <3>1. \A t \in Senders : SenderKinds(K, sd[t])
      BY <1>5 DEF Kinds
    <3> QED BY <1>11, <1>13, <1>14, <3>1 DEF SenderKinds
  <2>3. ASSUME NEW l \in Logins PROVE ReaderKinds(K, rd[l])'
    <3>1. ReaderKinds(K, rd[l])
      BY <1>5 DEF Kinds
    <3>2. rd[l].pc = "bump" => rd[l].fd # a
      BY <1>7 DEF ReadLocked
    <3> QED BY <1>7, <1>11, <3>1, <3>2 DEF ReaderKinds
  <2> QED BY <2>1, <2>2, <2>3 DEF Kinds
<1>21. Once(K)'
  <2>1. \A i \in 1..Len(disk) : K[i] = "msgindex2" =>
          \A k \in 1..Len(disk[i].recs) : disk[i].recs[k].m # m /\ disk[i].recs[k].m <= sent
    BY <1>2, <1>5, <1>7 DEF Once, OnceOf, Unsaved, NotListed, Listed
  <2>2. ASSUME NEW i \in 1..Len(disk'), K[i] = "msgindex2", NEW k \in 1..Len(disk'[i].recs)
        PROVE  \/ k \in 1..Len(disk[i].recs) /\ disk'[i].recs[k] = disk[i].recs[k]
               \/ i = a /\ k = n + 1 /\ disk'[i].recs[k].m = m
    <3>1. CASE i = a
      <4>1. k \in 1..n + 1
        BY <1>11, <2>2, <3>1
      <4>2. k \in 1..n \/ k = n + 1
        BY <1>10, <4>1
      <4> QED BY <1>4, <1>8, <1>11, <3>1, <4>2
    <3>2. CASE i # a
      BY <1>11, <2>2, <3>2
    <3> QED BY <3>1, <3>2
  <2>3. Listed(K)'
    <3>1. \A i \in 1..Len(disk') : K[i] = "msgindex2" =>
            \A k \in 1..Len(disk'[i].recs) : disk'[i].recs[k].m <= sent'
      <4> SUFFICES ASSUME NEW i \in 1..Len(disk'), K[i] = "msgindex2", NEW k \in 1..Len(disk'[i].recs)
                   PROVE  disk'[i].recs[k].m <= sent
        BY <1>7
      <4> QED BY <1>8, <1>11, <2>1, <2>2
    <3>2. ASSUME NEW i \in 1..Len(disk'), NEW j \in 1..Len(disk'),
                 K[i] = "msgindex2", K[j] = "msgindex2",
                 NEW k \in 1..Len(disk'[i].recs), NEW q \in 1..Len(disk'[j].recs),
                 disk'[i].recs[k].m = disk'[j].recs[q].m
          PROVE  i = j /\ k = q
      <4>1. \/ k \in 1..Len(disk[i].recs) /\ disk'[i].recs[k] = disk[i].recs[k]
            \/ i = a /\ k = n + 1 /\ disk'[i].recs[k].m = m
        BY <2>2, <3>2
      <4>2. \/ q \in 1..Len(disk[j].recs) /\ disk'[j].recs[q] = disk[j].recs[q]
            \/ j = a /\ q = n + 1 /\ disk'[j].recs[q].m = m
        BY <2>2, <3>2
      <4>3. i \in 1..Len(disk) /\ j \in 1..Len(disk)
        BY <1>11, <3>2
      <4>4. CASE k \in 1..Len(disk[i].recs) /\ q \in 1..Len(disk[j].recs)
                 /\ disk'[i].recs[k] = disk[i].recs[k] /\ disk'[j].recs[q] = disk[j].recs[q]
        <5>1. disk[i].recs[k].m = disk[j].recs[q].m
          BY <3>2, <4>4
        <5> QED BY <1>5, <3>2, <4>3, <4>4, <5>1 DEF Once, Listed
      <4>5. CASE i = a /\ k = n + 1 /\ disk'[i].recs[k].m = m
        BY <2>1, <3>2, <4>2, <4>3, <4>5
      <4>6. CASE j = a /\ q = n + 1 /\ disk'[j].recs[q].m = m
        BY <2>1, <3>2, <4>1, <4>3, <4>6
      <4> QED BY <4>1, <4>2, <4>4, <4>5, <4>6
    <3> QED BY <3>1, <3>2 DEF Listed
  <2>4. ASSUME NEW x, x # m, NotListed(K, x) PROVE NotListed(K, x)'
    <3> SUFFICES ASSUME NEW i \in 1..Len(disk'), K[i] = "msgindex2", NEW k \in 1..Len(disk'[i].recs)
                 PROVE  disk'[i].recs[k].m # x
      BY DEF NotListed
    <3> QED BY <1>11, <2>2, <2>4 DEF NotListed
  <2>5. ASSUME NEW t \in Senders PROVE OnceOf(K, sd[t])'
    <3>1. CASE t = s
      <4>1. m # 0
        BY <1>8 DEF Numbers
      <4> QED BY <1>13, <1>14, <3>1, <4>1 DEF OnceOf, Unsaved
    <3>2. CASE t # s
      <4>1. OnceOf(K, sd[t])
        BY <1>5 DEF Once
      <4>2. sd[t].pc \in Unsaved => NotListed(K, sd[t].m)'
        <5>1. PICK x : x = sd[t].m
          OBVIOUS
        <5>2. sd[t].pc \in Unsaved => NotListed(K, x)'
          BY <1>15, <2>4, <3>2, <4>1, <5>1 DEF OnceOf
        <5> QED BY <1>14, <3>2, <5>1, <5>2 DEF NotListed
      <4> QED BY <1>14, <3>2, <4>1, <4>2 DEF OnceOf, NotListed
    <3> QED BY <3>1, <3>2
  <2>6. \A p, t \in Senders :
          sd'[p].pc \in Unsaved /\ sd'[t].pc \in Unsaved /\ sd'[p].m = sd'[t].m => p = t
    BY <1>5, <1>13, <1>14 DEF Once, Unsaved
  <2> QED BY <2>3, <2>5, <2>6 DEF Once
<1>22. Pointers(K)'
  <2>1. took' = took /\ overlap' = overlap /\ again' = again /\ rd' = rd
    BY <1>7
  <2>2. ASSUME NEW i \in 1..Len(disk')
        PROVE  (disk[i].first <= Len(disk[i].recs))' /\ \A k \in 1..disk'[i].first : IsTaken(disk[i].recs[k].m)'
    <3>1. i \in 1..Len(disk) /\ disk[i] \in Inodes
      BY <1>6, <1>11
    <3>2. /\ disk[i].first <= Len(disk[i].recs) /\ disk[i].first \in Nat
          /\ \A k \in 1..disk[i].first : IsTaken(disk[i].recs[k].m)
      BY <1>5, <3>1 DEF Pointers, Inodes
    <3>3. disk'[i].first <= Len(disk'[i].recs)
      BY <1>16, <3>1, <3>2
    <3>4. \A k \in 1..disk'[i].first : disk'[i].recs[k] = disk[i].recs[k]
      <4>1. \A k \in 1..disk[i].first : k \in 1..Len(disk[i].recs)
        BY <1>16, <3>1, <3>2
      <4> QED BY <1>16, <3>1, <4>1
    <3>5. disk'[i].first = disk[i].first
      BY <1>16, <3>1
    <3> QED BY <2>1, <3>2, <3>3, <3>4, <3>5 DEF IsTaken
  <2>3. ASSUME NEW l \in Logins PROVE PointersOf(rd[l])'
    <3>1. CASE rd[l].pc = "bump"
      <4>1. rd[l].fd # a /\ rd[l].fd \in 1..Len(disk)
        BY <1>5, <1>7, <3>1 DEF ReadLocked, Kinds, ReaderKinds
      <4>2. disk'[rd[l].fd] = disk[rd[l].fd]
        BY <1>11, <4>1
      <4>3. \A k \in 1..rd[l].now : IsTaken(disk[rd[l].fd].recs[k].m)
        BY <1>5, <3>1 DEF Pointers, PointersOf
      <4> QED BY <2>1, <4>2, <4>3 DEF PointersOf, IsTaken
    <3>2. CASE rd[l].pc # "bump"
      BY <2>1, <3>2 DEF PointersOf
    <3> QED BY <3>1, <3>2
  <2>4. ASSUME ~overlap
        PROVE  /\ ~again
               /\ \A l \in Logins : rd[l].pc = "bump" => disk'[rd[l].fd].first = rd[l].now
               /\ \A j, k \in Logins :
                    rd[j].pc = "bump" /\ rd[k].pc = "bump" /\ rd[j].fd = rd[k].fd => j = k
               /\ \A x \in took : \E i \in 1..Len(disk') :
                    K[i] = "msgindex2" /\ \E k \in 1..disk'[i].first : disk'[i].recs[k].m = x[1]
    <3>1. \A l \in Logins : rd[l].pc = "bump" => disk'[rd[l].fd].first = rd[l].now
      BY <1>5, <1>16, <2>4 DEF Pointers, Kinds, ReaderKinds
    <3>2. ASSUME NEW x \in took
          PROVE  \E i \in 1..Len(disk') :
                    K[i] = "msgindex2" /\ \E k \in 1..disk'[i].first : disk'[i].recs[k].m = x[1]
      <4>1. PICK i \in 1..Len(disk) :
              K[i] = "msgindex2" /\ \E k \in 1..disk[i].first : disk[i].recs[k].m = x[1]
        BY <1>5, <2>4 DEF Pointers
      <4>2. PICK k \in 1..disk[i].first : disk[i].recs[k].m = x[1]
        BY <4>1
      <4>3. k \in 1..Len(disk[i].recs)
        <5>1. disk[i] \in Inodes /\ disk[i].first <= Len(disk[i].recs)
          BY <1>5, <1>6 DEF Pointers
        <5> QED BY <1>16, <4>2, <5>1 DEF Inodes
      <4>4. i \in 1..Len(disk') /\ k \in 1..disk'[i].first /\ disk'[i].recs[k].m = x[1]
        BY <1>11, <1>16, <4>2, <4>3
      <4> QED BY <4>1, <4>4
    <3> QED BY <1>5, <2>4, <3>1, <3>2 DEF Pointers
  <2> QED BY <2>1, <2>2, <2>3, <2>4 DEF Pointers
<1>23. \A x : InFile(x, "msgindex") => InFile(x, "msgindex")'
  BY <1>7, <1>18 DEF InFile, get_msgcount, Recs, Files
<1>24. \A x : InFile(x, "msgindex2") => InFile(x, "msgindex2")'
  <2> SUFFICES ASSUME NEW x, InFile(x, "msgindex2") PROVE InFile(x, "msgindex2")'
    OBVIOUS
  <2>1. name["msgindex2"] # 0
    <3>1. CASE name["msgindex2"] = 0
      BY <3>1 DEF InFile, get_msgcount, Recs
    <3> QED BY <3>1
  <2>2. PICK k \in 1..Len(disk[name["msgindex2"]].recs) : disk[name["msgindex2"]].recs[k].m = x
    BY <2>1 DEF InFile, get_msgcount, Recs
  <2>3. name["msgindex2"] \in 1..Len(disk)
    BY <1>17, <2>1 DEF Files
  <2>4. /\ k \in 1..Len(disk'[name["msgindex2"]].recs)
        /\ disk'[name["msgindex2"]].recs[k].m = x
    <3>1. PICK i \in 1..Len(disk) : i = name["msgindex2"]
      BY <2>3
    <3>2. k \in 1..Len(disk[i].recs) /\ disk[i].recs[k].m = x
      BY <2>2, <3>1
    <3>3. k \in 1..Len(disk'[i].recs) /\ disk'[i].recs[k] = disk[i].recs[k]
      BY <1>16, <3>2
    <3> QED BY <3>1, <3>2, <3>3
  <2> QED BY <1>7, <2>1, <2>4 DEF InFile, get_msgcount, Recs
<1>25. ApartOf(sd[s])
  BY <1>5 DEF Apart
<1>26. m \notin raced => InFile(m, "msgindex")' /\ a = name["msgindex2"] /\ InFile(m, "msgindex2")'
  <2> SUFFICES ASSUME m \notin raced
               PROVE  InFile(m, "msgindex")' /\ a = name["msgindex2"] /\ InFile(m, "msgindex2")'
    OBVIOUS
  <2>1. InFile(m, "msgindex") /\ a = name["msgindex2"]
    BY <1>1, <1>2, <1>7, <1>25 DEF ApartOf
  <2>2. InFile(m, "msgindex2")'
    <3>1. n + 1 \in 1..Len(disk'[a].recs) /\ disk'[a].recs[n + 1].m = m
      BY <1>8, <1>10, <1>11
    <3> QED BY <1>7, <1>9, <2>1, <3>1 DEF InFile, get_msgcount, Recs
  <2> QED BY <1>23, <2>1, <2>2
<1>27. m \in InProgress /\ InProgress' \subseteq InProgress
  BY <1>2, <1>7, <1>13, <1>14 DEF InProgress, Saving
<1>28. Apart'
  <2>1. ASSUME NEW t \in Senders PROVE ApartOf(sd[t])'
    <3>1. CASE t = s
      BY <1>13, <1>14, <3>1 DEF ApartOf
    <3>2. CASE t # s
      <4>1. ApartOf(sd[t]) /\ SenderKinds(K, sd[t])
        BY <1>5 DEF Apart, Kinds
      <4>2. sd[t].pc \in {"write", "text"} => disk'[sd[t].fd2] = disk[sd[t].fd2]
        BY <1>9, <1>11, <4>1 DEF SenderKinds
      <4>3. InFile(sd[t].m, "msgindex") => InFile(sd[t].m, "msgindex")'
        BY <1>14, <1>23, <3>2 DEF InFile
      <4> QED BY <1>7, <1>14, <3>2, <4>1, <4>2, <4>3 DEF ApartOf
    <3> QED BY <3>1, <3>2
  <2>2. \A p, t \in Senders :
           sd'[p].pc \in {"write", "text"} /\ sd'[t].pc \in {"write", "text"} /\ sd'[p].fd = sd'[t].fd => p = t
    BY <1>5, <1>13, <1>14 DEF Apart
  <2> QED BY <1>5, <1>7, <1>27, <2>1, <2>2 DEF Apart
<1>29. Texts'
  <2>1. ASSUME NEW x, NEW pos, Text(x, pos) PROVE Text(x, pos)'
    <3>1. name["msgcontent"] # 0 /\ disk'[name["msgcontent"]] = disk[name["msgcontent"]]
      BY <1>18, <2>1 DEF Text, Files
    <3> QED BY <1>7, <1>13, <1>14, <2>1, <3>1 DEF Text
  <2>2. \A x : HeadText(x) => HeadText(x)'
    BY <1>7, <2>1 DEF HeadText
  <2>3. ASSUME NEW t \in Senders PROVE SenderText(sd[t])'
    <3>1. CASE t = s
      BY <1>13, <1>14, <3>1 DEF SenderText
    <3>2. CASE t # s
      <4>1. SenderText(sd[t])
        BY <1>5 DEF Texts
      <4> QED BY <1>7, <1>14, <2>1, <3>2, <4>1 DEF SenderText
    <3> QED BY <3>1, <3>2
  <2>4. HeadText(h)
    <3>1. CASE m \in raced
      BY <1>8, <3>1 DEF HeadText
    <3>2. CASE m \notin raced
      <4>1. mail.pc = "idle"
        BY <1>5, <1>27, <3>2 DEF Apart
      <4>2. Text(m, sd[s].size)
        BY <1>2, <1>5, <1>7, <3>2 DEF Texts, SenderText
      <4> QED BY <1>8, <4>1, <4>2 DEF HeadText
    <3> QED BY <3>1, <3>2
  <2>5. ASSUME name["msgindex2"] # 0, NEW k \in 1..Len(disk'[name["msgindex2"]].recs)
        PROVE  HeadText(disk'[name["msgindex2"]].recs[k])
    <3>1. CASE name["msgindex2"] = a
      <4>1. k \in 1..n \/ k = n + 1
        BY <1>10, <1>11, <2>5, <3>1
      <4>2. \A j \in 1..n : HeadText(disk[a].recs[j])
        BY <1>4, <1>5, <2>5, <3>1 DEF Texts
      <4> QED BY <1>11, <2>4, <3>1, <4>1, <4>2
    <3>2. CASE name["msgindex2"] # a
      <4>1. disk'[name["msgindex2"]] = disk[name["msgindex2"]]
        BY <1>11, <1>17, <2>5, <3>2 DEF Files
      <4> QED BY <1>5, <2>5, <4>1 DEF Texts
    <3> QED BY <3>1, <3>2
  <2>6. name'["msgindex2"] # 0 =>
          \A k \in 1..Len(disk'[name'["msgindex2"]].recs) : HeadText(disk[name["msgindex2"]].recs[k])'
    <3> SUFFICES ASSUME name["msgindex2"] # 0, NEW k \in 1..Len(disk'[name["msgindex2"]].recs)
                 PROVE  HeadText(disk[name["msgindex2"]].recs[k])'
      BY <1>7
    <3>1. PICK x : x = disk'[name["msgindex2"]].recs[k]
      OBVIOUS
    <3>2. HeadText(x)'
      BY <2>2, <2>5, <3>1
    <3> QED BY <1>7, <3>1, <3>2 DEF HeadText
  <2> QED BY <1>5, <1>7, <2>3, <2>6 DEF Texts, TextMatches
<1>30. name["msgindex2"] # 0 =>
          /\ Index2'.first = Index2.first
          /\ Len(Index2.recs) \in Nat /\ Len(Index2'.recs) \in Nat
          /\ Len(Index2.recs) <= Len(Index2'.recs)
          /\ \A k \in 1..Len(Index2.recs) : Index2'.recs[k] = Index2.recs[k]
  BY <1>7, <1>16, <1>17 DEF Index2, Files
<1>31. Reading'
  <2>1. ASSUME NEW l \in Logins PROVE ReadingOf(l, rd[l])'
    <3>1. ReadingOf(l, rd[l]) /\ rd[l].count \in Nat /\ rd[l].now \in Int
      BY <1>5, <1>6 DEF Reading, ReaderStates
    <3>2. CASE name["msgindex2"] = 0
      BY <1>7, <3>1, <3>2 DEF ReadingOf
    <3>3. CASE name["msgindex2"] # 0
      <4>1. rd[l].now >= 0 /\ rd[l].now < Len(Index2.recs) =>
              rd[l].now < Len(Index2'.recs)
              /\ Index2'.recs[rd[l].now + 1] = Index2.recs[rd[l].now + 1]
        BY <1>30, <3>1, <3>3
      <4>2. rd[l].count <= Len(Index2.recs) => rd[l].count <= Len(Index2'.recs)
        BY <1>30, <3>1, <3>3
      <4> QED BY <1>7, <3>1, <3>3, <4>1, <4>2 DEF ReadingOf
    <3> QED BY <3>2, <3>3
  <2> QED BY <2>1 DEF Reading
<1>32. Alone'
  <2>1. ASSUME NEW l \in Logins PROVE AloneOf(rd[l])'
    <3>1. AloneOf(rd[l]) /\ ReadingOf(l, rd[l])
      BY <1>5 DEF Reading, Alone
    <3>2. CASE name["msgindex2"] = 0
      BY <1>7, <3>1, <3>2 DEF AloneOf, ReadingOf
    <3>3. CASE name["msgindex2"] # 0
      BY <1>7, <1>30, <3>1, <3>3 DEF AloneOf
    <3> QED BY <3>2, <3>3
  <2> QED BY <2>1 DEF Alone
<1>33. Kept'
  <2>1. Accepted' = Accepted \cup {m}
    <3>1. ToNotify' = ToNotify \cup {s}
      BY <1>13, <1>14 DEF ToNotify
    <3>2. \A t \in ToNotify : sd'[t].m = sd[t].m
      BY <1>7, <1>14 DEF ToNotify
    <3> QED BY <1>7, <1>13, <1>14, <3>1, <3>2 DEF Accepted
  <2>2. \A x \in Accepted \ (raced \cup disposed) : InFile(x, "msgindex") /\ InFile(x, "msgindex2")
    BY <1>5 DEF Kept, AcceptedKept
  <2>3. \A x \in Accepted' \ (raced \cup disposed) : InFile(x, "msgindex")' /\ InFile(x, "msgindex2")'
    BY <1>23, <1>24, <1>26, <2>1, <2>2
  <2>4. mail.pc # "idle" => m \in raced
    BY <1>5, <1>27 DEF Apart
  <2> QED BY <1>5, <1>7, <2>1, <2>3, <2>4 DEF Kept, AcceptedKept
<1>34. Taking'
  <2>1. ASSUME NEW l \in Logins, NEW x, Pending(l, x) PROVE Pending(l, x)'
    <3>1. ReadingOf(l, rd[l]) /\ rd[l].now \in Int
      BY <1>5, <1>6 DEF Reading, ReaderStates
    <3>2. rd[l].now >= 0 /\ name["msgindex2"] # 0 /\ rd[l].now < Len(Index2.recs)
      BY <2>1, <3>1 DEF Pending, ReadingOf
    <3>3. rd[l].now < Len(Index2'.recs) /\ Index2'.recs[rd[l].now + 1] = Index2.recs[rd[l].now + 1]
      BY <1>30, <3>1, <3>2, SMTT(40)
    <3> QED BY <1>7, <2>1, <3>3 DEF Pending
  <2>2. \A l, x : IsShown(l, x) => IsShown(l, x)'
    BY <1>7 DEF IsShown
  <2>3. ASSUME mail.runs = 0, NEW x \in took, x[3] = x[2], x[2] \in Telnet \cap alive
        PROVE  IsShown(x[2], x[1])' \/ Pending(x[2], x[1])'
    <3>1. x[2] \in Logins
      BY <2>3 DEF Logins
    <3>2. IsShown(x[2], x[1]) \/ Pending(x[2], x[1])
      BY <1>5, <2>3 DEF Taking
    <3> QED BY <2>1, <2>2, <3>1, <3>2
  <2> QED BY <1>5, <1>7, <2>3 DEF Taking
<1>35. Limit'
  <2>1. /\ UnderWay \in SUBSET Senders /\ IsFiniteSet(UnderWay) /\ Cardinality(UnderWay) \in Nat
        /\ IsFiniteSet(UnreadLimited) /\ Cardinality(UnreadLimited) \in Nat
        /\ MAXMESSAGE \in Nat /\ Cardinality(Senders) \in Nat
    <3>1. UnderWay \in SUBSET Senders
      BY DEF UnderWay
    <3> QED BY <1>5, <3>1, Finite, UnreadFinite, MsgAssumption
  <2>2. UnderWay' = UnderWay \ {s}
    BY <1>13, <1>14 DEF UnderWay, Unsaved
  <2>3. s \in UnderWay <=> Limited(h)
    BY <1>7, <1>8 DEF UnderWay, Limited, Unsaved
  <2>4. UnreadLimited' \subseteq UnreadLimited \cup {n + 1}
        /\ (~Limited(h) => UnreadLimited' \subseteq UnreadLimited)
    <3>1. CASE name["msgindex2"] = 0
      BY <1>7, <3>1 DEF UnreadLimited
    <3>2. CASE name["msgindex2"] # 0 /\ name["msgindex2"] # a
      <4>1. disk'[name["msgindex2"]] = disk[name["msgindex2"]]
        BY <1>11, <1>17, <3>2 DEF Files
      <4> QED BY <1>7, <3>2, <4>1 DEF UnreadLimited, Limited, Recs
    <3>3. CASE name["msgindex2"] = a
      <4>1. UnreadLimited = {k \in disk[a].first + 1 .. n : Limited(disk[a].recs[k])}
        BY <1>4, <1>9, <3>3 DEF UnreadLimited, Recs
      <4>2. UnreadLimited' = {k \in disk[a].first + 1 .. n + 1 : Limited(disk'[a].recs[k])}
        BY <1>7, <1>9, <1>11, <3>3 DEF UnreadLimited, Recs, Limited
      <4>3. \A k \in disk[a].first + 1 .. n + 1 :
              \/ k \in disk[a].first + 1 .. n /\ disk'[a].recs[k] = disk[a].recs[k]
              \/ k = n + 1 /\ disk'[a].recs[k] = h
        <5> SUFFICES ASSUME NEW k \in disk[a].first + 1 .. n + 1
                     PROVE  \/ k \in disk[a].first + 1 .. n /\ disk'[a].recs[k] = disk[a].recs[k]
                            \/ k = n + 1 /\ disk'[a].recs[k] = h
          OBVIOUS
        <5>1. k = n + 1 \/ (k \in disk[a].first + 1 .. n /\ k \in 1..n)
          BY <1>10
        <5> QED BY <1>11, <5>1
      <4> QED BY <4>1, <4>2, <4>3
    <3> QED BY <3>1, <3>2, <3>3
  <2>5. CASE s \in UnderWay
    <3>1. Cardinality(UnderWay') = Cardinality(UnderWay) - 1
      BY <2>1, <2>2, <2>5, FS_RemoveElement
    <3>2. /\ IsFiniteSet(UnreadLimited \cup {n + 1})
          /\ Cardinality(UnreadLimited \cup {n + 1}) <= Cardinality(UnreadLimited) + 1
          /\ Cardinality(UnreadLimited \cup {n + 1}) \in Nat
      <4>1. IsFiniteSet(UnreadLimited)
        BY <2>1
      <4>2. /\ IsFiniteSet(UnreadLimited \cup {n + 1})
            /\ Cardinality(UnreadLimited \cup {n + 1}) =
                 IF n + 1 \in UnreadLimited THEN Cardinality(UnreadLimited) ELSE Cardinality(UnreadLimited) + 1
        BY <4>1, FS_AddElement
      <4> QED BY <2>1, <4>2
    <3>3. Cardinality(UnreadLimited') <= Cardinality(UnreadLimited \cup {n + 1})
          /\ Cardinality(UnreadLimited') \in Nat
      BY <2>4, <3>2, FS_Subset, FS_CardinalityType
    <3>4. CASE overlap
      BY <1>7, <3>4 DEF Limit
    <3>5. CASE ~overlap
      <4>1. Cardinality(UnreadLimited) + Cardinality(UnderWay) <= MAXMESSAGE + Cardinality(Senders)
        BY <1>5, <3>5 DEF Limit
      <4>2. Cardinality(UnreadLimited') + Cardinality(UnderWay') <= MAXMESSAGE + Cardinality(Senders)
        BY <2>1, <3>1, <3>2, <3>3, <4>1
      <4> QED BY <4>2 DEF Limit
    <3> QED BY <3>4, <3>5
  <2>6. CASE s \notin UnderWay
    <3>1. UnderWay' = UnderWay /\ UnreadLimited' \subseteq UnreadLimited
      BY <2>2, <2>3, <2>4, <2>6
    <3>2. Cardinality(UnreadLimited') <= Cardinality(UnreadLimited) /\ Cardinality(UnreadLimited') \in Nat
      BY <2>1, <3>1, FS_Subset, FS_CardinalityType
    <3> QED BY <1>5, <1>7, <2>1, <3>1, <3>2 DEF Limit
  <2> QED BY <2>5, <2>6
<1> QED BY <1>19, <1>20, <1>21, <1>22, <1>28, <1>29, <1>31, <1>32, <1>33, <1>34, <1>35 DEF KInv, Rest

\* The text is written where msgcontent ended, or over what came since.
LEMMA WriteAtFacts ==
  ASSUME NEW recs \in Seq(Nat), NEW pos \in Nat, pos <= Len(recs), NEW m \in Nat
  PROVE  LET r == WriteAt(recs, pos, m) IN
         /\ r \in Seq(Nat) /\ Len(r) \in Nat /\ Len(recs) <= Len(r) /\ pos < Len(r)
         /\ r[pos + 1] = m
         /\ \A k \in 1..Len(recs) : k # pos + 1 => r[k] = recs[k]
<1>1. Len(recs) \in Nat
  BY LenProperties
<1>2. CASE pos < Len(recs)
  <2>1. pos + 1 \in 1..Len(recs)
    BY <1>1, <1>2
  <2>2. WriteAt(recs, pos, m) = [recs EXCEPT ![pos + 1] = m]
    BY <1>2 DEF WriteAt, ReplaceAt
  <2> QED BY <1>1, <1>2, <2>1, <2>2, ExceptSeq
<1>3. CASE pos = Len(recs)
  <2>1. WriteAt(recs, pos, m) = Append(recs, m)
    BY <1>1, <1>3 DEF WriteAt
  <2> QED BY <1>1, <1>3, <2>1, AppendProperties
<1> QED BY <1>1, <1>2, <1>3

\* What writing to msgindex or msgcontent leaves as it was: all but Apart and Texts, which are about these files.
LEMMA WriteRest ==
  ASSUME NEW K, KInv(K), NEW s \in Senders, NEW y \in SenderStates,
         sd[s].pc \in {"write", "text"}, y.pc \in {"text", "open2"}, sd' = [sd EXCEPT ![s] = y],
         y.m = sd[s].m, y.to = sd[s].to, y.mode = sd[s].mode, y.fd = sd[s].fd, y.fd2 = sd[s].fd2,
         UNCHANGED <<name, alive, flag, msg_count, rd, mail, sent, asks, own>>,
         UNCHANGED <<took, again, overlap, shown, disposed, raced, unsig>>,
         disk' \in Seq(Inodes), Len(disk') = Len(disk),
         \A i \in 1..Len(disk) :
           /\ disk'[i].first = disk[i].first
           /\ K[i] = "msgindex2" => disk'[i] = disk[i]
           /\ K[i] = "msgindex" => disk'[i].recs \in Seq(Heads)
           /\ K[i] = "msgcontent" => disk'[i].recs \in Seq(Nat),
         \A x : InFile(x, "msgindex") => InFile(x, "msgindex")'
  PROVE  /\ Types' /\ Kinds(K)' /\ Once(K)' /\ Pointers(K)' /\ Reading' /\ Alone' /\ Kept' /\ Taking' /\ Limit'
         /\ InProgress' = InProgress
<1>1. /\ Types /\ Kinds(K) /\ DiskKinds(K) /\ Once(K) /\ Pointers(K) /\ Apart /\ Texts /\ Reading
      /\ Alone /\ Kept /\ Taking /\ Limit
  BY DEF KInv, Kinds, Rest
<1>2. /\ sd \in [Senders -> SenderStates] /\ sd[s] \in SenderStates /\ disk \in Seq(Inodes)
      /\ Len(disk) \in Nat /\ name \in [Files -> 0..Len(disk)] /\ rd \in [Logins -> ReaderStates]
  BY <1>1, LenProperties DEF Types
<1>3. /\ UNCHANGED <<name, alive, flag, msg_count, rd, mail, sent, asks, own>>
      /\ UNCHANGED <<took, again, overlap, shown, disposed, raced, unsig>>
  OBVIOUS
<1>4. sd' = [sd EXCEPT ![s] = y] /\ sd'[s] = y /\ \A t \in Senders : t # s => sd'[t] = sd[t]
  BY <1>2
<1>5. \A t \in Senders : /\ sd'[t].m = sd[t].m
                         /\ sd'[t].to = sd[t].to /\ sd'[t].mode = sd[t].mode
                         /\ sd'[t].pc \in Unsaved <=> sd[t].pc \in Unsaved
                         /\ sd'[t].pc \in Saving <=> sd[t].pc \in Saving
                         /\ sd'[t].pc = "notify" <=> sd[t].pc = "notify"
  BY <1>4 DEF Unsaved, Saving
<1>6. InProgress' = InProgress /\ UnderWay' = UnderWay /\ Accepted' = Accepted
  <2>1. InProgress' = InProgress
    BY <1>5 DEF InProgress, Saving
  <2>2. UnderWay' = UnderWay
    BY <1>5 DEF UnderWay, Unsaved
  <2>3. ToNotify' = ToNotify
    BY <1>5 DEF ToNotify
  <2>4. \A t \in ToNotify : sd'[t].m = sd[t].m
    BY <1>5 DEF ToNotify
  <2> QED BY <1>3, <2>1, <2>2, <2>3, <2>4 DEF Accepted
<1>7. disk' \in Seq(Inodes) /\ Len(disk') = Len(disk)
  OBVIOUS
<1>8. \A i \in 1..Len(disk) : K[i] = "msgindex2" => disk'[i] = disk[i]
  OBVIOUS
<1>9. \A g \in Files : name[g] # 0 => name[g] \in 1..Len(disk) /\ K[name[g]] = g
  BY <1>1, <1>2 DEF DiskKinds
<1>10. name["msgindex2"] # 0 => disk'[name["msgindex2"]] = disk[name["msgindex2"]]
  BY <1>8, <1>9 DEF Files
<1>11. \A i \in 1..Len(disk) : disk'[i].first = disk[i].first
  OBVIOUS
<1>12. Types'
  <2>1. sd' \in [Senders -> SenderStates] /\ \A t \in Senders : sd'[t].m <= sent
    BY <1>1, <1>2, <1>4, <1>5 DEF Types
  <2> QED BY <1>1, <1>3, <1>7, <2>1 DEF Types
<1>13. Kinds(K)'
  <2>1. DiskKinds(K)'
    <3>1. \A i \in 1..Len(disk') :
            /\ K[i] = "msgcontent" => disk'[i].recs \in Seq(Nat)
            /\ K[i] # "msgcontent" => disk'[i].recs \in Seq(Heads)
            /\ K[i] # "msgindex2" => disk'[i].first = 0
      BY <1>1, <1>7, <1>8, <1>11 DEF DiskKinds, Files
    <3> QED BY <1>1, <1>3, <1>7, <3>1 DEF DiskKinds
  <2>2. \A t \in Senders : SenderKinds(K, sd[t])'
    <3>1. \A t \in Senders : SenderKinds(K, sd[t])
      BY <1>1 DEF Kinds
    <3> QED BY <1>7, <1>4, <3>1, SMTT(40) DEF SenderKinds
  <2>3. ASSUME NEW l \in Logins PROVE ReaderKinds(K, rd[l])'
    <3>1. ReaderKinds(K, rd[l])
      BY <1>1 DEF Kinds
    <3> QED BY <1>3, <1>7, <1>8, <3>1 DEF ReaderKinds
  <2> QED BY <2>1, <2>2, <2>3 DEF Kinds
<1>14. Once(K)'
  <2>1. Listed(K)'
    <3>1. \A i \in 1..Len(disk') : K[i] = "msgindex2" =>
            \A k \in 1..Len(disk'[i].recs) : disk'[i].recs[k].m <= sent'
      BY <1>1, <1>3, <1>7, <1>8 DEF Once, Listed
    <3>2. ASSUME NEW i \in 1..Len(disk'), NEW j \in 1..Len(disk'),
                 K[i] = "msgindex2", K[j] = "msgindex2",
                 NEW k \in 1..Len(disk'[i].recs), NEW n \in 1..Len(disk'[j].recs),
                 disk'[i].recs[k].m = disk'[j].recs[n].m
          PROVE  i = j /\ k = n
      <4>1. i \in 1..Len(disk) /\ disk'[i] = disk[i] /\ j \in 1..Len(disk) /\ disk'[j] = disk[j]
        BY <1>7, <1>8, <3>2
      <4>2. /\ k \in 1..Len(disk[i].recs) /\ n \in 1..Len(disk[j].recs)
            /\ disk[i].recs[k].m = disk[j].recs[n].m
        BY <3>2, <4>1
      <4> QED BY <1>1, <3>2, <4>1, <4>2 DEF Once, Listed
    <3> QED BY <3>1, <3>2 DEF Listed
  <2>2. \A x : NotListed(K, x) => NotListed(K, x)'
    <3>1. SUFFICES ASSUME NEW x, NotListed(K, x),
                          NEW i \in 1..Len(disk'), K[i] = "msgindex2"
                   PROVE  \A k \in 1..Len(disk'[i].recs) : disk'[i].recs[k].m # x
      BY DEF NotListed
    <3>2. i \in 1..Len(disk) /\ disk'[i] = disk[i]
      BY <1>7, <1>8, <3>1
    <3> QED BY <3>1, <3>2 DEF NotListed
  <2>3. ASSUME NEW t \in Senders PROVE OnceOf(K, sd[t])'
    <3>1. OnceOf(K, sd[t])
      BY <1>1 DEF Once
    <3>2. PICK x : x = sd[t].m
      OBVIOUS
    <3>3. sd[t].pc \in Unsaved => NotListed(K, x)'
      BY <2>2, <3>1, <3>2 DEF OnceOf
    <3>4. sd[t].pc \in Unsaved => NotListed(K, sd[t].m)'
      BY <1>5, <3>2, <3>3 DEF NotListed
    <3> QED BY <1>5, <3>1, <3>4 DEF OnceOf, Unsaved
  <2>4. \A o, t \in Senders :
          sd'[o].pc \in Unsaved /\ sd'[t].pc \in Unsaved /\ sd'[o].m = sd'[t].m => o = t
    BY <1>1, <1>5 DEF Once
  <2> QED BY <2>1, <2>3, <2>4 DEF Once
<1>15. Pointers(K)'
  <2>1. took' = took /\ overlap' = overlap /\ again' = again /\ rd' = rd
    BY <1>3
  <2>2. ASSUME NEW i \in 1..Len(disk')
        PROVE  (disk[i].first <= Len(disk[i].recs))' /\ \A k \in 1..disk'[i].first : IsTaken(disk[i].recs[k].m)'
    <3>1. CASE K[i] = "msgindex2"
      <4>1. disk'[i] = disk[i] /\ i \in 1..Len(disk)
        BY <1>7, <1>8, <2>2, <3>1
      <4>2. disk[i].first <= Len(disk[i].recs) /\ \A k \in 1..disk[i].first : IsTaken(disk[i].recs[k].m)
        BY <1>1, <4>1 DEF Pointers
      <4> QED BY <2>1, <4>1, <4>2 DEF IsTaken
    <3>2. CASE K[i] # "msgindex2"
      <4>1. disk'[i].first = 0
        BY <1>13, <2>2, <3>2 DEF Kinds, DiskKinds
      <4>2. Len(disk'[i].recs) \in Nat
        <5>1. disk'[i] \in Inodes
          BY <1>7, <2>2
        <5>2. disk'[i].recs \in Seq(Heads) \/ disk'[i].recs \in Seq(Nat)
          BY <5>1 DEF Inodes
        <5> QED BY <5>2, LenProperties
      <4> QED BY <4>1, <4>2
    <3> QED BY <3>1, <3>2
  <2>3. ASSUME NEW l \in Logins PROVE PointersOf(rd[l])'
    <3>1. CASE rd[l].pc = "bump"
      <4>1. disk'[rd[l].fd] = disk[rd[l].fd]
        BY <1>1, <1>8, <3>1 DEF Kinds, ReaderKinds
      <4>2. \A k \in 1..rd[l].now : IsTaken(disk[rd[l].fd].recs[k].m)
        BY <1>1, <3>1 DEF Pointers, PointersOf
      <4> QED BY <2>1, <4>1, <4>2 DEF PointersOf, IsTaken
    <3>2. CASE rd[l].pc # "bump"
      BY <2>1, <3>2 DEF PointersOf
    <3> QED BY <3>1, <3>2
  <2>4. ASSUME ~overlap
        PROVE  /\ ~again
               /\ \A l \in Logins : rd[l].pc = "bump" => disk'[rd[l].fd].first = rd[l].now
               /\ \A j, k \in Logins :
                    rd[j].pc = "bump" /\ rd[k].pc = "bump" /\ rd[j].fd = rd[k].fd => j = k
               /\ \A x \in took : \E i \in 1..Len(disk') :
                    K[i] = "msgindex2" /\ \E k \in 1..disk'[i].first : disk'[i].recs[k].m = x[1]
    <3>1. \A l \in Logins : rd[l].pc = "bump" => disk'[rd[l].fd].first = rd[l].now
      BY <1>1, <1>11, <2>4 DEF Pointers, Kinds, ReaderKinds
    <3>2. ASSUME NEW x \in took
          PROVE  \E i \in 1..Len(disk') :
                    K[i] = "msgindex2" /\ \E k \in 1..disk'[i].first : disk'[i].recs[k].m = x[1]
      <4>1. PICK i \in 1..Len(disk) :
              K[i] = "msgindex2" /\ \E k \in 1..disk[i].first : disk[i].recs[k].m = x[1]
        BY <1>1, <2>4 DEF Pointers
      <4>2. disk'[i] = disk[i] /\ i \in 1..Len(disk')
        BY <1>7, <1>8, <4>1
      <4> QED BY <4>1, <4>2
    <3> QED BY <1>1, <2>4, <3>1, <3>2 DEF Pointers
  <2> QED BY <2>1, <2>2, <2>3, <2>4 DEF Pointers
<1>16. \A x : InFile(x, "msgindex2") => InFile(x, "msgindex2")'
  BY <1>3, <1>10 DEF InFile, get_msgcount, Recs
<1>17. name["msgindex2"] # 0 => Index2' = Index2
  BY <1>3, <1>10 DEF Index2
<1>18. Reading'
  <2>1. ASSUME NEW l \in Logins PROVE ReadingOf(l, rd[l])'
    <3>1. ReadingOf(l, rd[l]) /\ rd[l].count \in Nat
      BY <1>1, <1>2 DEF Reading, ReaderStates
    <3>2. CASE name["msgindex2"] = 0
      BY <1>3, <3>1, <3>2 DEF ReadingOf
    <3>3. CASE name["msgindex2"] # 0
      BY <1>3, <1>17, <3>1, <3>3 DEF ReadingOf
    <3> QED BY <3>2, <3>3
  <2> QED BY <2>1 DEF Reading
<1>19. Alone'
  <2>1. ASSUME NEW l \in Logins PROVE AloneOf(rd[l])'
    <3>1. AloneOf(rd[l]) /\ ReadingOf(l, rd[l])
      BY <1>1 DEF Reading, Alone
    <3>2. CASE name["msgindex2"] = 0
      BY <1>3, <3>1, <3>2 DEF AloneOf, ReadingOf
    <3>3. CASE name["msgindex2"] # 0
      BY <1>3, <1>17, <3>1, <3>3 DEF AloneOf
    <3> QED BY <3>2, <3>3
  <2> QED BY <2>1 DEF Alone
<1>20. \A x : InFile(x, "msgindex") => InFile(x, "msgindex")'
  OBVIOUS
<1>21. Kept'
  BY <1>1, <1>3, <1>6, <1>20, <1>16 DEF Kept, AcceptedKept
<1>22. Taking'
  <2>1. ASSUME NEW l \in Logins, NEW x, Pending(l, x) PROVE Pending(l, x)'
    BY <1>3, <1>17, <2>1 DEF Pending
  <2>2. \A l, x : IsShown(l, x) => IsShown(l, x)'
    BY <1>3 DEF IsShown
  <2>3. ASSUME mail.runs = 0, NEW x \in took, x[3] = x[2], x[2] \in Telnet \cap alive
        PROVE  IsShown(x[2], x[1])' \/ Pending(x[2], x[1])'
    <3>1. x[2] \in Logins
      BY <2>3 DEF Logins
    <3>2. IsShown(x[2], x[1]) \/ Pending(x[2], x[1])
      BY <1>1, <2>3 DEF Taking
    <3> QED BY <2>1, <2>2, <3>1, <3>2
  <2> QED BY <1>1, <1>3, <2>3 DEF Taking
<1>23. Limit'
  <2>1. UnreadLimited' = UnreadLimited
    BY <1>3, <1>10 DEF UnreadLimited, Limited, Recs
  <2> QED BY <1>1, <1>3, <1>6, <2>1 DEF Limit
<1> QED BY <1>6, <1>12, <1>13, <1>14, <1>15, <1>18, <1>19, <1>21, <1>22, <1>23

\* The head is written behind the others of msgindex; no text is.
LEMMA WriteHeadInv ==
  ASSUME NEW K, KInv(K), NEW s \in Senders, WriteHead(s)
  PROVE  KInv(K)'
<1>1. PICK a : a = sd[s].fd
  OBVIOUS
<1>2. PICK b : b = sd[s].fd2
  OBVIOUS
<1>3. PICK m : m = sd[s].m
  OBVIOUS
<1>4. PICK h : h = HeadOf(s)
  OBVIOUS
<1>5. /\ Types /\ Kinds(K) /\ DiskKinds(K) /\ Once(K) /\ Pointers(K) /\ Apart /\ Texts /\ Reading
      /\ Alone /\ Kept /\ Taking /\ Limit
  BY DEF KInv, Kinds, Rest
<1>6. /\ sd \in [Senders -> SenderStates] /\ sd[s] \in SenderStates /\ disk \in Seq(Inodes)
      /\ Len(disk) \in Nat /\ name \in [Files -> 0..Len(disk)] /\ rd \in [Logins -> ReaderStates]
  BY <1>5, LenProperties DEF Types
<1>7. /\ sd[s].pc = "write" /\ ApartOf(sd[s]) /\ SenderKinds(K, sd[s]) /\ sd[s].size \in Nat
      /\ UNCHANGED <<name, alive, flag, msg_count, rd, mail, sent, asks, own>>
      /\ UNCHANGED <<took, again, overlap, shown, disposed, raced, unsig>>
  BY <1>5, <1>6 DEF WriteHead, ghosts, Apart, Kinds, SenderStates
<1>8. h \in Heads /\ h.m = m
  BY <1>3, <1>4, <1>5, <1>7, HeadOfFacts DEF Unsaved
<1>9. a \in 1..Len(disk) /\ K[a] = "msgindex"
  BY <1>1, <1>7 DEF SenderKinds
<1>10. disk[a] \in Inodes /\ disk[a].recs \in Seq(Heads) /\ Len(disk[a].recs) \in Nat
  <2>1. disk[a] \in Inodes /\ disk[a].recs \in Seq(Heads)
    BY <1>5, <1>6, <1>9 DEF DiskKinds
  <2> QED BY <2>1, LenProperties
<1>11. /\ disk' \in Seq(Inodes) /\ Len(disk') = Len(disk)
       /\ disk'[a].first = disk[a].first /\ disk'[a].recs \in Seq(Heads)
       /\ Len(disk'[a].recs) = Len(disk[a].recs) + 1 /\ disk'[a].recs[Len(disk[a].recs) + 1] = h
       /\ \A k \in 1..Len(disk[a].recs) : disk'[a].recs[k] = disk[a].recs[k]
       /\ \A i \in 1..Len(disk) : i # a => disk'[i] = disk[i]
  <2>1. PICK r : r = Append(disk[a].recs, h)
    OBVIOUS
  <2>2. /\ r \in Seq(Heads) /\ Len(r) = Len(disk[a].recs) + 1 /\ r[Len(disk[a].recs) + 1] = h
        /\ \A k \in 1..Len(disk[a].recs) : r[k] = disk[a].recs[k]
    BY <1>8, <1>10, <2>1, AppendProperties
  <2>3. PICK v : v = [disk[a] EXCEPT !.recs = r]
    OBVIOUS
  <2>4. v \in Inodes /\ v.first = disk[a].first /\ v.recs = r
    BY <1>10, <2>2, <2>3 DEF Inodes
  <2>5. disk' = [disk EXCEPT ![a] = v]
    <3>1. disk' = [disk EXCEPT ![a].recs = Append(@, h)]
      BY <1>1, <1>4 DEF WriteHead
    <3> QED BY <1>6, <1>9, <2>1, <2>3, <3>1
  <2>6. /\ disk' \in Seq(Inodes) /\ Len(disk') = Len(disk) /\ disk'[a] = v
        /\ \A j \in 1..Len(disk) : j # a => disk'[j] = disk[j]
    BY <1>6, <1>9, <2>4, <2>5, ExceptSeq
  <2> QED BY <2>2, <2>4, <2>6
<1>12. PICK y : y = [sd[s] EXCEPT !.pc = "text"]
  OBVIOUS
<1>13. /\ y \in SenderStates /\ y.pc = "text" /\ y.m = m /\ y.to = sd[s].to /\ y.mode = sd[s].mode
       /\ y.size = sd[s].size /\ y.fd = sd[s].fd /\ y.fd2 = sd[s].fd2
  BY <1>3, <1>6, <1>12 DEF SenderStates
<1>14. /\ sd' = [sd EXCEPT ![s] = y] /\ sd'[s] = y /\ \A t \in Senders : t # s => sd'[t] = sd[t]
  <2>1. sd' = [sd EXCEPT ![s] = y]
    BY <1>6, <1>12 DEF WriteHead, SenderStates
  <2> QED BY <1>6, <2>1
\* No file but msgindex changes.
<1>15. \A i \in 1..Len(disk) : K[i] # "msgindex" => disk'[i] = disk[i]
  BY <1>9, <1>11
<1>16. \A g \in Files : name[g] # 0 => name[g] \in 1..Len(disk) /\ K[name[g]] = g
  BY <1>5, <1>6 DEF DiskKinds
<1>17. \A x : InFile(x, "msgindex") => InFile(x, "msgindex")'
  <2> SUFFICES ASSUME NEW x, InFile(x, "msgindex") PROVE InFile(x, "msgindex")'
    OBVIOUS
  <2>1. name["msgindex"] # 0
    <3>1. CASE name["msgindex"] = 0
      BY <3>1 DEF InFile, get_msgcount, Recs
    <3> QED BY <3>1
  <2>2. name["msgindex"] \in 1..Len(disk) /\ K[name["msgindex"]] = "msgindex"
    BY <1>16, <2>1 DEF Files
  <2>3. PICK i \in 1..Len(disk) : i = name["msgindex"]
    BY <2>2
  <2>4. PICK k \in 1..Len(disk[i].recs) : disk[i].recs[k].m = x
    BY <2>1, <2>3 DEF InFile, get_msgcount, Recs
  <2>5. k \in 1..Len(disk'[i].recs) /\ disk'[i].recs[k] = disk[i].recs[k]
    <3>1. CASE i = a
      BY <1>10, <1>11, <2>4, <3>1
    <3>2. CASE i # a
      BY <1>9, <1>11, <2>2, <2>3, <2>4, <3>2
    <3> QED BY <3>1, <3>2
  <2> QED BY <1>7, <2>1, <2>3, <2>4, <2>5 DEF InFile, get_msgcount, Recs
<1>18. /\ Types' /\ Kinds(K)' /\ Once(K)' /\ Pointers(K)' /\ Reading' /\ Alone' /\ Kept' /\ Taking' /\ Limit'
       /\ InProgress' = InProgress
  <2>1. \A i \in 1..Len(disk) :
          /\ disk'[i].first = disk[i].first
          /\ K[i] = "msgindex2" => disk'[i] = disk[i]
          /\ K[i] = "msgindex" => disk'[i].recs \in Seq(Heads)
          /\ K[i] = "msgcontent" => disk'[i].recs \in Seq(Nat)
    BY <1>5, <1>11, <1>15 DEF DiskKinds
  <2>2. /\ sd[s].pc \in {"write", "text"} /\ y.pc \in {"text", "open2"} /\ sd' = [sd EXCEPT ![s] = y]
        /\ y \in SenderStates /\ y.m = sd[s].m /\ y.to = sd[s].to /\ y.mode = sd[s].mode
        /\ y.fd = sd[s].fd /\ y.fd2 = sd[s].fd2
    BY <1>3, <1>7, <1>13, <1>14
  <2> QED BY <1>7, <1>11, <1>17, <2>1, <2>2, WriteRest
<1>19. Apart'
  <2>1. ASSUME NEW t \in Senders PROVE ApartOf(sd[t])'
    <3>1. SenderKinds(K, sd[t]) /\ ApartOf(sd[t])
      BY <1>5 DEF Kinds, Apart
    <3>2. sd[t].pc \in {"write", "text"} => disk'[sd[t].fd2] = disk[sd[t].fd2]
      BY <1>15, <3>1 DEF SenderKinds
    <3>3. CASE t = s
      <4>1. m \notin raced => InFile(m, "msgindex")'
        <5> SUFFICES ASSUME m \notin raced PROVE InFile(m, "msgindex")'
          OBVIOUS
        <5>1. a = name["msgindex"] /\ a # 0
          BY <1>1, <1>3, <1>6, <1>7, <1>9 DEF ApartOf
        <5>2. Len(disk[a].recs) + 1 \in 1..Len(disk'[a].recs)
              /\ disk'[a].recs[Len(disk[a].recs) + 1].m = m
          BY <1>8, <1>10, <1>11
        <5> QED BY <1>7, <5>1, <5>2 DEF InFile, get_msgcount, Recs
      <4> QED BY <1>3, <1>7, <1>13, <1>14, <3>1, <3>2, <3>3, <4>1 DEF ApartOf, InFile
    <3>4. CASE t # s
      <4>1. InFile(sd[t].m, "msgindex") => InFile(sd[t].m, "msgindex")'
        BY <1>14, <1>17, <3>4 DEF InFile
      <4> QED BY <1>7, <1>14, <3>1, <3>2, <3>4, <4>1 DEF ApartOf
    <3> QED BY <3>3, <3>4
  <2>2. \A o, t \in Senders :
           sd'[o].pc \in {"write", "text"} /\ sd'[t].pc \in {"write", "text"} /\ sd'[o].fd = sd'[t].fd => o = t
    BY <1>5, <1>7, <1>13, <1>14 DEF Apart
  <2> QED BY <1>5, <1>7, <1>18, <2>1, <2>2 DEF Apart
<1>20. Texts'
  <2>1. ASSUME NEW x, NEW pos, Text(x, pos) PROVE Text(x, pos)'
    <3>1. name["msgcontent"] # 0 /\ disk'[name["msgcontent"]] = disk[name["msgcontent"]]
      BY <1>15, <1>16, <2>1 DEF Text, Files
    <3>2. \A t \in Senders : /\ sd'[t].pc \in {"write", "text"} => sd[t].pc \in {"write", "text"}
                             /\ sd'[t].fd2 = sd[t].fd2 /\ sd'[t].size = sd[t].size
      BY <1>7, <1>13, <1>14
    <3> QED BY <1>7, <2>1, <3>1, <3>2 DEF Text
  <2>2. \A x : HeadText(x) => HeadText(x)'
    BY <1>7, <2>1 DEF HeadText
  <2>3. ASSUME NEW t \in Senders PROVE SenderText(sd[t])'
    <3>1. CASE t = s
      BY <1>13, <1>14, <3>1 DEF SenderText
    <3>2. CASE t # s
      <4>1. PICK z : z = sd[t]
        OBVIOUS
      <4>2. z.pc \in {"open2", "append2"} => z.m \in raced \/ Text(z.m, z.size)'
        BY <1>5, <2>1, <4>1 DEF Texts, SenderText
      <4> QED BY <1>7, <1>14, <3>2, <4>1, <4>2 DEF SenderText, Text
    <3> QED BY <3>1, <3>2
  <2>4. name["msgindex2"] # 0 => disk'[name["msgindex2"]] = disk[name["msgindex2"]]
    BY <1>15, <1>16 DEF Files
  <2>5. name'["msgindex2"] # 0 =>
          \A k \in 1..Len(disk'[name'["msgindex2"]].recs) : HeadText(disk[name["msgindex2"]].recs[k])'
    <3> SUFFICES ASSUME name["msgindex2"] # 0, NEW k \in 1..Len(disk[name["msgindex2"]].recs)
                 PROVE  HeadText(disk[name["msgindex2"]].recs[k])'
      BY <1>7, <2>4
    <3>1. PICK x : x = disk[name["msgindex2"]].recs[k]
      OBVIOUS
    <3>2. HeadText(x)'
      BY <1>5, <2>2, <3>1 DEF Texts
    <3> QED BY <1>7, <2>4, <3>1, <3>2 DEF HeadText
  <2> QED BY <1>5, <1>7, <2>3, <2>5 DEF Texts, TextMatches
<1> QED BY <1>18, <1>19, <1>20 DEF KInv, Rest

\* The text is written at the place that was the end when the lock was taken.  Nobody else who has this inode
\* open writes meanwhile, so no text that a head leads to is written over.
LEMMA WriteTextInv ==
  ASSUME NEW K, KInv(K), NEW s \in Senders, WriteText(s)
  PROVE  KInv(K)'
<1>1. PICK a : a = sd[s].fd
  OBVIOUS
<1>2. PICK b : b = sd[s].fd2
  OBVIOUS
<1>3. PICK m : m = sd[s].m
  OBVIOUS
<1>4. PICK p : p = sd[s].size
  OBVIOUS
<1>5. /\ Types /\ Kinds(K) /\ DiskKinds(K) /\ Once(K) /\ Pointers(K) /\ Apart /\ Texts /\ Reading
      /\ Alone /\ Kept /\ Taking /\ Limit
  BY DEF KInv, Kinds, Rest
<1>6. /\ sd \in [Senders -> SenderStates] /\ sd[s] \in SenderStates /\ disk \in Seq(Inodes)
      /\ Len(disk) \in Nat /\ name \in [Files -> 0..Len(disk)] /\ rd \in [Logins -> ReaderStates]
  BY <1>5, LenProperties DEF Types
<1>7. /\ sd[s].pc = "text" /\ ApartOf(sd[s]) /\ SenderKinds(K, sd[s]) /\ p \in Nat
      /\ UNCHANGED <<name, alive, flag, msg_count, rd, mail, sent, asks, own>>
      /\ UNCHANGED <<took, again, overlap, shown, disposed, raced, unsig>>
  BY <1>4, <1>5, <1>6 DEF WriteText, ghosts, Apart, Kinds, SenderStates
<1>8. m \in Numbers /\ m \in Nat
  BY <1>3, <1>5, <1>6, <1>7 DEF Once, OnceOf, Unsaved, Numbers, SenderStates
<1>9. b \in 1..Len(disk) /\ K[b] = "msgcontent"
  BY <1>2, <1>7 DEF SenderKinds
<1>10. disk[b] \in Inodes /\ disk[b].recs \in Seq(Nat) /\ Len(disk[b].recs) \in Nat /\ p <= Len(disk[b].recs)
  <2>1. disk[b] \in Inodes /\ disk[b].recs \in Seq(Nat)
    BY <1>5, <1>6, <1>9 DEF DiskKinds
  <2>2. p <= Len(disk[b].recs)
    BY <1>2, <1>4, <1>7 DEF ApartOf
  <2> QED BY <2>1, <2>2, LenProperties
<1>11. /\ disk' \in Seq(Inodes) /\ Len(disk') = Len(disk)
       /\ disk'[b].first = disk[b].first /\ disk'[b].recs \in Seq(Nat) /\ Len(disk'[b].recs) \in Nat
       /\ Len(disk[b].recs) <= Len(disk'[b].recs) /\ p < Len(disk'[b].recs)
       /\ disk'[b].recs[p + 1] = m
       /\ \A k \in 1..Len(disk[b].recs) : k # p + 1 => disk'[b].recs[k] = disk[b].recs[k]
       /\ \A i \in 1..Len(disk) : i # b => disk'[i] = disk[i]
  <2>1. PICK q : q = WriteAt(disk[b].recs, p, m)
    OBVIOUS
  <2>2. /\ q \in Seq(Nat) /\ Len(q) \in Nat /\ Len(disk[b].recs) <= Len(q) /\ p < Len(q)
        /\ q[p + 1] = m
        /\ \A k \in 1..Len(disk[b].recs) : k # p + 1 => q[k] = disk[b].recs[k]
    BY <1>7, <1>8, <1>10, <2>1, WriteAtFacts, SMTT(40)
  <2>3. PICK w : w = [disk[b] EXCEPT !.recs = q]
    OBVIOUS
  <2>4. w \in Inodes /\ w.first = disk[b].first /\ w.recs = q
    BY <1>10, <2>2, <2>3 DEF Inodes
  <2>5. disk' = [disk EXCEPT ![b] = w]
    <3>1. disk' = [disk EXCEPT ![b].recs = WriteAt(@, p, m)]
      BY <1>2, <1>3, <1>4 DEF WriteText
    <3> QED BY <1>6, <1>9, <2>1, <2>3, <3>1
  <2>6. /\ disk' \in Seq(Inodes) /\ Len(disk') = Len(disk) /\ disk'[b] = w
        /\ \A j \in 1..Len(disk) : j # b => disk'[j] = disk[j]
    BY <1>6, <1>9, <2>4, <2>5, ExceptSeq
  <2> QED BY <2>2, <2>4, <2>6
<1>12. PICK y : y = [sd[s] EXCEPT !.pc = "open2"]
  OBVIOUS
<1>13. /\ y \in SenderStates /\ y.pc = "open2" /\ y.m = m /\ y.to = sd[s].to /\ y.mode = sd[s].mode
       /\ y.size = p /\ y.fd = sd[s].fd /\ y.fd2 = sd[s].fd2
  BY <1>3, <1>4, <1>6, <1>12 DEF SenderStates
<1>14. /\ sd' = [sd EXCEPT ![s] = y] /\ sd'[s] = y /\ \A t \in Senders : t # s => sd'[t] = sd[t]
  <2>1. sd' = [sd EXCEPT ![s] = y]
    BY <1>6, <1>12 DEF WriteText, SenderStates
  <2> QED BY <1>6, <2>1
\* No file but msgcontent changes.
<1>15. \A i \in 1..Len(disk) : K[i] # "msgcontent" => disk'[i] = disk[i]
  BY <1>9, <1>11
<1>16. \A g \in Files : name[g] # 0 => name[g] \in 1..Len(disk) /\ K[name[g]] = g
  BY <1>5, <1>6 DEF DiskKinds
<1>17. name["msgindex2"] # 0 => disk'[name["msgindex2"]] = disk[name["msgindex2"]]
  BY <1>15, <1>16 DEF Files
<1>18. \A x : InFile(x, "msgindex") => InFile(x, "msgindex")'
  <2>1. name["msgindex"] # 0 => disk'[name["msgindex"]] = disk[name["msgindex"]]
    BY <1>15, <1>16 DEF Files
  <2> QED BY <1>7, <2>1 DEF InFile, get_msgcount, Recs
<1>19. /\ Types' /\ Kinds(K)' /\ Once(K)' /\ Pointers(K)' /\ Reading' /\ Alone' /\ Kept' /\ Taking' /\ Limit'
       /\ InProgress' = InProgress
  <2>1. \A i \in 1..Len(disk) :
          /\ disk'[i].first = disk[i].first
          /\ K[i] = "msgindex2" => disk'[i] = disk[i]
          /\ K[i] = "msgindex" => disk'[i].recs \in Seq(Heads)
          /\ K[i] = "msgcontent" => disk'[i].recs \in Seq(Nat)
    BY <1>5, <1>11, <1>15 DEF DiskKinds
  <2>2. /\ sd[s].pc \in {"write", "text"} /\ y.pc \in {"text", "open2"} /\ sd' = [sd EXCEPT ![s] = y]
        /\ y \in SenderStates /\ y.m = sd[s].m /\ y.to = sd[s].to /\ y.mode = sd[s].mode
        /\ y.fd = sd[s].fd /\ y.fd2 = sd[s].fd2
    BY <1>3, <1>7, <1>13, <1>14
  <2> QED BY <1>7, <1>11, <1>18, <2>1, <2>2, WriteRest
\* While this sender writes apart from mail_msg, no other one does.
<1>20. m \in InProgress
  BY <1>3, <1>7 DEF InProgress, Saving
<1>21. \A t \in Senders : t # s /\ sd[t].pc \in {"write", "text"} => sd[t].m \in raced /\ m \in raced
  <2> SUFFICES ASSUME NEW t \in Senders, t # s, sd[t].pc \in {"write", "text"}
               PROVE  sd[t].m \in raced /\ m \in raced
    OBVIOUS
  <2>1. sd[t].m \in InProgress
    BY DEF InProgress, Saving
  <2>2. sd[t].m \notin raced /\ m \notin raced => sd[t].fd = sd[s].fd
    BY <1>3, <1>5, <1>7 DEF Apart, ApartOf
  <2>3. sd[t].m \in raced \/ m \in raced
    BY <1>5, <1>7, <2>2 DEF Apart
  <2> QED BY <1>5, <1>20, <2>1, <2>3 DEF Apart
<1>22. m \notin raced => a = name["msgindex"] /\ b = name["msgcontent"]
  BY <1>1, <1>2, <1>3, <1>7 DEF ApartOf
<1>23. Apart'
  <2>1. ASSUME NEW t \in Senders PROVE ApartOf(sd[t])'
    <3>1. CASE t = s
      <4>1. m \notin raced => InFile(m, "msgindex")'
        BY <1>3, <1>7, <1>18 DEF ApartOf
      <4> QED BY <1>7, <1>13, <1>14, <3>1, <4>1 DEF ApartOf, InFile
    <3>2. CASE t # s
      <4>1. ApartOf(sd[t]) /\ SenderKinds(K, sd[t])
        BY <1>5 DEF Apart, Kinds
      <4>2. sd[t].pc \in {"write", "text"} => sd[t].m \in raced
        BY <1>21, <3>2
      <4>3. sd[t].pc \in {"write", "text"} => sd[t].size <= Len(disk'[sd[t].fd2].recs)
        <5> SUFFICES ASSUME sd[t].pc \in {"write", "text"} PROVE sd[t].size <= Len(disk'[sd[t].fd2].recs)
          OBVIOUS
        <5>1. sd[t].size <= Len(disk[sd[t].fd2].recs) /\ sd[t].size \in Nat
          BY <1>6, <4>1 DEF ApartOf, SenderStates
        <5>2. sd[t].fd2 \in 1..Len(disk)
          BY <4>1 DEF SenderKinds
        <5>3. CASE sd[t].fd2 = b
          <6>1. sd[t].size <= Len(disk[b].recs)
            BY <5>1, <5>3
          <6>2. PICK n \in Nat : n = Len(disk[b].recs)
            BY <1>10
          <6>3. PICK q \in Nat : q = Len(disk'[b].recs)
            BY <1>11
          <6>4. n <= q /\ sd[t].size <= n
            BY <1>11, <6>1, <6>2, <6>3
          <6>5. sd[t].size <= Len(disk'[b].recs)
            BY <5>1, <6>3, <6>4
          <6> QED BY <5>3, <6>5
        <5>4. CASE sd[t].fd2 # b
          BY <1>11, <5>1, <5>2, <5>4
        <5> QED BY <5>3, <5>4
      <4>4. InFile(sd[t].m, "msgindex") => InFile(sd[t].m, "msgindex")'
        BY <1>14, <1>18, <3>2 DEF InFile
      <4> QED BY <1>7, <1>14, <3>2, <4>1, <4>2, <4>3, <4>4 DEF ApartOf
    <3> QED BY <3>1, <3>2
  <2>2. \A o, t \in Senders :
           sd'[o].pc \in {"write", "text"} /\ sd'[t].pc \in {"write", "text"} /\ sd'[o].fd = sd'[t].fd => o = t
    BY <1>5, <1>13, <1>14 DEF Apart
  <2> QED BY <1>5, <1>7, <1>19, <2>1, <2>2 DEF Apart
<1>24. Texts'
  <2>1. ASSUME NEW x, NEW pos \in Nat, Text(x, pos) PROVE Text(x, pos)'
    <3>1. name["msgcontent"] # 0 /\ pos < Len(disk[name["msgcontent"]].recs)
          /\ disk[name["msgcontent"]].recs[pos + 1] = x
      BY <2>1 DEF Text
    <3>2. pos < Len(disk'[name["msgcontent"]].recs) /\ disk'[name["msgcontent"]].recs[pos + 1] = x
      <4>1. CASE name["msgcontent"] = b
        <5>1. p > pos
          BY <1>2, <1>4, <1>7, <2>1, <4>1 DEF Text
        <5>2. pos < Len(disk[b].recs) /\ disk[b].recs[pos + 1] = x
          BY <3>1, <4>1
        <5>3. pos + 1 \in 1..Len(disk[b].recs) /\ pos + 1 # p + 1
          BY <1>7, <1>10, <5>1, <5>2
        <5>4. pos < Len(disk'[b].recs) /\ disk'[b].recs[pos + 1] = x
          <6>1. PICK n \in Nat : n = Len(disk[b].recs)
            BY <1>10
          <6>2. PICK q \in Nat : q = Len(disk'[b].recs)
            BY <1>11
          <6>3. n <= q /\ pos < n
            BY <1>11, <5>2, <6>1, <6>2
          <6>4. pos < q
            BY <6>3
          <6>5. disk'[b].recs[pos + 1] = disk[b].recs[pos + 1]
            BY <1>11, <5>3
          <6> QED BY <5>2, <6>2, <6>4, <6>5
        <5> QED BY <4>1, <5>4
      <4>2. CASE name["msgcontent"] # b
        <5>1. disk'[name["msgcontent"]] = disk[name["msgcontent"]]
          BY <1>9, <1>11, <1>16, <3>1, <4>2 DEF Files
        <5> QED BY <3>1, <5>1
      <4> QED BY <4>1, <4>2
    <3>3. \A t \in Senders : sd'[t].pc \in {"write", "text"} /\ sd'[t].fd2 = name["msgcontent"] => sd'[t].size > pos
      BY <1>13, <1>14, <2>1 DEF Text
    <3> QED BY <1>7, <3>1, <3>2, <3>3 DEF Text
  <2>2. ASSUME NEW x \in Heads, HeadText(x) PROVE HeadText(x)'
    <3>1. x.pos \in Nat
      BY DEF Heads
    <3> QED BY <1>7, <2>1, <2>2, <3>1 DEF HeadText
  <2>3. ASSUME NEW t \in Senders PROVE SenderText(sd[t])'
    <3>1. CASE t = s
      <4>1. CASE m \in raced
        BY <1>7, <1>13, <1>14, <3>1, <4>1 DEF SenderText
      <4>2. CASE m \notin raced
        <5>1. b = name["msgcontent"] /\ b # 0
          BY <1>6, <1>9, <1>22, <4>2
        <5>2. \A o \in Senders : sd'[o].pc \notin {"write", "text"}
          BY <1>13, <1>14, <1>21, <4>2
        <5>3. Text(m, p)'
          BY <1>7, <1>11, <5>1, <5>2 DEF Text
        <5> QED BY <1>13, <1>14, <3>1, <5>3 DEF SenderText, Text
      <4> QED BY <4>1, <4>2
    <3>2. CASE t # s
      <4>1. SenderText(sd[t]) /\ sd[t].size \in Nat
        BY <1>5, <1>6 DEF Texts, SenderStates
      <4>2. PICK z : z = sd[t]
        OBVIOUS
      <4>3. z.pc \in {"open2", "append2"} => z.m \in raced \/ Text(z.m, z.size)'
        BY <2>1, <4>1, <4>2 DEF SenderText
      <4> QED BY <1>7, <1>14, <3>2, <4>2, <4>3 DEF SenderText, Text
    <3> QED BY <3>1, <3>2
  <2>4. name'["msgindex2"] # 0 =>
          \A k \in 1..Len(disk'[name'["msgindex2"]].recs) : HeadText(disk[name["msgindex2"]].recs[k])'
    <3> SUFFICES ASSUME name["msgindex2"] # 0, NEW k \in 1..Len(disk[name["msgindex2"]].recs)
                 PROVE  HeadText(disk[name["msgindex2"]].recs[k])'
      BY <1>7, <1>17
    <3>1. PICK x : x = disk[name["msgindex2"]].recs[k]
      OBVIOUS
    <3>2. x \in Heads
      BY <1>5, <1>16, <3>1, RecordAt DEF Files
    <3>3. HeadText(x)
      BY <1>5, <3>1 DEF Texts
    <3>4. HeadText(x)'
      BY <2>2, <3>2, <3>3
    <3> QED BY <1>7, <1>17, <3>1, <3>4 DEF HeadText
  <2> QED BY <1>5, <1>7, <2>3, <2>4 DEF Texts, TextMatches
<1> QED BY <1>19, <1>23, <1>24 DEF KInv, Rest

-----------------------------------------------------------------------------
(* The invariant. *)

\* No file exists, nobody sends or reads.
LEMMA InitInv == Init => IInv
<1> SUFFICES ASSUME Init PROVE IInv
  OBVIOUS
<1>1. PICK K : K = [i \in 1..0 |-> "msgindex"]
  OBVIOUS
<1>2. /\ disk = <<>> /\ Len(disk) = 0 /\ disk \in Seq(Inodes) /\ sent = 0 /\ own = {} /\ took = {}
      /\ shown = {} /\ raced = {} /\ again = FALSE /\ overlap = FALSE /\ asks = 0 /\ alive = Logins
      /\ \A g \in Files : name[g] = 0
  BY EmptySeq DEF Init
<1>3. /\ mail.pc = "idle" /\ mail.runs = 0 /\ mail \in [pc : Files \cup {"idle"}, runs : Nat]
  BY DEF Init, IdleMail
<1>4. IdleSender \in SenderStates /\ IdleSender.pc = "idle" /\ IdleSender.m = 0
  BY DEF IdleSender, SenderStates
<1>5. \A s \in Senders : sd[s] \in SenderStates /\ sd[s].pc = "idle" /\ sd[s].m = 0
  BY <1>4 DEF Init
<1>6. \A l \in Logins : rd[l] \in ReaderStates /\ rd[l].pc = "idle" /\ rd[l].now = -1 /\ ~rd[l].cleared
  BY DEF Init, IdleReader, ReaderStates
<1>7. sd \in [Senders -> SenderStates] /\ rd \in [Logins -> ReaderStates]
  BY <1>4, IdleReaderFacts DEF Init
<1>8. Types
  <2>1. name \in [Files -> 0..Len(disk)] /\ flag \in [Logins -> BOOLEAN] /\ msg_count \in [Telnet -> Nat]
    BY <1>2 DEF Init
  <2>2. 0 \in 0..MaxEvents
    BY MsgAssumption
  <2>3. sent \in 0..MaxEvents /\ \A s \in Senders : sd[s].m <= sent
    BY <1>2, <1>5, <2>2
  <2>4. /\ own \subseteq 1..sent /\ shown \subseteq Logins \X Nat \X Nat
        /\ took \subseteq Nat \X Logins \X Logins /\ raced \subseteq 0..sent
    BY <1>2
  <2>5. again \in BOOLEAN /\ overlap \in BOOLEAN /\ asks \in Nat /\ alive \subseteq Logins
    BY <1>2
  <2> QED BY <1>2, <1>3, <1>7, <2>1, <2>3, <2>4, <2>5 DEF Types
<1>9. Kinds(K)
  BY <1>1, <1>2, <1>5, <1>6 DEF Kinds, DiskKinds, SenderKinds, ReaderKinds
<1>10. Once(K)
  BY <1>2, <1>5 DEF Once, Listed, OnceOf, Unsaved
<1>11. Pointers(K)
  BY <1>2, <1>6 DEF Pointers, PointersOf
<1>12. Apart
  <2>1. InProgress = {}
    BY <1>5 DEF InProgress, Saving
  <2> QED BY <1>3, <1>5, <2>1 DEF Apart, ApartOf
<1>13. Texts
  BY <1>2, <1>5 DEF Texts, SenderText, TextMatches, Files
<1>14. Reading /\ Alone
  BY <1>6 DEF Reading, ReadingOf, Alone, AloneOf
<1>15. Kept
  <2>1. Accepted = {}
    BY <1>2, <1>5 DEF Accepted, ToNotify
  <2> QED BY <1>3, <2>1 DEF Kept, AcceptedKept
<1>16. Taking
  BY <1>2, <1>3, <1>6 DEF Taking
<1>17. Limit
  <2>1. UnreadLimited = {} /\ UnderWay = {}
    BY <1>2, <1>5 DEF UnreadLimited, UnderWay, Unsaved, Files
  <2>2. Cardinality(UnreadLimited) = 0 /\ Cardinality(UnderWay) = 0
    BY <2>1, FS_EmptySet
  <2>3. MAXMESSAGE \in Nat /\ Cardinality(Senders) \in Nat
    BY MsgAssumption, Finite
  <2> QED BY <2>2, <2>3 DEF Limit
<1> QED BY <1>8, <1>9, <1>10, <1>11, <1>12, <1>13, <1>14, <1>15, <1>16, <1>17 DEF IInv, KInv, Rest

\* A step that changes nothing keeps the invariant.
LEMMA StutterInv == IInv /\ UNCHANGED vars => IInv'
<1> SUFFICES ASSUME IInv, UNCHANGED vars PROVE IInv'
  OBVIOUS
<1>1. PICK K : KInv(K)
  BY DEF IInv
<1>2. /\ UNCHANGED <<name, disk, alive, flag, msg_count, sd, rd, mail, sent, asks, own>>
      /\ UNCHANGED <<took, again, overlap, shown, disposed, raced, unsig>>
  BY DEF vars, ghosts
<1>3. Types'
  BY <1>1, <1>2 DEF KInv, Types
<1>4. Kinds(K)' /\ Once(K)' /\ Pointers(K)' /\ Apart' /\ Texts' /\ Alone' /\ Taking'
  BY <1>1, <1>2, FrameKinds, FrameOnce, FramePointers, FrameApart, FrameTexts, FrameAlone, FrameTaking
     DEF KInv, Rest
<1>5. Reading' /\ Kept' /\ Limit'
  <2>1. rd \in [Logins -> ReaderStates] /\ sent \in Nat /\ sent' \in Nat /\ sent <= sent'
    BY <1>1, <1>2 DEF KInv, Types
  <2>2. Accepted' = Accepted /\ UnderWay' = UnderWay
    BY <1>2 DEF Accepted, ToNotify, UnderWay
  <2> QED BY <1>1, <1>2, <2>1, <2>2, FrameReading, FrameKept, FrameLimit DEF KInv, Rest
<1> QED BY <1>3, <1>4, <1>5 DEF IInv, KInv, Rest

\* Every step of a sender, of a login or of mail_msg keeps the invariant.
LEMMA StepInv == IInv /\ [Next]_vars => IInv'
<1> SUFFICES ASSUME IInv, [Next]_vars PROVE IInv'
  OBVIOUS
<1>1. PICK K : KInv(K)
  BY DEF IInv
<1>2. ASSUME NEW s \in Senders, NEW l \in Logins, NEW mode \in Modes, Send(s, l, mode) PROVE IInv'
  BY <1>1, <1>2, SendInv DEF IInv
<1>3. ASSUME NEW s \in Senders, LockIndex(s) PROVE IInv'
  BY <1>1, <1>3, LockIndexInv DEF IInv
<1>4. ASSUME NEW s \in Senders, WriteHead(s) \/ WriteText(s) PROVE IInv'
  BY <1>1, <1>4, WriteHeadInv, WriteTextInv DEF IInv
<1>5. ASSUME NEW s \in Senders, AppendIndex2(s) PROVE IInv'
  BY <1>1, <1>5, AppendIndex2Inv DEF IInv
<1>6. ASSUME NEW s \in Senders, Notify(s) PROVE IInv'
  BY <1>1, <1>6, NotifyInv DEF IInv
<1>7. ASSUME NEW s \in Senders, Die(s) PROVE IInv'
  BY <1>1, <1>7, DieInv DEF IInv
<1>8. ASSUME NEW l \in Logins, r_msg_sig(l) \/ Answer(l) \/ CtrlZ(l) \/ WebPage(l) PROVE IInv'
  BY <1>1, <1>8, AnswerInv DEF IInv
<1>9. ASSUME NEW l \in Logins, Bump(l) PROVE IInv'
  BY <1>1, <1>9, BumpInv DEF IInv
<1>10. ASSUME NEW l \in Logins, LoadHead(l) PROVE IInv'
  BY <1>1, <1>10, LoadHeadInv DEF IInv
<1>11. ASSUME NEW l \in Logins, Show(l) PROVE IInv'
  BY <1>1, <1>11, ShowInv DEF IInv
<1>12. ASSUME NEW l \in Logins, Unflag(l) \/ Leave(l) PROVE IInv'
  BY <1>1, <1>12, EndReadingInv DEF IInv
<1>13. CASE MailMsg
  BY <1>1, <1>13, MailMsgInv DEF IInv
<1>14. CASE Unlink
  BY <1>1, <1>14, UnlinkInv DEF IInv
<1>15. CASE UNCHANGED vars
  BY <1>15, StutterInv
<1>16. CASE Abort
  BY <1>1, <1>16, AbortInv DEF IInv
<1>17. CASE Next
  BY <1>2, <1>3, <1>4, <1>5, <1>6, <1>7, <1>8, <1>9, <1>10, <1>11, <1>12, <1>13, <1>14, <1>16, <1>17,
     OpenIndexInv, OpenContentInv, OpenIndex2Inv, TakeInv DEF Next
<1> QED BY <1>15, <1>17

\* What the invariant says of the box, its readers and its senders.
LEMMA Consequences ==
  IInv => TypeOK /\ NothingSkipped /\ TextMatches /\ UnreadBounded /\ SpinOnlyWithOther
          /\ AcceptedKept /\ TakenIsShown
<1> SUFFICES ASSUME IInv
             PROVE  TypeOK /\ NothingSkipped /\ TextMatches /\ UnreadBounded /\ SpinOnlyWithOther
                    /\ AcceptedKept /\ TakenIsShown
  OBVIOUS
<1>1. PICK K : KInv(K)
  BY DEF IInv
<1>2. /\ Types /\ Kinds(K) /\ DiskKinds(K) /\ Once(K) /\ Pointers(K) /\ Texts /\ Reading /\ Alone
      /\ Kept /\ Taking /\ Limit
  BY <1>1 DEF KInv, Kinds, Rest
<1>3. TypeOK
  <2>1. \A i \in 1..Len(disk) : disk[i].first \in Nat
    <3>1. \A i \in 1..Len(disk) : disk[i] \in Inodes
      BY <1>2 DEF Types
    <3> QED BY <3>1 DEF Inodes
  <2>2. ASSUME NEW s \in Senders PROVE sd[s].m \in 0..sent /\ sd[s].to \in Logins \cup {0}
    <3>1. sd[s] \in SenderStates /\ sd[s].m <= sent /\ sent \in Nat
      BY <1>2 DEF Types
    <3> QED BY <3>1 DEF SenderStates
  <2>3. ASSUME NEW l \in Logins
        PROVE  rd[l].now \in (IF rd[l].pc = "show" THEN 0 ELSE -1)..MaxEvents
    <3>1. rd[l] \in ReaderStates /\ sent \in 0..MaxEvents /\ MaxEvents \in Nat
      BY <1>2, MsgAssumption DEF Types
    <3>2. ReadingOf(l, rd[l])
      BY <1>2 DEF Reading
    <3>3. rd[l].now \in Nat \cup {-1}
      BY <3>1 DEF ReaderStates
    <3>4. rd[l].now <= MaxEvents
      BY <3>1, <3>2, <3>3 DEF ReadingOf
    <3>5. rd[l].pc = "show" => rd[l].now >= 0
      BY <3>2 DEF ReadingOf
    <3> QED BY <3>1, <3>3, <3>4, <3>5
  <2> QED BY <1>2, <2>1, <2>2, <2>3 DEF Types, TypeOK
<1>4. NothingSkipped
  <2>1. again => overlap
    BY <1>2 DEF Pointers
  <2>2. ASSUME NEW i \in 1..Len(disk), NEW k \in 1..disk[i].first
        PROVE  k <= Len(disk[i].recs) /\ \E x \in took : x[1] = disk[i].recs[k].m
    <3>1. disk[i] \in Inodes /\ Len(disk[i].recs) \in Nat
      BY <1>2, RecordAt DEF Types
    <3>2. disk[i].first <= Len(disk[i].recs) /\ IsTaken(disk[i].recs[k].m)
      BY <1>2 DEF Pointers
    <3> QED BY <3>1, <3>2 DEF IsTaken, Inodes
  <2> QED BY <2>1, <2>2 DEF NothingSkipped
<1>5. UnreadBounded
  <2>1. UnderWay \in SUBSET Senders
    BY DEF UnderWay
  <2>2. Cardinality(UnderWay) \in Nat /\ Cardinality(UnreadLimited) \in Nat
        /\ MAXMESSAGE \in Nat /\ Cardinality(Senders) \in Nat
    BY <1>2, <2>1, Finite, UnreadFinite, MsgAssumption
  <2> QED BY <1>2, <2>2 DEF Limit, UnreadBounded
<1>6. ASSUME NEW l \in Logins, Spinning(l) PROVE rd[l].other
  <2> SUFFICES ASSUME ~rd[l].other PROVE FALSE
    OBVIOUS
  <2>1. rd[l].pc = "take" /\ ~rd[l].first /\ get_unreadcount = 0
    BY <1>6 DEF Spinning
  <2>2. /\ ~rd[l].cleared /\ name["msgindex2"] # 0
        /\ Index2.first = rd[l].now + 1 /\ rd[l].now + 1 < rd[l].count
    BY <1>2, <2>1 DEF Alone, AloneOf
  <2>3. rd[l].count \in Nat /\ rd[l].now \in Int /\ rd[l].now >= -1
    BY <1>2 DEF Types, ReaderStates
  <2>4. rd[l].count <= Len(Index2.recs)
    BY <1>2, <2>1, <2>2, <2>3 DEF Reading, ReadingOf
  <2>5. name["msgindex2"] \in 1..Len(disk)
    BY <1>2, <2>2 DEF Types, Files
  <2>6. Len(Index2.recs) \in Nat
    BY <1>2, <2>5, RecordAt DEF Index2
  <2>7. Len(Index2.recs) - Index2.first \in Int /\ Len(Index2.recs) - Index2.first > 0
    BY <2>2, <2>3, <2>4, <2>6, SMTT(40)
  <2>8. get_unreadcount = Max({0, Len(Index2.recs) - Index2.first})
    BY <2>2 DEF get_unreadcount, Recs, Index2
  <2> QED BY <2>1, <2>7, <2>8, MaxOfTwo
<1>7. TakenIsShown
  <2> SUFFICES ASSUME NEW x \in took, x[3] = x[2], x[2] \in Telnet \cap alive, rd[x[2]].pc = "idle",
                      ~(mail.runs > 0)
               PROVE  \E y \in shown : y[1] = x[2] /\ y[2] = x[1]
    BY DEF TakenIsShown
  <2>1. mail.runs = 0
    BY <1>2 DEF Types
  <2>2. ~Pending(x[2], x[1])
    BY DEF Pending
  <2> QED BY <1>2, <2>1, <2>2 DEF Taking, IsShown
<1> QED BY <1>2, <1>3, <1>4, <1>5, <1>6, <1>7 DEF Texts, Kept, SpinOnlyWithOther

\* The invariant holds in every reachable state.
LEMMA Invariance == Spec => []IInv
BY InitInv, StepInv, PTL DEF Spec

-----------------------------------------------------------------------------
(* The properties of the message box, for any number of logins, of senders
   and of messages. *)

\* The values of the state have their types throughout.
THEOREM TypeCorrect == Spec => []TypeOK
BY Invariance, Consequences, PTL

\* get_unreadmsg: the number in msgindex2 passes only messages that some call
\* returned, and none is returned twice while the read lock is not shared.
THEOREM NoneSkipped == Spec => []NothingSkipped
BY Invariance, Consequences, PTL

\* save_msgtext and load_msgtext: a head comes with the text sent with it,
\* because msgindex stays locked while size of msgcontent is read and both
\* are written.
THEOREM HeadHasItsText == Spec => []TextMatches
BY Invariance, Consequences, PTL

\* sendmsgfunc: the limit looked up before the message is written is passed
\* by no more than one message of each sender.
THEOREM LimitHolds == Spec => []UnreadBounded
BY Invariance, Consequences, PTL

\* r_msg: its loop cannot run out of messages by itself.
THEOREM SpinNeedsAnother == Spec => []SpinOnlyWithOther
BY Invariance, Consequences, PTL

\* What was accepted is in both indexes or was mailed.
THEOREM NothingLost == Spec => []AcceptedKept
BY Invariance, Consequences, PTL

\* r_msg: a telnet login displays the message of its own that it took.
THEOREM TakenComesUp == Spec => []TakenIsShown
BY Invariance, Consequences, PTL

-----------------------------------------------------------------------------
(* Signals: what wakes a login is counted in tokens.  Only an r_msg that will look at the
   msgindex2 there is now counts (Sees): one that has a removed file open wakes nobody. *)

\* The tokens of finitely many logins are finitely many.
LEMMA TokensFinite ==
  ASSUME NEW w \in [Telnet -> Nat]
  PROVE  IsFiniteSet(Tokens(w)) /\ Cardinality(Tokens(w)) \in Nat
<1> DEFINE T == {{l} \X (1..w[l]) : l \in Telnet}
<1>1. IsFiniteSet(Telnet)
  BY MsgAssumption
<1>2. IsFiniteSet(T)
  <2> DEFINE f == [l \in Telnet |-> {l} \X (1..w[l])]
  <2>1. f \in Surjection(Telnet, T)
    BY DEF Surjection
  <2> QED BY <1>1, <2>1, FS_Surjection
<1>3. ASSUME NEW S \in T PROVE IsFiniteSet(S)
  <2>1. PICK l \in Telnet : S = {l} \X (1..w[l])
    OBVIOUS
  <2>2. IsFiniteSet({l})
    BY FS_Singleton
  <2>3. IsFiniteSet(1..w[l])
    <3>1. 1 \in Int /\ w[l] \in Int
      OBVIOUS
    <3> QED BY <3>1, FS_Interval
  <2> QED BY <2>1, <2>2, <2>3, FS_Product
<1>4. IsFiniteSet(UNION T)
  BY <1>2, <1>3, FS_UNION
<1> QED BY <1>4, FS_CardinalityType DEF Tokens

\* A token is a login and a number up to what the login has.
LEMMA TokenOf ==
  ASSUME NEW w \in [Telnet -> Nat], NEW x
  PROVE  x \in Tokens(w) <=> \E l \in Telnet : \E i \in 1..w[l] : x = <<l, i>>
BY DEF Tokens

\* Login l has lost one at most, the others none.
LEMMA OneLess ==
  ASSUME NEW w \in [Telnet -> Nat], NEW v \in [Telnet -> Nat], NEW l \in Telnet,
         w[l] <= v[l] + 1, \A k \in Telnet : k # l => w[k] <= v[k]
  PROVE  Cardinality(Tokens(w)) <= Cardinality(Tokens(v)) + 1
<1> DEFINE x == <<l, v[l] + 1>>
<1>1. /\ IsFiniteSet(Tokens(v)) /\ Cardinality(Tokens(v)) \in Nat /\ Cardinality(Tokens(w)) \in Nat
  BY TokensFinite
<1>2. Tokens(w) \subseteq Tokens(v) \cup {x}
  <2>1. ASSUME NEW y \in Tokens(w) PROVE y \in Tokens(v) \/ y = x
    <3>1. PICK k \in Telnet : \E i \in 1..w[k] : y = <<k, i>>
      BY TokenOf
    <3>2. PICK i \in 1..w[k] : y = <<k, i>>
      BY <3>1
    <3>3. CASE i \in 1..v[k]
      BY <3>2, <3>3, TokenOf
    <3>4. CASE i \notin 1..v[k]
      <4>1. k = l /\ i = v[l] + 1
        BY <3>4
      <4> QED BY <3>2, <4>1
    <3> QED BY <3>3, <3>4
  <2> QED BY <2>1
<1> HIDE DEF x
<1>3. /\ IsFiniteSet(Tokens(v) \cup {x})
      /\ Cardinality(Tokens(v) \cup {x}) <= Cardinality(Tokens(v)) + 1
  <2>1. /\ IsFiniteSet(Tokens(v) \cup {x})
        /\ \/ Cardinality(Tokens(v) \cup {x}) = Cardinality(Tokens(v))
           \/ Cardinality(Tokens(v) \cup {x}) = Cardinality(Tokens(v)) + 1
    BY <1>1, FS_AddElement
  <2> QED BY <1>1, <2>1
<1>4. Cardinality(Tokens(w)) <= Cardinality(Tokens(v) \cup {x})
      /\ Cardinality(Tokens(v) \cup {x}) \in Nat
  BY <1>2, <1>3, FS_Subset, FS_CardinalityType
<1> QED BY <1>1, <1>3, <1>4

\* No login has lost any.
LEMMA NoneLess ==
  ASSUME NEW w \in [Telnet -> Nat], NEW v \in [Telnet -> Nat], \A k \in Telnet : w[k] <= v[k]
  PROVE  Cardinality(Tokens(w)) <= Cardinality(Tokens(v))
<1>1. Tokens(w) \subseteq Tokens(v)
  <2>1. ASSUME NEW y \in Tokens(w) PROVE y \in Tokens(v)
    <3>1. PICK k \in Telnet : \E i \in 1..w[k] : y = <<k, i>>
      BY TokenOf
    <3>2. PICK i \in 1..w[k] : y = <<k, i>>
      BY <3>1
    <3>3. i \in 1..v[k]
      OBVIOUS
    <3> QED BY <3>2, <3>3, TokenOf
  <2> QED BY <2>1
<1> QED BY <1>1, TokensFinite, FS_Subset

\* No login has lost any, and login l has got one.
LEMMA OneMore ==
  ASSUME NEW w \in [Telnet -> Nat], NEW v \in [Telnet -> Nat], NEW l \in Telnet,
         w[l] + 1 <= v[l], \A k \in Telnet : w[k] <= v[k]
  PROVE  Cardinality(Tokens(w)) + 1 <= Cardinality(Tokens(v))
<1> DEFINE x == <<l, w[l] + 1>>
<1>1. /\ IsFiniteSet(Tokens(v)) /\ IsFiniteSet(Tokens(w))
      /\ Cardinality(Tokens(v)) \in Nat /\ Cardinality(Tokens(w)) \in Nat
  BY TokensFinite
<1>2. x \notin Tokens(w) /\ x \in Tokens(v)
  <2>1. w[l] + 1 \in 1..v[l] /\ w[l] + 1 \notin 1..w[l]
    OBVIOUS
  <2> QED BY <2>1, TokenOf
<1>3. Tokens(w) \subseteq Tokens(v)
  <2>1. ASSUME NEW y \in Tokens(w) PROVE y \in Tokens(v)
    <3>1. PICK k \in Telnet : \E i \in 1..w[k] : y = <<k, i>>
      BY TokenOf
    <3>2. PICK i \in 1..w[k] : y = <<k, i>>
      BY <3>1
    <3>3. i \in 1..v[k]
      OBVIOUS
    <3> QED BY <3>2, <3>3, TokenOf
  <2> QED BY <2>1
<1> HIDE DEF x
<1>4. Cardinality(Tokens(w) \cup {x}) = Cardinality(Tokens(w)) + 1
  BY <1>1, <1>2, FS_AddElement
<1>5. Cardinality(Tokens(w) \cup {x}) <= Cardinality(Tokens(v))
  BY <1>1, <1>2, <1>3, FS_Subset
<1> QED BY <1>1, <1>4, <1>5

\* Login l has an r_msg that has not yet looked at the msgindex2 there is now.
Sees(l) == Looking(l) /\ (rd[l].pc = "bump" => rd[l].fd = name["msgindex2"])
Awake == [l \in Telnet |-> msg_count[l] + (IF flag[l] THEN 1 ELSE 0) + (IF Sees(l) THEN 1 ELSE 0)]
Exempt == overlap \/ \E l \in Web : flag[l]
Total == unsig + Cardinality(ToNotify) + Cardinality(Tokens(Awake))
Covered == unsig \in Nat /\ (Exempt \/ get_unreadcount <= Total)

\* What is added up are numbers.
Counts ==
    /\ get_unreadcount \in Nat
    /\ IsFiniteSet(ToNotify) /\ Cardinality(ToNotify) \in Nat
    /\ Awake \in [Telnet -> Nat] /\ Cardinality(Tokens(Awake)) \in Nat
    /\ \A l \in Telnet : Awake[l] = msg_count[l] + (IF flag[l] THEN 1 ELSE 0)
                                    + (IF Sees(l) THEN 1 ELSE 0)

\* The types of what is counted follow from those of the state.
LEMMA CountsAreNumbers == Types => Counts
<1> SUFFICES ASSUME Types PROVE Counts
  OBVIOUS
<1>1. get_unreadcount \in Nat
  BY UnreadAtMost
<1>2. ToNotify \in SUBSET Senders
  BY DEF ToNotify
<1>3. IsFiniteSet(ToNotify) /\ Cardinality(ToNotify) \in Nat
  BY <1>2, Finite
<1>4. Awake \in [Telnet -> Nat]
  <2>1. msg_count \in [Telnet -> Nat]
    BY DEF Types
  <2>2. \A l \in Telnet : msg_count[l] \in Nat
    BY <2>1
  <2>3. \A l \in Telnet : msg_count[l] + (IF flag[l] THEN 1 ELSE 0) + (IF Sees(l) THEN 1 ELSE 0) \in Nat
    BY <2>2
  <2> QED BY <2>3 DEF Awake
<1>5. Cardinality(Tokens(Awake)) \in Nat
  BY <1>4, TokensFinite
<1>6. \A l \in Telnet : Awake[l] = msg_count[l] + (IF flag[l] THEN 1 ELSE 0)
                                   + (IF Sees(l) THEN 1 ELSE 0)
  BY DEF Awake
<1> QED BY <1>1, <1>3, <1>4, <1>5, <1>6 DEF Counts

\* A step keeps the sum above the unread messages if it covers them by unsig
\* alone, or adds as much to it as to them.
LEMMA CoveredStep ==
  ASSUME Counts, Counts', Covered, unsig' \in Nat,
         \/ Exempt'
         \/ get_unreadcount' <= unsig'
         \/ ~Exempt /\ get_unreadcount' + Total <= get_unreadcount + Total'
  PROVE  Covered'
<1>1. Total \in Nat /\ Total' \in Nat /\ unsig' <= Total'
  BY DEF Counts, Covered, Total
<1>2. get_unreadcount \in Nat /\ get_unreadcount' \in Nat
  BY DEF Counts
<1>3. CASE Exempt'
  BY <1>3 DEF Covered
<1>4. CASE get_unreadcount' <= unsig'
  BY <1>1, <1>2, <1>4 DEF Covered, Counts
<1>5. CASE ~Exempt /\ get_unreadcount' + Total <= get_unreadcount + Total'
  <2>1. get_unreadcount <= Total
    BY <1>5 DEF Covered
  <2>2. \A a, b, c, d \in Nat : a + c <= b + d /\ b <= c => a <= d
    OBVIOUS
  <2>3. get_unreadcount' <= Total'
    BY <1>1, <1>2, <1>5, <2>1, <2>2
  <2> QED BY <2>3 DEF Covered
<1> QED BY <1>3, <1>4, <1>5

\* Nothing that is added up changes.
LEMMA CoveredFrame ==
  ASSUME Counts, Counts', Covered, UNCHANGED <<flag, msg_count, unsig>>, overlap => overlap',
         get_unreadcount' = get_unreadcount, ToNotify' = ToNotify,
         \A l \in Telnet : Sees(l)' <=> Sees(l)
  PROVE  Covered'
<1>1. Awake' = Awake
  BY DEF Awake
<1>2. Total' = Total /\ Total \in Nat
  BY <1>1 DEF Total, Counts, Covered
<1>3. Exempt' \/ ~Exempt
  BY DEF Exempt
<1>4. unsig' \in Nat /\ get_unreadcount \in Nat
  BY DEF Covered, Counts
<1> QED BY <1>2, <1>3, <1>4, CoveredStep

\* The unread messages are those of the file that has the name.
LEMMA SameUnread ==
  ASSUME name'["msgindex2"] = name["msgindex2"], name["msgindex2"] # 0 => Index2' = Index2
  PROVE  get_unreadcount' = get_unreadcount
BY DEF get_unreadcount, Recs, Index2

\* A file that is created does not become that of a reader, nor has it messages.
LEMMA CreatUnread ==
  ASSUME NEW K, Types, DiskKinds(K), NEW f \in Files, Creat(f)
  PROVE  /\ get_unreadcount' = get_unreadcount
         /\ \A i \in 1..Len(disk) : i = name'["msgindex2"] <=> i = name["msgindex2"]
<1>1. PICK KK : Created(f, K, KK)
  BY CreatFacts
<1>2. "msgindex2" \in Files /\ name["msgindex2"] \in 0..Len(disk) /\ Len(disk) \in Nat
  BY LenProperties DEF Files, Types
<1>3. CASE name'["msgindex2"] = name["msgindex2"]
  <2>1. name["msgindex2"] # 0 => Index2' = Index2
    BY <1>1, <1>2, <1>3 DEF Created, Index2
  <2> QED BY <1>3, <2>1, SameUnread
<1>4. CASE name'["msgindex2"] # name["msgindex2"]
  <2>1. name["msgindex2"] = 0 /\ f = "msgindex2" /\ name'[f] \notin 1..Len(disk)
        /\ name'[f] \in 1..Len(disk')
    BY <1>1, <1>2, <1>4 DEF Created
  <2>2. get_unreadcount = 0
    BY <2>1 DEF get_unreadcount
  <2>3. disk'[name'[f]].first = 0 /\ Len(disk'[name'[f]].recs) = 0
    BY <1>1, <2>1 DEF Created
  <2>4. name'["msgindex2"] # 0
    BY <1>1, <2>1 DEF Created
  <2>5. get_unreadcount' = Max({0, Len(disk'[name'["msgindex2"]].recs) - disk'[name'["msgindex2"]].first})
    BY <2>4 DEF get_unreadcount, Recs
  <2>6. Max({0, 0 - 0}) = 0
    BY MaxOfTwo
  <2>7. get_unreadcount' = 0
    BY <2>1, <2>3, <2>5, <2>6
  <2>8. \A i \in 1..Len(disk) : i # name'["msgindex2"] /\ i # name["msgindex2"]
    BY <1>2, <2>1
  <2> QED BY <2>2, <2>7, <2>8
<1> QED BY <1>3, <1>4

\* The sum over a step: unsig, the senders about to signal and the tokens grow by at least u, n and t.
LEMMA TotalGrows ==
  ASSUME Counts, Counts', Covered, unsig' \in Nat, NEW u \in Int, NEW n \in Int, NEW t \in Int,
         unsig + u <= unsig', Cardinality(ToNotify) + n <= Cardinality(ToNotify)',
         Cardinality(Tokens(Awake)) + t <= Cardinality(Tokens(Awake))'
  PROVE  Total \in Nat /\ Total' \in Nat /\ Total + (u + n + t) <= Total'
<1>1. \A a, b, c, x, y, z \in Nat : a + u <= x /\ b + n <= y /\ c + t <= z
        => (a + b + c) + (u + n + t) <= x + y + z
  OBVIOUS
<1>2. unsig \in Nat /\ Cardinality(ToNotify) \in Nat /\ Cardinality(ToNotify)' \in Nat
      /\ Cardinality(Tokens(Awake)) \in Nat /\ Cardinality(Tokens(Awake))' \in Nat
  BY DEF Counts, Covered
<1>3. Total + (u + n + t) <= Total'
  BY <1>1, <1>2 DEF Total
<1> QED BY <1>2, <1>3 DEF Total

\* The unread messages grow by no more than the sum does.
LEMMA CoveredGrows ==
  ASSUME Counts, Counts', Covered, unsig' \in Nat, NEW u \in Int, NEW n \in Int, NEW t \in Int,
         unsig + u <= unsig', Cardinality(ToNotify) + n <= Cardinality(ToNotify)',
         Cardinality(Tokens(Awake)) + t <= Cardinality(Tokens(Awake))',
         Exempt' \/ (~Exempt /\ get_unreadcount' <= get_unreadcount + (u + n + t))
  PROVE  Covered'
<1>1. Total \in Nat /\ Total' \in Nat /\ Total + (u + n + t) <= Total'
  BY TotalGrows
<1>2. get_unreadcount \in Nat /\ get_unreadcount' \in Nat
  BY DEF Counts
<1>3. \A a, b, c, d \in Nat, e \in Int : a <= b + e /\ c + e <= d => a + c <= b + d
  OBVIOUS
<1>4. u + n + t \in Int
  OBVIOUS
<1>5. get_unreadcount' <= get_unreadcount + (u + n + t)
        => get_unreadcount' + Total <= get_unreadcount + Total'
  BY <1>1, <1>2, <1>3, <1>4
<1> QED BY <1>5, CoveredStep

\* The senders about to signal, when sender s moves.
LEMMA SenderMoves ==
  ASSUME Types, Counts, NEW s \in Senders, NEW y \in SenderStates, sd' = [sd EXCEPT ![s] = y]
  PROVE  /\ sd[s].pc # "notify" /\ y.pc # "notify" => ToNotify' = ToNotify
         /\ sd[s].pc # "notify" /\ y.pc = "notify"
              => Cardinality(ToNotify') = Cardinality(ToNotify) + 1
         /\ sd[s].pc = "notify" /\ y.pc # "notify"
              => Cardinality(ToNotify') = Cardinality(ToNotify) - 1
<1>1. /\ sd'[s] = y /\ \A t \in Senders : t # s => sd'[t] = sd[t]
  BY DEF Types
<1>2. sd[s].pc # "notify" /\ y.pc # "notify" => ToNotify' = ToNotify
  BY <1>1 DEF ToNotify
<1>3. sd[s].pc # "notify" /\ y.pc = "notify" => ToNotify' = ToNotify \cup {s} /\ s \notin ToNotify
  BY <1>1 DEF ToNotify
<1>4. sd[s].pc = "notify" /\ y.pc # "notify" => ToNotify' = ToNotify \ {s} /\ s \in ToNotify
  BY <1>1 DEF ToNotify
<1>5. IsFiniteSet(ToNotify)
  BY DEF Counts
<1>6. Cardinality(ToNotify \cup {s}) = IF s \in ToNotify THEN Cardinality(ToNotify) ELSE Cardinality(ToNotify) + 1
  BY <1>5, FS_AddElement
<1>7. Cardinality(ToNotify \ {s}) = IF s \in ToNotify THEN Cardinality(ToNotify) - 1 ELSE Cardinality(ToNotify)
  BY <1>5, FS_RemoveElement
<1> QED BY <1>2, <1>3, <1>4, <1>6, <1>7

\* Sending, opening and locking files wakes nobody and saves nothing.
LEMMA SavingCovered ==
  ASSUME NEW K, KInv(K), Counts, Counts', Covered, NEW s \in Senders,
         \/ \E l \in Logins, mode \in Modes : Send(s, l, mode)
         \/ OpenIndex(s) \/ OpenContent(s) \/ LockIndex(s) \/ WriteHead(s) \/ WriteText(s) \/ OpenIndex2(s)
  PROVE  Covered'
<1>1. /\ Types /\ DiskKinds(K) /\ SenderKinds(K, sd[s]) /\ \A l \in Logins : ReaderKinds(K, rd[l])
      /\ Telnet \subseteq Logins
  BY DEF KInv, Kinds, Logins
<1>2. UNCHANGED <<flag, msg_count, rd, unsig, overlap>>
  BY DEF Send, OpenIndex, OpenContent, LockIndex, WriteHead, WriteText, OpenIndex2, ghosts
<1>3. ToNotify' = ToNotify
  <2> DEFINE Quiet == /\ \A t \in Senders : t # s => sd'[t] = sd[t]
                      /\ sd[s].pc # "notify" /\ sd'[s].pc # "notify"
  <2>0. sd \in [Senders -> SenderStates] /\ sd[s] \in SenderStates
    BY <1>1 DEF Types
  <2>2. ASSUME NEW l \in Logins, NEW mode \in Modes, Send(s, l, mode) PROVE Quiet
    <3>1. PICK y : y = [IdleSender EXCEPT !.pc = "search", !.m = sent + 1, !.to = l, !.mode = mode]
      OBVIOUS
    <3>2. sd' = [sd EXCEPT ![s] = y] /\ y.pc = "search" /\ sd[s].pc = "idle"
      BY <2>2, <3>1 DEF Send, IdleSender
    <3> QED BY <2>0, <3>2
  <2>3. ASSUME OpenIndex(s) PROVE Quiet
    <3>1. IdleSender.pc = "idle"
      BY DEF IdleSender
    <3>2. sd[s].pc = "search" /\ (sd' = [sd EXCEPT ![s].pc = "openc", ![s].fd = Inode("msgindex")]
                                  \/ sd' = [sd EXCEPT ![s] = IdleSender])
      BY <2>3 DEF OpenIndex
    <3> QED BY <2>0, <3>1, <3>2 DEF SenderStates
  <2>4. ASSUME OpenContent(s) \/ LockIndex(s) PROVE Quiet
    BY <2>0, <2>4 DEF OpenContent, LockIndex, SenderStates
  <2>5. ASSUME WriteHead(s) \/ WriteText(s) \/ OpenIndex2(s) PROVE Quiet
    BY <2>0, <2>5 DEF WriteHead, WriteText, OpenIndex2, SenderStates
  <2>1. Quiet
    BY <2>2, <2>3, <2>4, <2>5
  <2> QED BY <2>1 DEF ToNotify
<1>4. \/ UNCHANGED <<name, disk>>
      \/ \E f \in Files : Creat(f)
      \/ WriteHead(s) \/ WriteText(s)
  BY DEF Send, OpenIndex, OpenContent, LockIndex, OpenIndex2, Files
<1>5. CASE UNCHANGED <<name, disk>>
  <2>1. get_unreadcount' = get_unreadcount /\ \A l \in Telnet : Sees(l)' <=> Sees(l)
    BY <1>2, <1>5 DEF get_unreadcount, Recs, Sees, Looking
  <2> QED BY <1>2, <1>3, <2>1, CoveredFrame
<1>6. ASSUME NEW f \in Files, Creat(f) PROVE Covered'
  <2>1. /\ get_unreadcount' = get_unreadcount
        /\ \A i \in 1..Len(disk) : i = name'["msgindex2"] <=> i = name["msgindex2"]
    BY <1>1, <1>6, CreatUnread
  <2>2. \A l \in Telnet : rd[l].pc = "bump" => rd[l].fd \in 1..Len(disk)
    BY <1>1 DEF ReaderKinds
  <2>3. \A l \in Telnet : Sees(l)' <=> Sees(l)
    BY <1>2, <2>1, <2>2 DEF Sees, Looking
  <2> QED BY <1>2, <1>3, <2>1, <2>3, CoveredFrame
<1>7. ASSUME WriteHead(s) \/ WriteText(s) PROVE Covered'
  <2>1. name["msgindex2"] # 0 => name["msgindex2"] \in 1..Len(disk) /\ K[name["msgindex2"]] = "msgindex2"
    BY <1>1 DEF DiskKinds, Files, Types
  <2>2. /\ name' = name /\ sd[s].pc \in {"write", "text"}
        /\ \/ disk' = [disk EXCEPT ![sd[s].fd].recs = Append(@, HeadOf(s))]
           \/ disk' = [disk EXCEPT ![sd[s].fd2].recs = WriteAt(@, sd[s].size, sd[s].m)]
    BY <1>7 DEF WriteHead, WriteText
  <2>3. K[sd[s].fd] = "msgindex" /\ K[sd[s].fd2] = "msgcontent"
    BY <1>1, <2>2 DEF SenderKinds
  <2>4. name["msgindex2"] # 0 => disk'[name["msgindex2"]] = disk[name["msgindex2"]]
    BY <1>1, <2>1, <2>2, <2>3 DEF Types
  <2>5. get_unreadcount' = get_unreadcount
    BY <2>2, <2>4, SameUnread DEF Index2
  <2>6. \A l \in Telnet : Sees(l)' <=> Sees(l)
    BY <1>2, <2>2 DEF Sees, Looking
  <2> QED BY <1>2, <1>3, <2>5, <2>6, CoveredFrame
<1> QED BY <1>4, <1>5, <1>6, <1>7

\* What get_unreadcount makes of the file that has the name.
UnreadIs ==
    /\ name["msgindex2"] = 0 => get_unreadcount = 0
    /\ name["msgindex2"] # 0 =>
         /\ Len(Index2.recs) \in Nat /\ Index2.first \in Nat
         /\ get_unreadcount = IF Len(Index2.recs) - Index2.first >= 0
                              THEN Len(Index2.recs) - Index2.first ELSE 0

\* That is get_unreadcount, by the types of the files.
LEMMA UnreadIsThat == Types => UnreadIs
<1> SUFFICES ASSUME Types PROVE UnreadIs
  OBVIOUS
<1>1. name["msgindex2"] = 0 => get_unreadcount = 0
  BY DEF get_unreadcount
<1>2. ASSUME name["msgindex2"] # 0
      PROVE  /\ Len(Index2.recs) \in Nat /\ Index2.first \in Nat
             /\ get_unreadcount = IF Len(Index2.recs) - Index2.first >= 0
                                  THEN Len(Index2.recs) - Index2.first ELSE 0
  <2>1. name["msgindex2"] \in 1..Len(disk)
    BY <1>2 DEF Types, Files
  <2>2. Index2 \in Inodes
    BY <2>1 DEF Types, Index2
  <2>3. Index2.first \in Nat /\ (Index2.recs \in Seq(Heads) \/ Index2.recs \in Seq(Nat))
    BY <2>2 DEF Inodes
  <2>4. Len(Index2.recs) \in Nat
    BY <2>3, LenProperties
  <2>5. get_unreadcount = Max({0, Len(Index2.recs) - Index2.first})
    BY <1>2 DEF get_unreadcount, Recs, Index2
  <2> QED BY <2>3, <2>4, <2>5, MaxOfTwo
<1> QED BY <1>1, <1>2 DEF UnreadIs

\* A message comes into the list, and its sender is about to signal.
LEMMA AppendCovered ==
  ASSUME NEW K, KInv(K), Types', Counts, Counts', Covered, NEW s \in Senders, AppendIndex2(s)
  PROVE  Covered'
<1>1. /\ Types /\ SenderKinds(K, sd[s]) /\ sd \in [Senders -> SenderStates] /\ disk \in Seq(Inodes)
  BY DEF KInv, Kinds, Types
<1>2. /\ UNCHANGED <<name, flag, msg_count, rd, unsig, overlap>> /\ sd[s].pc = "append2"
      /\ disk' = [disk EXCEPT ![sd[s].fd].recs = Append(@, HeadOf(s))]
      /\ sd' = [sd EXCEPT ![s].pc = "notify"]
  BY DEF AppendIndex2, ghosts
<1>3. Cardinality(ToNotify') = Cardinality(ToNotify) + 1
  <2>1. PICK y : y = [sd[s] EXCEPT !.pc = "notify"]
    OBVIOUS
  <2>2. y \in SenderStates /\ y.pc = "notify" /\ sd' = [sd EXCEPT ![s] = y]
    BY <1>1, <1>2, <2>1 DEF SenderStates
  <2> QED BY <1>1, <1>2, <2>2, SenderMoves
<1>4. get_unreadcount' <= get_unreadcount + 1
  <2>1. UnreadIs /\ UnreadIs'
    <3>1. Types' => UnreadIs'
      BY UnreadIsThat, PTL
    <3> QED BY <1>1, <3>1, UnreadIsThat
  <2>2. CASE name["msgindex2"] = 0
    BY <1>2, <2>1, <2>2 DEF UnreadIs
  <2>3. CASE name["msgindex2"] # 0 /\ name["msgindex2"] # sd[s].fd
    <3>1. Index2' = Index2
      <4>1. name["msgindex2"] \in 1..Len(disk)
        BY <1>1, <2>3 DEF Types, Files
      <4> QED BY <1>1, <1>2, <2>3, <4>1 DEF Index2
    <3>2. get_unreadcount' = get_unreadcount
      BY <1>2, <3>1, SameUnread
    <3> QED BY <3>2 DEF Counts
  <2>4. CASE name["msgindex2"] # 0 /\ name["msgindex2"] = sd[s].fd
    <3>1. sd[s].fd \in 1..Len(disk) /\ K[sd[s].fd] = "msgindex2"
      BY <1>1, <1>2 DEF SenderKinds
    <3>2. disk[sd[s].fd].recs \in Seq(Heads)
      BY <3>1 DEF KInv, Kinds, DiskKinds
    <3>3. HeadOf(s) \in Heads
      <4>1. sd[s].m \in Numbers /\ sd[s].to \in Logins /\ sd[s].mode \in Modes /\ sd[s].size \in Nat
        BY <1>1, <1>2 DEF KInv, Once, OnceOf, Unsaved, SenderStates, Numbers
      <4> QED BY <4>1 DEF HeadOf, Heads
    <3>4. Len(Append(disk[sd[s].fd].recs, HeadOf(s))) = Len(disk[sd[s].fd].recs) + 1
      BY <3>2, <3>3, AppendProperties
    <3>5. disk[sd[s].fd] \in Inodes
      BY <1>1, <3>1
    <3>6. /\ disk'[sd[s].fd].first = disk[sd[s].fd].first
          /\ disk'[sd[s].fd].recs = Append(disk[sd[s].fd].recs, HeadOf(s))
      BY <1>1, <1>2, <3>1, <3>5 DEF Inodes
    <3>7. Index2'.first = Index2.first /\ Len(Index2'.recs) = Len(Index2.recs) + 1
      BY <1>2, <2>4, <3>4, <3>6 DEF Index2
    <3> QED BY <1>2, <2>1, <2>4, <3>7 DEF UnreadIs
  <2> QED BY <2>2, <2>3, <2>4
<1>5. Awake' = Awake /\ (Exempt' <=> Exempt)
  BY <1>2 DEF Awake, Sees, Looking, Exempt
<1>6. /\ unsig' \in Nat /\ unsig + 0 <= unsig' /\ Cardinality(ToNotify) + 1 <= Cardinality(ToNotify)'
      /\ Cardinality(Tokens(Awake)) + 0 <= Cardinality(Tokens(Awake))'
  BY <1>2, <1>3, <1>5 DEF Counts, Covered
<1>7. get_unreadcount' <= get_unreadcount + (0 + 1 + 0)
  BY <1>4 DEF Counts
<1> QED BY <1>5, <1>6, <1>7, CoveredGrows

\* The signal is sent, or the sender is gone before: then nobody is woken.
LEMMA NotifyCovered ==
  ASSUME Types, Counts, Counts', Covered, NEW s \in Senders, Notify(s) \/ Die(s)
  PROVE  Covered'
<1>0. PICK l : l = sd[s].to
  OBVIOUS
<1>1. /\ UNCHANGED <<name, disk, msg_count, rd, overlap>> /\ sd \in [Senders -> SenderStates]
      /\ flag \in [Logins -> BOOLEAN] /\ alive \subseteq Logins /\ Logins = Telnet \cup Web
      /\ unsig \in Nat
  BY DEF Notify, Die, Types, Covered, Logins
<1>2. get_unreadcount' = get_unreadcount /\ get_unreadcount \in Nat
  BY <1>1 DEF get_unreadcount, Recs, Counts
<1>3. \A k \in Telnet : Sees(k)' <=> Sees(k)
  BY <1>1 DEF Sees, Looking
<1>4. ASSUME flag' = flag PROVE Cardinality(Tokens(Awake))' = Cardinality(Tokens(Awake)) /\ Exempt' = Exempt
  <2>1. Awake' = Awake
    BY <1>1, <1>3, <1>4 DEF Awake
  <2> QED BY <1>1, <1>4, <2>1 DEF Exempt
<1>5. CASE Notify(s)
  <2>1. /\ sd[s].pc = "notify" /\ sd' = [sd EXCEPT ![s] = IdleSender]
        /\ flag' = IF l \in alive THEN [flag EXCEPT ![l] = TRUE] ELSE flag
        /\ unsig' = IF l \in alive /\ ~flag[l] THEN unsig ELSE unsig + 1
    BY <1>0, <1>5 DEF Notify
  <2>2. Cardinality(ToNotify') = Cardinality(ToNotify) - 1
    <3>1. IdleSender \in SenderStates /\ IdleSender.pc = "idle"
      BY DEF IdleSender, SenderStates
    <3> QED BY <1>1, <2>1, <3>1, SenderMoves
  <2>3. Cardinality(ToNotify) + (-1) <= Cardinality(ToNotify)'
    BY <2>2 DEF Counts
  <2>4. CASE l \in alive /\ ~flag[l]
    <3>1. unsig' = unsig /\ flag' = [flag EXCEPT ![l] = TRUE] /\ l \in Telnet \cup Web
      BY <1>1, <2>1, <2>4
    <3>2. CASE l \in Web
      <4>1. Exempt'
        BY <1>1, <3>1, <3>2 DEF Exempt
      <4> QED BY <1>1, <3>1, <4>1, CoveredStep
    <3>3. CASE l \in Telnet
      <4>1. \A k \in Telnet : Awake[k] = msg_count[k] + (IF flag[k] THEN 1 ELSE 0)
                                         + (IF Sees(k) THEN 1 ELSE 0)
        BY DEF Counts
      <4>2. \A k \in Telnet : Awake'[k] = msg_count[k] + (IF flag'[k] THEN 1 ELSE 0)
                                          + (IF Sees(k) THEN 1 ELSE 0)
        BY <1>1, <1>3 DEF Awake
      <4>3. Awake \in [Telnet -> Nat] /\ Awake' \in [Telnet -> Nat]
        BY DEF Counts
      <4>4. \A k \in Telnet : msg_count[k] \in Nat
        BY DEF Types
      <4>5. flag'[l] /\ \A k \in Telnet : k # l => flag'[k] = flag[k]
        BY <1>1, <3>1
      <4>6. Awake[l] + 1 <= Awake'[l] /\ \A k \in Telnet : Awake[k] <= Awake'[k]
        BY <2>4, <3>3, <4>1, <4>2, <4>4, <4>5
      <4>7. Cardinality(Tokens(Awake)) + 1 <= Cardinality(Tokens(Awake'))
        BY <3>3, <4>3, <4>6, OneMore
      <4>8. Exempt => Exempt'
        BY <1>1, <3>1 DEF Exempt
      <4>9. unsig + 0 <= unsig' /\ unsig' \in Nat /\ get_unreadcount' <= get_unreadcount + (0 + (-1) + 1)
        BY <1>1, <1>2, <3>1
      <4>10. Tokens(Awake') = Tokens(Awake)'
        BY DEF Tokens
      <4> QED BY <2>3, <4>7, <4>8, <4>9, <4>10, CoveredGrows
    <3> QED BY <3>1, <3>2, <3>3
  <2>5. CASE ~(l \in alive /\ ~flag[l])
    <3>1. unsig' = unsig + 1 /\ flag' = flag
      BY <1>1, <2>1, <2>5
    <3>2. /\ unsig' \in Nat /\ unsig + 1 <= unsig'
          /\ get_unreadcount' <= get_unreadcount + (1 + (-1) + 0)
      BY <1>1, <1>2, <3>1
    <3>3. Cardinality(Tokens(Awake)) + 0 <= Cardinality(Tokens(Awake))' /\ (Exempt' = Exempt)
      BY <1>4, <3>1 DEF Counts
    <3> QED BY <2>3, <3>2, <3>3, CoveredGrows
  <2> QED BY <2>4, <2>5
<1>6. CASE Die(s)
  <2>1. PICK y : y = [IdleSender EXCEPT !.pc = "dead"]
    OBVIOUS
  <2>2. /\ sd' = [sd EXCEPT ![s] = y] /\ flag' = flag
        /\ unsig' = IF sd[s].pc = "notify" THEN unsig + 1 ELSE unsig
    BY <1>6, <2>1 DEF Die
  <2>3. y \in SenderStates /\ y.pc = "dead"
    BY <2>1 DEF IdleSender, SenderStates
  <2>4. CASE sd[s].pc = "notify"
    <3>1. Cardinality(ToNotify') = Cardinality(ToNotify) - 1
      BY <1>1, <2>2, <2>3, <2>4, SenderMoves
    <3>2. Cardinality(ToNotify) + (-1) <= Cardinality(ToNotify)'
      BY <3>1 DEF Counts
    <3>3. /\ unsig' \in Nat /\ unsig + 1 <= unsig'
          /\ get_unreadcount' <= get_unreadcount + (1 + (-1) + 0)
      BY <1>1, <1>2, <2>2, <2>4
    <3>4. Cardinality(Tokens(Awake)) + 0 <= Cardinality(Tokens(Awake))' /\ (Exempt' = Exempt)
      BY <1>4, <2>2 DEF Counts
    <3> QED BY <3>2, <3>3, <3>4, CoveredGrows
  <2>5. CASE sd[s].pc # "notify"
    <3>1. ToNotify' = ToNotify
      BY <1>1, <2>2, <2>3, <2>5, SenderMoves
    <3> QED BY <1>1, <1>2, <1>3, <2>2, <2>5, <3>1, CoveredFrame
  <2> QED BY <2>4, <2>5
<1> QED BY <1>5, <1>6

\* A login takes a signal, or answers one.
LEMMA AnswerCovered ==
  ASSUME Types, Types', Counts, Counts', Covered, NEW l \in Logins,
         r_msg_sig(l) \/ Answer(l) \/ CtrlZ(l) \/ WebPage(l)
  PROVE  Covered'
<1>1. /\ UNCHANGED <<name, disk, unsig, overlap>> /\ ToNotify' = ToNotify
      /\ flag \in [Logins -> BOOLEAN] /\ msg_count \in [Telnet -> Nat] /\ rd \in [Logins -> ReaderStates]
      /\ Logins = Telnet \cup Web /\ unsig' \in Nat /\ Telnet \cap Web = {}
  BY MsgAssumption DEF r_msg_sig, Answer, CtrlZ, WebPage, ghosts, Types, Covered, Logins, ToNotify
<1>2. get_unreadcount' = get_unreadcount /\ get_unreadcount \in Nat
  BY <1>1 DEF get_unreadcount, Recs, Counts
<1>3. /\ unsig + 0 <= unsig' /\ Cardinality(ToNotify) + 0 <= Cardinality(ToNotify)'
      /\ get_unreadcount' <= get_unreadcount + (0 + 0 + 0)
  BY <1>1, <1>2 DEF Counts
<1>4. /\ Awake \in [Telnet -> Nat] /\ Awake' \in [Telnet -> Nat]
      /\ \A k \in Telnet : Awake[k] = msg_count[k] + (IF flag[k] THEN 1 ELSE 0)
                                      + (IF Sees(k) THEN 1 ELSE 0)
  BY DEF Counts
<1>5. \A k \in Telnet : Awake'[k] = msg_count'[k] + (IF flag'[k] THEN 1 ELSE 0)
                                    + (IF Sees(k)' THEN 1 ELSE 0)
  BY DEF Awake
<1>6. /\ \A k \in Telnet : msg_count[k] \in Nat
      /\ \A k \in Web : flag'[k] = flag[k]
  BY <1>1 DEF r_msg_sig, Answer, CtrlZ, WebPage
<1>7. ASSUME \A k \in Telnet : Awake[k] <= Awake'[k] PROVE Covered'
  <2>1. Cardinality(Tokens(Awake)) <= Cardinality(Tokens(Awake'))
    BY <1>4, <1>7, NoneLess
  <2>2. Tokens(Awake') = Tokens(Awake)'
    BY DEF Tokens
  <2>3. Cardinality(Tokens(Awake)) + 0 <= Cardinality(Tokens(Awake))'
    BY <2>1, <2>2 DEF Counts
  <2>4. Exempt => Exempt'
    BY <1>1, <1>6 DEF Exempt
  <2> QED BY <1>1, <1>3, <2>3, <2>4, CoveredGrows
<1>8. CASE r_msg_sig(l)
  <2>1. /\ l \in Telnet /\ flag[l] /\ flag' = [flag EXCEPT ![l] = FALSE] /\ rd' = rd
        /\ msg_count' = [msg_count EXCEPT ![l] = @ + 1]
    BY <1>8 DEF r_msg_sig
  <2>2. \A k \in Telnet : Sees(k)' <=> Sees(k)
    BY <1>1, <2>1 DEF Sees, Looking
  <2>3. /\ msg_count'[l] = msg_count[l] + 1 /\ ~flag'[l]
        /\ \A k \in Telnet : k # l => msg_count'[k] = msg_count[k] /\ flag'[k] = flag[k]
    BY <1>1, <2>1
  <2>4. \A k \in Telnet : Awake[k] <= Awake'[k]
    BY <1>4, <1>5, <1>6, <2>1, <2>2, <2>3
  <2> QED BY <1>7, <2>4
<1>9. CASE get_msgcount("msgindex2") = 0
  <2>1. UnreadIs
    BY UnreadIsThat
  <2>2. get_unreadcount = 0
    BY <1>9, <2>1 DEF UnreadIs, get_msgcount, Recs, Index2
  <2>3. get_unreadcount' <= unsig'
    BY <1>1, <1>2, <2>2
  <2> QED BY <1>1, <2>3, CoveredStep
<1>10. CASE (Answer(l) \/ CtrlZ(l)) /\ get_msgcount("msgindex2") # 0
  <2>1. PICK y : y = [IdleReader EXCEPT !.pc = "take", !.count = get_msgcount("msgindex2")]
    OBVIOUS
  <2>2. /\ l \in Telnet /\ rd[l].pc = "idle" /\ flag' = flag /\ rd' = [rd EXCEPT ![l] = y]
    BY <1>10, <2>1 DEF Answer, CtrlZ, Begin
  <2>3. y.pc = "take" /\ y.first = TRUE
    BY <2>1 DEF IdleReader
  <2>4. rd'[l] = y /\ \A k \in Telnet : k # l => rd'[k] = rd[k]
    BY <1>1, <2>2
  <2>5. ~Sees(l) /\ Sees(l)'
    BY <2>2, <2>3, <2>4 DEF Sees, Looking
  <2>6. \A k \in Telnet : k # l => (Sees(k)' <=> Sees(k))
    BY <1>1, <2>4 DEF Sees, Looking
  <2>7. /\ msg_count'[l] + 1 >= msg_count[l] /\ msg_count'[l] \in Int
        /\ \A k \in Telnet : k # l => msg_count'[k] = msg_count[k]
    <3>1. msg_count' = msg_count \/ msg_count' = [msg_count EXCEPT ![l] = @ - 1]
      BY <1>10 DEF Answer, CtrlZ
    <3> QED BY <1>1, <2>2, <3>1
  <2>8. \A k \in Telnet : Awake[k] <= Awake'[k]
    BY <1>4, <1>5, <1>6, <2>2, <2>5, <2>6, <2>7
  <2> QED BY <1>7, <2>8
<1>11. CASE WebPage(l)
  <2>1. l \in Web /\ flag[l] /\ flag' = flag
    BY <1>11 DEF WebPage
  <2>2. Exempt'
    BY <2>1 DEF Exempt
  <2> QED BY <1>1, <2>2, CoveredStep
<1> QED BY <1>8, <1>9, <1>10, <1>11

\* get_unreadmsg has looked: there is nothing, or the login goes on with what it found.
LEMMA TakeCovered ==
  ASSUME NEW K, KInv(K), Types', Counts, Counts', Covered, NEW l \in Logins, Take(l)
  PROVE  Covered'
<1>0. PICK i : i = Inode("msgindex2")
  OBVIOUS
<1>1. /\ Types /\ DiskKinds(K) /\ (\A k \in Logins : ReaderKinds(K, rd[k])) /\ "msgindex2" \in Files
      /\ rd \in [Logins -> ReaderStates] /\ rd[l] \in ReaderStates /\ Telnet \subseteq Logins
  BY DEF KInv, Kinds, Files, Types, Logins
<1>2. /\ rd[l].pc = "take" /\ Creat("msgindex2") /\ UNCHANGED <<flag, msg_count, sd, unsig>>
      /\ overlap => overlap'
  BY DEF Take
<1>3. i = name'["msgindex2"] /\ name'["msgindex2"] # 0
  <2>1. \E KK : Created("msgindex2", K, KK)
    BY <1>1, <1>2, CreatFacts
  <2>2. name'["msgindex2"] = Inode("msgindex2")
    BY <1>1, <1>2, CreatFacts
  <2> QED BY <1>0, <2>1, <2>2 DEF Created
<1>4. /\ get_unreadcount' = get_unreadcount
      /\ \A j \in 1..Len(disk) : j = name'["msgindex2"] <=> j = name["msgindex2"]
  BY <1>1, <1>2, CreatUnread
<1>5. ToNotify' = ToNotify /\ unsig' \in Nat
  BY <1>2 DEF ToNotify, Covered
<1>6. ASSUME NEW k \in Telnet, rd'[k] = rd[k] PROVE Sees(k)' <=> Sees(k)
  <2>1. rd[k].pc = "bump" => rd[k].fd \in 1..Len(disk)
    BY <1>1 DEF ReaderKinds
  <2> QED BY <1>4, <1>6, <2>1 DEF Sees, Looking
<1>7. CASE disk'[i].first < Len(disk'[i].recs)
  <2>1. PICK y : y = [rd[l] EXCEPT !.pc = "bump", !.fd = i, !.now = disk'[i].first]
    OBVIOUS
  <2>2. rd' = [rd EXCEPT ![l] = y]
    BY <1>0, <1>1, <1>7, <2>1 DEF Take, ReaderStates
  <2>3. y.pc = "bump" /\ y.fd = i /\ y.first = rd[l].first
    BY <1>1, <2>1 DEF ReaderStates
  <2>4. rd'[l] = y /\ \A k \in Telnet : k # l => rd'[k] = rd[k]
    BY <1>1, <2>2
  <2>5. Sees(l)' <=> Sees(l)
    BY <1>2, <1>3, <2>3, <2>4 DEF Sees, Looking
  <2>6. \A k \in Telnet : Sees(k)' <=> Sees(k)
    BY <1>6, <2>4, <2>5
  <2> QED BY <1>2, <1>4, <1>5, <2>6, CoveredFrame
<1>8. CASE ~(disk'[i].first < Len(disk'[i].recs))
  <2>1. Types' => UnreadIs'
    BY UnreadIsThat, PTL
  <2>2. /\ Len(Index2'.recs) \in Nat /\ Index2'.first \in Nat
        /\ get_unreadcount' = IF Len(Index2'.recs) - Index2'.first >= 0
                              THEN Len(Index2'.recs) - Index2'.first ELSE 0
    BY <1>3, <2>1 DEF UnreadIs
  <2>3. ~(Index2'.first < Len(Index2'.recs))
    BY <1>3, <1>8 DEF Index2
  <2>4. get_unreadcount' = 0
    BY <2>2, <2>3
  <2>5. get_unreadcount' <= unsig'
    BY <1>5, <2>4
  <2> QED BY <1>5, <2>5, CoveredStep
<1> QED BY <1>7, <1>8

\* The pointer passes one message, and one r_msg has looked, unless it had another file open.
LEMMA BumpCovered ==
  ASSUME NEW K, KInv(K), Types', Counts, Counts', Covered, NEW l \in Logins, Bump(l)
  PROVE  Covered'
<1>1. PICK a, p : a = rd[l].fd /\ p = rd[l].now
  OBVIOUS
<1>2. /\ Types /\ DiskKinds(K) /\ ReaderKinds(K, rd[l]) /\ Pointers(K)
      /\ rd \in [Logins -> ReaderStates] /\ rd[l] \in ReaderStates /\ disk \in Seq(Inodes)
      /\ Telnet \subseteq Logins
  BY DEF KInv, Kinds, Types, Logins
<1>3. /\ rd[l].pc = "bump" /\ UNCHANGED <<name, flag, msg_count, sd, unsig, overlap>>
      /\ disk' = [disk EXCEPT ![a].first = p + 1]
      /\ rd' = [k \in Logins |-> IF k = l THEN [rd[l] EXCEPT !.pc = "head"]
                                 ELSE [rd[k] EXCEPT !.other = rd[k].pc # "idle"]]
  BY <1>1 DEF Bump
<1>4. /\ a \in 1..Len(disk) /\ p \in Nat /\ p < Len(disk[a].recs) /\ disk[a] \in Inodes
      /\ Len(disk[a].recs) \in Nat
  <2>1. a \in 1..Len(disk) /\ p \in 0..Len(disk[a].recs) - 1
    BY <1>1, <1>2, <1>3 DEF ReaderKinds
  <2>2. Len(disk[a].recs) \in Nat /\ disk[a] \in Inodes
    BY <1>2, <2>1, RecordAt
  <2> QED BY <2>1, <2>2
<1>5. /\ ~Sees(l)'
      /\ \A k \in Telnet : k # l => (Sees(k)' <=> Sees(k))
  <2>1. rd'[l].pc = "head"
    BY <1>2, <1>3 DEF ReaderStates
  <2>2. \A k \in Telnet : k # l =>
          rd'[k].pc = rd[k].pc /\ rd'[k].first = rd[k].first /\ rd'[k].fd = rd[k].fd
    <3>1. \A k \in Telnet : rd[k] \in ReaderStates
      BY <1>2
    <3> QED BY <1>2, <1>3, <3>1 DEF ReaderStates
  <2> QED BY <1>3, <2>1, <2>2 DEF Sees, Looking
<1>6. ToNotify' = ToNotify /\ unsig' \in Nat /\ (Exempt' <=> Exempt)
  BY <1>3 DEF ToNotify, Covered, Exempt
<1>7. /\ unsig + 0 <= unsig' /\ Cardinality(ToNotify) + 0 <= Cardinality(ToNotify)'
  BY <1>3, <1>6 DEF Counts, Covered
<1>8. \A k \in Telnet : k # l => Awake'[k] = Awake[k]
  BY <1>3, <1>5 DEF Awake
<1>9. CASE a # name["msgindex2"]
  <2>1. \A k \in Telnet : Sees(k)' <=> Sees(k)
    BY <1>1, <1>3, <1>5, <1>9 DEF Sees
  <2>2. get_unreadcount' = get_unreadcount
    <3>1. name["msgindex2"] # 0 => name["msgindex2"] \in 1..Len(disk)
      BY <1>2 DEF Types, Files
    <3>2. name["msgindex2"] # 0 => Index2' = Index2
      BY <1>2, <1>3, <1>9, <3>1 DEF Index2
    <3> QED BY <1>3, <3>2, SameUnread
  <2> QED BY <1>3, <1>6, <2>1, <2>2, CoveredFrame
<1>10. CASE a = name["msgindex2"]
  <2>0. name["msgindex2"] # 0 /\ name'["msgindex2"] # 0
    BY <1>3, <1>4, <1>10
  <2>1. Index2.first \in Nat /\ Len(Index2.recs) \in Nat
        /\ Index2'.first = p + 1 /\ Len(Index2'.recs) = Len(Index2.recs) /\ p < Len(Index2.recs)
    <3>1. disk'[a] = [disk[a] EXCEPT !.first = p + 1]
      BY <1>2, <1>3, <1>4
    <3>2. disk'[a].first = p + 1 /\ disk'[a].recs = disk[a].recs /\ disk[a].first \in Nat
      BY <1>4, <3>1 DEF Inodes
    <3> QED BY <1>3, <1>4, <1>10, <3>2 DEF Index2
  <2>2. ~overlap => Index2.first = p
    BY <1>1, <1>2, <1>3, <1>10 DEF Pointers, Index2
  <2>3. UnreadIs /\ UnreadIs'
    <3>1. Types' => UnreadIs'
      BY UnreadIsThat, PTL
    <3> QED BY <1>2, <3>1, UnreadIsThat
  <2>4. get_unreadcount = IF Len(Index2.recs) - Index2.first >= 0
                          THEN Len(Index2.recs) - Index2.first ELSE 0
    BY <2>0, <2>3 DEF UnreadIs
  <2>5. get_unreadcount' = IF Len(Index2'.recs) - Index2'.first >= 0
                           THEN Len(Index2'.recs) - Index2'.first ELSE 0
    BY <2>0, <2>3 DEF UnreadIs
  <2>6. ~overlap => get_unreadcount' <= get_unreadcount + (0 + 0 + (-1))
    BY <1>4, <2>1, <2>2, <2>4, <2>5
  <2>7. Exempt' \/ (~Exempt /\ get_unreadcount' <= get_unreadcount + (0 + 0 + (-1)))
    BY <1>6, <2>6 DEF Exempt
  <2>8. Cardinality(Tokens(Awake)) + (-1) <= Cardinality(Tokens(Awake))'
    <3>1. Awake \in [Telnet -> Nat] /\ Awake' \in [Telnet -> Nat]
          /\ Cardinality(Tokens(Awake)) \in Nat /\ Cardinality(Tokens(Awake))' \in Nat
      BY DEF Counts
    <3>2. Tokens(Awake') = Tokens(Awake)'
      BY DEF Tokens
    <3>3. Cardinality(Tokens(Awake)) <= Cardinality(Tokens(Awake')) + 1
      <4>1. CASE l \in Telnet
        <5>1. \A k \in Telnet : k # l => Awake[k] <= Awake'[k]
          BY <1>8, <3>1
        <5>2. Awake[l] = msg_count[l] + (IF flag[l] THEN 1 ELSE 0) + (IF Sees(l) THEN 1 ELSE 0)
          BY <4>1 DEF Counts
        <5>3. Awake'[l] = msg_count[l] + (IF flag[l] THEN 1 ELSE 0)
          <6>1. Awake'[l] = msg_count'[l] + (IF flag'[l] THEN 1 ELSE 0) + 0
            BY <1>5, <4>1 DEF Awake
          <6>2. msg_count[l] + (IF flag[l] THEN 1 ELSE 0) \in Nat
            <7>1. msg_count[l] \in Nat
              BY <1>2, <4>1 DEF Types
            <7> QED BY <7>1
          <6> QED BY <1>3, <6>1, <6>2
        <5>4. msg_count[l] \in Nat
          BY <1>2, <4>1 DEF Types
        <5>5. Awake[l] <= Awake'[l] + 1
          BY <5>2, <5>3, <5>4
        <5> QED BY <3>1, <4>1, <5>1, <5>5, OneLess
      <4>2. CASE l \notin Telnet
        <5>1. \A k \in Telnet : Awake[k] <= Awake'[k]
          BY <1>8, <3>1, <4>2
        <5>2. Cardinality(Tokens(Awake)) <= Cardinality(Tokens(Awake'))
          BY <3>1, <5>1, NoneLess
        <5> QED BY <3>1, <3>2, <5>2
      <4> QED BY <4>1, <4>2
    <3> QED BY <3>1, <3>2, <3>3
  <2> QED BY <1>6, <1>7, <2>7, <2>8, CoveredGrows
<1> QED BY <1>9, <1>10

\* A login that has read on, or ends; what CHECK_MSG or its signals stood for goes into unsig.
LEMMA ReaderCovered ==
  ASSUME Types, Counts, Counts', Covered, NEW l \in Logins,
         LoadHead(l) \/ Show(l) \/ Unflag(l) \/ Leave(l)
  PROVE  Covered'
<1>1. /\ UNCHANGED <<name, disk, overlap>> /\ ToNotify' = ToNotify /\ Telnet \subseteq Logins
      /\ rd \in [Logins -> ReaderStates] /\ rd[l] \in ReaderStates
  BY DEF LoadHead, Show, Unflag, Leave, ghosts, ToNotify, Types, Logins
<1>2. get_unreadcount' = get_unreadcount /\ get_unreadcount \in Nat /\ unsig \in Nat
  BY <1>1 DEF get_unreadcount, Recs, Counts, Covered
<1>3. CASE Unflag(l) \/ Leave(l)
  <2>1. unsig' = unsig + get_unreadcount
    BY <1>3 DEF Unflag, Leave
  <2>2. unsig' \in Nat /\ get_unreadcount' <= unsig'
    BY <1>2, <2>1
  <2> QED BY <2>2, CoveredStep
<1>4. CASE LoadHead(l) \/ Show(l)
  <2>1. /\ UNCHANGED <<flag, msg_count, unsig>> /\ rd[l].pc \in {"head", "show"}
        /\ \A k \in Telnet : k # l => rd'[k] = rd[k]
    BY <1>1, <1>4 DEF LoadHead, Show, ghosts
  <2>2. rd'[l].first = FALSE \/ rd'[l].pc \in {"fail", "idle"}
    <3>1. ASSUME LoadHead(l) PROVE rd'[l].first = FALSE
      <4>1. PICK h, pc : rd' = [rd EXCEPT ![l].head = h, ![l].first = FALSE, ![l].pc = pc]
        BY <3>1 DEF LoadHead
      <4> QED BY <1>1, <4>1 DEF ReaderStates
    <3>2. ASSUME Show(l) PROVE rd'[l].pc \in {"fail", "idle"}
      <4>1. IdleReader.pc = "idle"
        BY DEF IdleReader
      <4>2. rd' = [rd EXCEPT ![l].pc = "fail"] \/ rd' = [rd EXCEPT ![l] = IdleReader]
        BY <3>2 DEF Show
      <4> QED BY <1>1, <4>1, <4>2 DEF ReaderStates
    <3> QED BY <1>4, <3>1, <3>2
  <2>3. ~Sees(l) /\ ~Sees(l)'
    BY <2>1, <2>2 DEF Sees, Looking
  <2>4. \A k \in Telnet : Sees(k)' <=> Sees(k)
    BY <1>1, <2>1, <2>3 DEF Sees, Looking
  <2> QED BY <1>1, <1>2, <2>1, <2>4, CoveredFrame
<1> QED BY <1>3, <1>4

\* mail_msg changes the count only by removing the list.
LEMMA MailCovered ==
  ASSUME Types, Counts, Counts', Covered, MailMsg \/ Unlink \/ Abort
  PROVE  Covered'
<1>1. /\ UNCHANGED <<disk, flag, msg_count, sd, unsig, overlap>> /\ ToNotify' = ToNotify
      /\ rd \in [Logins -> ReaderStates] /\ Telnet \subseteq Logins /\ unsig' \in Nat
  BY DEF MailMsg, Unlink, Abort, ghosts, ToNotify, Types, Logins, Covered
<1>2. ASSUME name'["msgindex2"] = name["msgindex2"] PROVE Covered'
  <2>1. get_unreadcount' = get_unreadcount
    BY <1>1, <1>2 DEF get_unreadcount, Recs
  <2>2. \A k \in Telnet :
          rd'[k].pc = rd[k].pc /\ rd'[k].first = rd[k].first /\ rd'[k].fd = rd[k].fd
    <3>1. \A k \in Telnet : rd[k] \in ReaderStates
      BY <1>1
    <3>2. rd' = rd \/ rd' = [k \in Logins |-> [rd[k] EXCEPT !.other = rd[k].pc # "idle",
                                                            !.cleared = rd[k].pc # "idle"]]
      BY DEF MailMsg, Unlink, Abort
    <3>3. CASE rd' = rd
      BY <3>3
    <3>4. ASSUME rd' # rd, NEW k \in Telnet
          PROVE rd'[k].pc = rd[k].pc /\ rd'[k].first = rd[k].first /\ rd'[k].fd = rd[k].fd
      <4>1. PICK x : x = rd[k]
        OBVIOUS
      <4>2. rd'[k] = [x EXCEPT !.other = x.pc # "idle", !.cleared = x.pc # "idle"]
        BY <1>1, <3>2, <3>4, <4>1
      <4>3. x \in ReaderStates
        BY <3>1, <4>1
      <4>4. /\ [x EXCEPT !.other = x.pc # "idle", !.cleared = x.pc # "idle"].pc = x.pc
            /\ [x EXCEPT !.other = x.pc # "idle", !.cleared = x.pc # "idle"].first = x.first
            /\ [x EXCEPT !.other = x.pc # "idle", !.cleared = x.pc # "idle"].fd = x.fd
        BY <4>3 DEF ReaderStates
      <4> QED BY <4>1, <4>2, <4>4
    <3> QED BY <3>3, <3>4
  <2>3. \A k \in Telnet : Sees(k)' <=> Sees(k)
    BY <1>2, <2>2 DEF Sees, Looking
  <2> QED BY <1>1, <2>1, <2>3, CoveredFrame
<1>3. ASSUME name'["msgindex2"] # name["msgindex2"] PROVE Covered'
  <2>1. name' = [name EXCEPT ![mail.pc] = 0] /\ name \in [Files -> 0..Len(disk)] /\ "msgindex2" \in Files
    BY <1>3 DEF MailMsg, Unlink, Abort, Types, Files
  <2>2. name'["msgindex2"] = 0
    BY <1>3, <2>1
  <2>3. get_unreadcount' = 0
    BY <2>2 DEF get_unreadcount
  <2>4. get_unreadcount' <= unsig'
    BY <1>1, <2>3
  <2> QED BY <1>1, <2>4, CoveredStep
<1> QED BY <1>2, <1>3

\* Every step of the system keeps the unread messages covered.
LEMMA StepCovered == IInv /\ IInv' /\ Covered /\ [Next]_vars => Covered'
<1> SUFFICES ASSUME IInv, IInv', Covered, [Next]_vars PROVE Covered'
  OBVIOUS
<1>1. PICK K : KInv(K)
  BY DEF IInv
<1>2. Types /\ Types'
  BY DEF IInv, KInv
<1>3. Counts /\ Counts'
  <2>1. Types' => Counts'
    BY CountsAreNumbers, PTL
  <2> QED BY <1>2, <2>1, CountsAreNumbers
<1>4. ASSUME NEW s \in Senders,
             \/ \E l \in Logins, mode \in Modes : Send(s, l, mode)
             \/ OpenIndex(s) \/ OpenContent(s) \/ LockIndex(s) \/ WriteHead(s) \/ WriteText(s) \/ OpenIndex2(s)
      PROVE Covered'
  BY <1>1, <1>3, <1>4, SavingCovered
<1>5. ASSUME NEW s \in Senders, AppendIndex2(s) PROVE Covered'
  BY <1>1, <1>2, <1>3, <1>5, AppendCovered
<1>6. ASSUME NEW s \in Senders, Notify(s) \/ Die(s) PROVE Covered'
  BY <1>2, <1>3, <1>6, NotifyCovered
<1>7. ASSUME NEW l \in Logins, r_msg_sig(l) \/ Answer(l) \/ CtrlZ(l) \/ WebPage(l) PROVE Covered'
  BY <1>2, <1>3, <1>7, AnswerCovered
<1>8. ASSUME NEW l \in Logins, Take(l) PROVE Covered'
  BY <1>1, <1>2, <1>3, <1>8, TakeCovered
<1>9. ASSUME NEW l \in Logins, Bump(l) PROVE Covered'
  BY <1>1, <1>2, <1>3, <1>9, BumpCovered
<1>10. ASSUME NEW l \in Logins, LoadHead(l) \/ Show(l) \/ Unflag(l) \/ Leave(l) PROVE Covered'
  BY <1>2, <1>3, <1>10, ReaderCovered
<1>11. CASE MailMsg \/ Unlink \/ Abort
  BY <1>2, <1>3, <1>11, MailCovered
<1>12. CASE UNCHANGED vars
  <2>1. /\ UNCHANGED <<flag, msg_count, unsig, overlap>> /\ get_unreadcount' = get_unreadcount
        /\ ToNotify' = ToNotify /\ \A l \in Telnet : Sees(l)' <=> Sees(l)
    BY <1>12 DEF vars, ghosts, get_unreadcount, Recs, ToNotify, Sees, Looking
  <2> QED BY <1>3, <2>1, CoveredFrame
<1> QED BY <1>4, <1>5, <1>6, <1>7, <1>8, <1>9, <1>10, <1>11, <1>12 DEF Next

\* At the start nothing is unread.
LEMMA InitCovered == Init => Covered
<1> SUFFICES ASSUME Init PROVE Covered
  OBVIOUS
<1>1. IInv
  BY InitInv
<1>2. Counts
  BY <1>1, CountsAreNumbers DEF IInv, KInv
<1>3. unsig = 0 /\ name["msgindex2"] = 0
  BY DEF Init, Files
<1>4. get_unreadcount = 0
  BY <1>3 DEF get_unreadcount
<1>5. Total \in Nat
  BY <1>2, <1>3 DEF Total, Counts
<1> QED BY <1>3, <1>4, <1>5 DEF Covered

\* sendmsgfunc and r_msg_sig: every unread message has a signal pending, taken or still to be
\* sent, or an r_msg that has not looked yet, save for those counted in unsig; or the user has a
\* web login with CHECK_MSG, or two logins read the list at a time.
THEOREM NoneForgotten == Spec => []WakeupsCover
<1>1. IInv /\ Covered => WakeupsCover
  <2> SUFFICES ASSUME IInv, Covered, ~Exempt
               PROVE  get_unreadcount <= unsig + Cardinality(ToNotify) + Cardinality(Tokens(Wakeups))
    BY DEF WakeupsCover, Exempt
  <2>1. Types /\ Counts
    BY CountsAreNumbers DEF IInv, KInv
  <2>2. /\ \A l \in Telnet : msg_count[l] \in Nat
        /\ \A l \in Telnet : Sees(l) => Looking(l)
    BY <2>1 DEF Types, Sees
  <2>3. Wakeups \in [Telnet -> Nat] /\ Awake \in [Telnet -> Nat]
    BY <2>1, <2>2 DEF Wakeups, Counts
  <2>4. \A l \in Telnet : Awake[l] <= Wakeups[l]
    BY <2>2 DEF Wakeups, Awake
  <2>5. Cardinality(Tokens(Awake)) <= Cardinality(Tokens(Wakeups))
    BY <2>3, <2>4, NoneLess
  <2>6. Cardinality(Tokens(Wakeups)) \in Nat
    BY <2>3, TokensFinite
  <2>7. get_unreadcount <= Total
    BY DEF Covered
  <2>8. unsig \in Nat
    BY DEF Covered
  <2> QED BY <2>1, <2>5, <2>6, <2>7, <2>8 DEF Total, Counts
<1>2. Init => Covered
  BY InitCovered
<1>3. (IInv /\ Covered) /\ [Next]_vars => Covered'
  BY StepInv, StepCovered
<1> QED BY <1>1, <1>2, <1>3, InitInv, StepInv, PTL DEF Spec
=============================================================================
