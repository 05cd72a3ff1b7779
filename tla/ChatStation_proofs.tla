-------------------------- MODULE ChatStation_proofs --------------------------
(***************************************************************************)
(* The chat server: proofs about module ChatStation.                       *)
(*                                                                         *)
(* First part, the tables.  The counter of a room is right if the ghosts   *)
(* whose slots were taken while they were in it are counted with it        *)
(* (Counted), words are distinct only among those who logged in on the     *)
(* connection they have (OneWord), and a name finds one room only if a     *)
(* room that is being opened takes a name that is free (OwnNames): Good(s) *)
(* says all that of a state s of the tables.  What exit_room(),            *)
(* enter_room(), logout_user() and the accept of main() do is described by *)
(* relations between the tables they find and leave (Exited, Moved,        *)
(* LoggedOut, Renewed, Entered, TakenOver), each shown to keep Good once,  *)
(* and cited by every command that calls it.                               *)
(*                                                                         *)
(* Second part, the refinement.  Houses(s) is what the rooms tell of their *)
(* names; Goes(s, u, n, gone, m) says that between s and m only u changed  *)
(* place, to the room named n, and EmptiesClose that the rooms which close *)
(* then are those the abstract specification closes.  Every command of the *)
(* server is then a step of ChatRooms or changes nothing a user can see.   *)
(***************************************************************************)
EXTENDS ChatStation, FiniteSetTheorems, FiniteInduction, TLAPS

USE ChatAssumption

Seat == [conn : BOOLEAN, who : Clients \cup {None}, chatid : Ids \cup {None},
         room : Rooms \cup {Nowhere}, op : BOOLEAN, left : BOOLEAN]
Room == [name : Names \cup {None}, occupants : Int, flags : SUBSET Modes,
         invites : SUBSET Slots, lost : 0..MaxLost]
Typed(s) == s.users \in [Slots -> Seat] /\ s.rooms \in [Rooms -> Room]

\* Who has not logged in is in no room.
Seated(s) ==
    \A u \in Slots :
        /\ s.users[u].room # Nowhere => s.users[u].who # None
        /\ s.users[u].who = None <=> s.users[u].chatid = None

Inside(s, r) == {u \in Slots : s.users[u].room = r}
Counted(s) ==
    \A r \in Rooms : s.rooms[r].occupants = Cardinality(Inside(s, r)) + s.rooms[r].lost

Known(s, u) ==
    /\ s.users[u].conn /\ ~s.users[u].left
    /\ s.users[u].who # None
OneWord(s) ==
    \A u, v \in Slots :
        u # v /\ Known(s, u) /\ Known(s, v) =>
            /\ Utent[s.users[u].who] # Utent[s.users[v].who]
            /\ s.users[u].chatid # s.users[v].chatid

\* Room r, open or about to be, has a name that no other open room has.
OwnName(s, r) ==
    /\ s.rooms[r].name # None
    /\ \A q \in OpenRooms(s) : s.rooms[q].name = s.rooms[r].name => q = r
OwnNames(s) ==
    /\ s.rooms[0].name = Mainroom
    /\ \A r \in OpenRooms(s) : OwnName(s, r)

Good(s) == Typed(s) /\ Seated(s) /\ Counted(s) /\ OneWord(s) /\ OwnNames(s)

\* What exit_room(), enter_room() and logout_user() do to the tables, as
\* relations between what they find and what they leave.
Exited(s, u, e) ==
    /\ Typed(e)
    /\ \A v \in Slots \ {u} : e.users[v] = s.users[v]
    /\ e.users[u].conn = s.users[u].conn
    /\ e.users[u].who = s.users[u].who /\ e.users[u].left = s.users[u].left
    /\ e.users[u].chatid = s.users[u].chatid
    /\ e.users[u].room = Nowhere /\ e.users[u].op = FALSE
    /\ \A r \in Rooms :
         /\ e.rooms[r].name = s.rooms[r].name
         /\ e.rooms[r].flags = s.rooms[r].flags /\ e.rooms[r].lost = s.rooms[r].lost
         /\ e.rooms[r].invites = s.rooms[r].invites
         /\ e.rooms[r].occupants = IF r = s.users[u].room THEN s.rooms[r].occupants - 1
                                   ELSE s.rooms[r].occupants
Moved(s, u, r, op, m) ==
    /\ Typed(m)
    /\ \A v \in Slots \ {u} : m.users[v] = s.users[v]
    /\ m.users[u].conn = s.users[u].conn
    /\ m.users[u].who = s.users[u].who /\ m.users[u].left = s.users[u].left
    /\ m.users[u].chatid = s.users[u].chatid
    /\ m.users[u].room = r /\ m.users[u].op = op
    /\ \A q \in Rooms :
         /\ m.rooms[q].name = s.rooms[q].name
         /\ m.rooms[q].flags = s.rooms[q].flags /\ m.rooms[q].lost = s.rooms[q].lost
         /\ m.rooms[q].invites = IF q = r THEN s.rooms[q].invites \ {u}
                                 ELSE s.rooms[q].invites
         /\ m.rooms[q].occupants = s.rooms[q].occupants
                - (IF q = s.users[u].room THEN 1 ELSE 0) + (IF q = r THEN 1 ELSE 0)
LoggedOut(s, u, o) ==
    /\ Typed(o)
    /\ \A v \in Slots \ {u} : o.users[v] = s.users[v]
    /\ o.users[u] = Closed
    /\ \A r \in Rooms :
         /\ o.rooms[r].name = s.rooms[r].name
         /\ o.rooms[r].flags = s.rooms[r].flags /\ o.rooms[r].lost = s.rooms[r].lost
         /\ o.rooms[r].invites = s.rooms[r].invites \ {u}
         /\ o.rooms[r].occupants = s.rooms[r].occupants
Renewed(s, r, n, w) ==
    /\ Typed(w) /\ w.users = s.users
    /\ \A q \in Rooms \ {r} : w.rooms[q] = s.rooms[q]
    /\ w.rooms[r].name = n /\ w.rooms[r].flags = {} /\ w.rooms[r].invites = {}
    /\ w.rooms[r].occupants = s.rooms[r].occupants /\ w.rooms[r].lost = s.rooms[r].lost

-----------------------------------------------------------------------------

\* The assumption on the constants, with what finiteness gives.
LEMMA Constants ==
  /\ CHATMAXACTIVE \in Nat /\ MAXROOM \in Nat /\ 0 \in Rooms
  /\ Nowhere \notin Rooms /\ Nobody \notin Slots
  /\ IsFiniteSet(Slots) /\ IsFiniteSet(Rooms)
  /\ Cardinality(Slots) = CHATMAXACTIVE /\ Cardinality(Rooms) = MAXROOM
<1>1. CHATMAXACTIVE \in Nat /\ MAXROOM \in Nat /\ MAXROOM - 1 \in Int /\ 1 <= MAXROOM
      /\ 1 <= CHATMAXACTIVE
  BY DEF ChatAssumption
<1>2. IsFiniteSet(1..CHATMAXACTIVE) /\ Cardinality(1..CHATMAXACTIVE) = CHATMAXACTIVE
  BY <1>1, FS_Interval
<1>3. IsFiniteSet(0..MAXROOM-1) /\ Cardinality(0..MAXROOM-1) = MAXROOM
  BY <1>1, FS_Interval
<1> QED
  BY <1>1, <1>2, <1>3 DEF Slots, Rooms, Nowhere, Nobody

\* The loops over users[] and rooms[] stop at the first entry that fits.
LEMMA LeastOf ==
  ASSUME NEW T \in SUBSET Nat, T # {}
  PROVE  Min(T) \in T
BY LeastElement DEF Min

\* What exit_room() does to the slot and to the room it was in.
LEMMA ExitEffect ==
  ASSUME NEW s, NEW u \in Slots, Typed(s)
  PROVE  Exited(s, u, ExitRoom(s, u))
<1> DEFINE r0 == s.users[u].room
           e == ExitRoom(s, u)
<1>1. s.users \in [Slots -> Seat] /\ s.rooms \in [Rooms -> Room]
  BY DEF Typed
<1>2. e.users = [s.users EXCEPT ![u].op = FALSE, ![u].room = Nowhere]
  BY DEF ExitRoom
<1>3. /\ e.users \in [Slots -> Seat]
      /\ \A v \in Slots \ {u} : e.users[v] = s.users[v]
      /\ e.users[u] = [s.users[u] EXCEPT !.op = FALSE, !.room = Nowhere]
  <2> HIDE DEF e
  <2>1. PICK x : x = s.users[u]
    OBVIOUS
  <2>2. PICK y : y = [x EXCEPT !.op = FALSE, !.room = Nowhere]
    OBVIOUS
  <2>3. x \in Seat
    BY <1>1, <2>1
  <2>4. y \in Seat
    BY <2>2, <2>3 DEF Seat
  <2>5. e.users = [s.users EXCEPT ![u] = y]
    BY <1>1, <1>2, <2>1, <2>2
  <2> QED BY <1>1, <2>1, <2>2, <2>4, <2>5
<1>4. /\ e.users[u].conn = s.users[u].conn
      /\ e.users[u].who = s.users[u].who /\ e.users[u].left = s.users[u].left
      /\ e.users[u].chatid = s.users[u].chatid
      /\ e.users[u].room = Nowhere /\ e.users[u].op = FALSE
  BY <1>1, <1>3 DEF Seat
<1>5. e.rooms = IF r0 = Nowhere THEN s.rooms ELSE [s.rooms EXCEPT ![r0].occupants = @ - 1]
  BY DEF ExitRoom
<1>6. r0 \in Rooms \cup {Nowhere}
  BY <1>1 DEF Seat
<1>7. e.rooms \in [Rooms -> Room]
  <2> HIDE DEF e
  <2>1. CASE r0 = Nowhere
    BY <1>1, <1>5, <2>1
  <2>2. CASE r0 # Nowhere
    <3>1. r0 \in Rooms
      BY <1>6, <2>2
    <3>2. PICK x : x = s.rooms[r0]
      OBVIOUS
    <3>3. x \in Room
      BY <1>1, <3>1, <3>2
    <3>4. PICK y : y = [x EXCEPT !.occupants = @ - 1]
      OBVIOUS
    <3>5. y \in Room
      BY <3>3, <3>4 DEF Room
    <3>6. e.rooms = [s.rooms EXCEPT ![r0] = y]
      BY <1>5, <2>2, <3>2, <3>4
    <3> QED BY <1>1, <3>1, <3>5, <3>6
  <2> QED BY <2>1, <2>2
<1>8. \A r \in Rooms :
        /\ e.rooms[r].name = s.rooms[r].name
        /\ e.rooms[r].flags = s.rooms[r].flags /\ e.rooms[r].lost = s.rooms[r].lost
        /\ e.rooms[r].invites = s.rooms[r].invites
        /\ e.rooms[r].occupants = IF r = r0 THEN s.rooms[r].occupants - 1
                                  ELSE s.rooms[r].occupants
  BY <1>1, <1>5, <1>6, Constants, SMTT(40) DEF Room
<1>9. Typed(e)
  BY <1>3, <1>7 DEF Typed
<1> HIDE DEF e
<1>10. Exited(s, u, e)
  BY <1>3, <1>4, <1>8, <1>9 DEF Exited
<1> QED BY <1>10 DEF e

\* A slot that is in no room enters room r.
LEMMA MoveEffect ==
  ASSUME NEW s, NEW u \in Slots, NEW r \in Rooms, NEW op \in BOOLEAN, Typed(s)
  PROVE  Moved(s, u, r, op, MoveTo(s, u, r, op))
<1> DEFINE e == ExitRoom(s, u)
           m == MoveTo(s, u, r, op)
<1>0. Exited(s, u, e)
  BY ExitEffect
<1>2. /\ m.users = [e.users EXCEPT ![u].room = r, ![u].op = op]
      /\ m.rooms = [e.rooms EXCEPT ![r].occupants = @ + 1, ![r].invites = @ \ {u}]
  BY DEF MoveTo
<1> HIDE DEF e, m
<1>1. /\ e.users \in [Slots -> Seat] /\ e.rooms \in [Rooms -> Room]
      /\ \A v \in Slots \ {u} : e.users[v] = s.users[v]
      /\ e.users[u].conn = s.users[u].conn
      /\ e.users[u].who = s.users[u].who /\ e.users[u].left = s.users[u].left
      /\ e.users[u].chatid = s.users[u].chatid
      /\ \A q \in Rooms :
              /\ e.rooms[q].name = s.rooms[q].name
              /\ e.rooms[q].flags = s.rooms[q].flags /\ e.rooms[q].lost = s.rooms[q].lost
              /\ e.rooms[q].invites = s.rooms[q].invites
  BY <1>0 DEF Typed, Exited
<1>3. /\ m.users \in [Slots -> Seat]
      /\ \A v \in Slots \ {u} : m.users[v] = e.users[v]
      /\ m.users[u] = [e.users[u] EXCEPT !.room = r, !.op = op]
  <2>1. PICK x : x = e.users[u]
    OBVIOUS
  <2>2. PICK y : y = [x EXCEPT !.room = r, !.op = op]
    OBVIOUS
  <2>3. x \in Seat
    BY <1>1, <2>1
  <2>4. y \in Seat
    BY <2>2, <2>3 DEF Seat
  <2>5. m.users = [e.users EXCEPT ![u] = y]
    BY <1>1, <1>2, <2>1, <2>2
  <2> QED BY <1>1, <2>1, <2>2, <2>4, <2>5
<1>4. /\ m.users[u].conn = e.users[u].conn
      /\ m.users[u].who = e.users[u].who /\ m.users[u].left = e.users[u].left
      /\ m.users[u].chatid = e.users[u].chatid
      /\ m.users[u].room = r /\ m.users[u].op = op
  BY <1>1, <1>3 DEF Seat
<1>5. /\ m.rooms \in [Rooms -> Room]
      /\ \A q \in Rooms \ {r} : m.rooms[q] = e.rooms[q]
      /\ m.rooms[r] = [e.rooms[r] EXCEPT !.occupants = @ + 1, !.invites = @ \ {u}]
  <2>1. PICK x : x = e.rooms[r]
    OBVIOUS
  <2>2. PICK y : y = [x EXCEPT !.occupants = x.occupants + 1, !.invites = x.invites \ {u}]
    OBVIOUS
  <2>3. x \in Room
    BY <1>1, <2>1
  <2>4. y \in Room
    <3>1. x.occupants + 1 \in Int /\ x.invites \ {u} \in SUBSET Slots
      BY <2>3 DEF Room
    <3>2. PICK i, j : i = x.occupants + 1 /\ j = x.invites \ {u}
      OBVIOUS
    <3>3. y = [x EXCEPT !.occupants = i, !.invites = j]
      BY <2>2, <3>2
    <3> QED BY <2>3, <3>1, <3>2, <3>3 DEF Room
  <2>5. m.rooms = [e.rooms EXCEPT ![r] = y]
    BY <1>1, <1>2, <2>1, <2>2
  <2> QED BY <1>1, <2>1, <2>2, <2>4, <2>5
<1>6. \A q \in Rooms :
        /\ m.rooms[q].name = e.rooms[q].name
        /\ m.rooms[q].flags = e.rooms[q].flags /\ m.rooms[q].lost = e.rooms[q].lost
        /\ m.rooms[q].invites = IF q = r THEN e.rooms[q].invites \ {u} ELSE e.rooms[q].invites
        /\ m.rooms[q].occupants = IF q = r THEN e.rooms[q].occupants + 1
                                  ELSE e.rooms[q].occupants
  <2>1. /\ m.rooms[r].name = e.rooms[r].name /\ m.rooms[r].flags = e.rooms[r].flags /\ m.rooms[r].lost = e.rooms[r].lost
        /\ m.rooms[r].invites = e.rooms[r].invites \ {u}
        /\ m.rooms[r].occupants = e.rooms[r].occupants + 1
    BY <1>1, <1>5 DEF Room
  <2> QED BY <1>5, <2>1
<1>7. Typed(m) /\ \A v \in Slots \ {u} : m.users[v] = s.users[v]
  BY <1>1, <1>3, <1>5 DEF Typed
<1>8. \A q \in Rooms :
        /\ m.rooms[q].name = s.rooms[q].name
        /\ m.rooms[q].flags = s.rooms[q].flags /\ m.rooms[q].lost = s.rooms[q].lost
        /\ m.rooms[q].invites = IF q = r THEN s.rooms[q].invites \ {u} ELSE s.rooms[q].invites
  BY <1>1, <1>6
<1>9. ASSUME NEW q \in Rooms
      PROVE  m.rooms[q].occupants = s.rooms[q].occupants
                - (IF q = s.users[u].room THEN 1 ELSE 0) + (IF q = r THEN 1 ELSE 0)
  <2>1. e.rooms[q].occupants = IF q = s.users[u].room THEN s.rooms[q].occupants - 1
                               ELSE s.rooms[q].occupants
    BY <1>0 DEF Exited
  <2>2. s.rooms[q].occupants \in Int
    BY DEF Typed, Room
  <2>3. m.rooms[q].occupants = IF q = r THEN e.rooms[q].occupants + 1
                               ELSE e.rooms[q].occupants
    BY <1>6
  <2> QED BY <2>1, <2>2, <2>3
<1>10. Moved(s, u, r, op, m)
  BY <1>1, <1>4, <1>7, <1>8, <1>9 DEF Moved
<1> QED BY <1>10 DEF m

\* logout_user() as a relation between the tables it finds and leaves.
LEMMA LogoutEffect ==
  ASSUME NEW s, NEW u \in Slots, Typed(s)
  PROVE  LoggedOut(s, u, LogoutUser(s, u))
<1> DEFINE o == LogoutUser(s, u)
<1>1. s.users \in [Slots -> Seat] /\ s.rooms \in [Rooms -> Room]
  BY DEF Typed
<1>2. /\ o.users = [s.users EXCEPT ![u] = Closed]
      /\ o.rooms = [r \in Rooms |-> [s.rooms[r] EXCEPT !.invites = @ \ {u}]]
  BY DEF LogoutUser
<1> HIDE DEF o
<1>3. Closed \in Seat
  BY DEF Closed, Seat
<1>4. /\ o.users \in [Slots -> Seat]
      /\ \A v \in Slots \ {u} : o.users[v] = s.users[v]
      /\ o.users[u] = Closed
  BY <1>1, <1>2, <1>3
<1>5. o.rooms \in [Rooms -> Room]
      /\ \A r \in Rooms :
              /\ o.rooms[r].name = s.rooms[r].name
              /\ o.rooms[r].flags = s.rooms[r].flags /\ o.rooms[r].lost = s.rooms[r].lost
              /\ o.rooms[r].invites = s.rooms[r].invites \ {u}
              /\ o.rooms[r].occupants = s.rooms[r].occupants
  <2>1. ASSUME NEW r \in Rooms
        PROVE  /\ o.rooms[r] \in Room
               /\ o.rooms[r].name = s.rooms[r].name
               /\ o.rooms[r].flags = s.rooms[r].flags /\ o.rooms[r].lost = s.rooms[r].lost
               /\ o.rooms[r].invites = s.rooms[r].invites \ {u}
               /\ o.rooms[r].occupants = s.rooms[r].occupants
    <3>1. PICK x : x = s.rooms[r]
      OBVIOUS
    <3>2. x \in Room
      BY <1>1, <3>1
    <3>3. o.rooms[r] = [x EXCEPT !.invites = x.invites \ {u}]
      BY <1>2, <3>1
    <3> QED BY <3>1, <3>2, <3>3 DEF Room
  <2>2. o.rooms = [r \in Rooms |-> o.rooms[r]]
    BY <1>2
  <2> QED BY <2>1, <2>2
<1>6. Typed(o)
  BY <1>4, <1>5 DEF Typed
<1>7. LoggedOut(s, u, o)
  BY <1>4, <1>5, <1>6, Zenon DEF LoggedOut
<1> QED BY <1>7 DEF o

\* The part of join_room() that prepares a free entry, as a relation.
LEMMA NewRoomEffect ==
  ASSUME NEW s, NEW r \in Rooms, NEW n \in Names, Typed(s)
  PROVE  Renewed(s, r, n, NewRoom(s, r, n))
<1> DEFINE w == NewRoom(s, r, n)
<1>1. s.users \in [Slots -> Seat] /\ s.rooms \in [Rooms -> Room]
  BY DEF Typed
<1>2. /\ w.users = s.users
      /\ w.rooms = [s.rooms EXCEPT ![r] = [@ EXCEPT !.name = n, !.flags = {}, !.invites = {}]]
  BY DEF NewRoom
<1> HIDE DEF w
<1>3. /\ w.rooms \in [Rooms -> Room]
      /\ \A q \in Rooms \ {r} : w.rooms[q] = s.rooms[q]
      /\ w.rooms[r] = [s.rooms[r] EXCEPT !.name = n, !.flags = {}, !.invites = {}]
  <2>1. PICK x : x = s.rooms[r]
    OBVIOUS
  <2>2. PICK y : y = [x EXCEPT !.name = n, !.flags = {}, !.invites = {}]
    OBVIOUS
  <2>3. x \in Room
    BY <1>1, <2>1
  <2>4. y \in Room
    BY <2>2, <2>3 DEF Room
  <2>5. w.rooms = [s.rooms EXCEPT ![r] = y]
    BY <1>1, <1>2, <2>1, <2>2
  <2> QED BY <1>1, <2>1, <2>2, <2>4, <2>5
<1>4. /\ w.rooms[r].name = n /\ w.rooms[r].flags = {} /\ w.rooms[r].invites = {}
      /\ w.rooms[r].occupants = s.rooms[r].occupants /\ w.rooms[r].lost = s.rooms[r].lost
  BY <1>1, <1>3 DEF Room
<1>5. Typed(w)
  BY <1>1, <1>2, <1>3 DEF Typed
<1>6. Renewed(s, r, n, w)
  BY <1>2, <1>3, <1>4, <1>5 DEF Renewed
<1> QED BY <1>6 DEF w

-----------------------------------------------------------------------------

\* A room has at most as many users as the table, and is empty at count 0.
LEMMA Finite ==
  ASSUME NEW s, NEW r
  PROVE  /\ IsFiniteSet(Inside(s, r)) /\ Cardinality(Inside(s, r)) \in 0..CHATMAXACTIVE
         /\ Cardinality(Inside(s, r)) > 0 <=> Inside(s, r) # {}
<1>1. Inside(s, r) \in SUBSET Slots
  BY DEF Inside
<1> HIDE DEF Inside
<1>2. IsFiniteSet(Inside(s, r)) /\ Cardinality(Inside(s, r)) <= CHATMAXACTIVE
  BY <1>1, Constants, FS_Subset
<1>3. Cardinality(Inside(s, r)) \in Nat
  BY <1>2, FS_CardinalityType
<1>4. Cardinality(Inside(s, r)) = 0 <=> Inside(s, r) = {}
  BY <1>2, FS_EmptySet
<1> QED BY <1>2, <1>3, <1>4, Constants

\* exit_room() keeps the tables good.
LEMMA ExitGood ==
  ASSUME NEW s, NEW u \in Slots, NEW e, Good(s), Exited(s, u, e)
  PROVE  Good(e)
<1>1. Typed(s) /\ Seated(s) /\ Counted(s) /\ OneWord(s) /\ OwnNames(s) /\ Typed(e)
  BY DEF Good, Exited
<1>2. Seated(e)
  <2>1. \A v \in Slots \ {u} : e.users[v] = s.users[v]
    BY DEF Exited
  <2>2. /\ e.users[u].who = s.users[u].who
        /\ e.users[u].chatid = s.users[u].chatid
        /\ e.users[u].room # Nowhere => e.users[u].who # None
    BY DEF Exited
  <2> QED BY <1>1, <2>1, <2>2 DEF Seated
<1>3. OneWord(e)
  BY <1>1 DEF OneWord, Known, Exited
<1>4. ASSUME NEW r \in Rooms
      PROVE  e.rooms[r].occupants = Cardinality(Inside(e, r)) + e.rooms[r].lost
  <2>1. /\ s.rooms[r].occupants = Cardinality(Inside(s, r)) + s.rooms[r].lost
        /\ s.rooms[r].lost \in Int /\ e.rooms[r].lost = s.rooms[r].lost
    BY <1>1 DEF Counted, Typed, Room, Exited
  <2>4. Cardinality(Inside(s, r)) \in Int
    BY Finite
  <2>2. CASE r = s.users[u].room
    <3>1. Inside(e, r) = Inside(s, r) \ {u} /\ u \in Inside(s, r)
      BY <2>2, Constants DEF Inside, Exited
    <3>2. Cardinality(Inside(e, r)) = Cardinality(Inside(s, r)) - 1
      BY <3>1, Finite, FS_RemoveElement, ZenonT(40)
    <3> QED BY <2>1, <2>2, <2>4, <3>2 DEF Exited
  <2>3. CASE r # s.users[u].room
    <3>1. Inside(e, r) = Inside(s, r)
      BY <2>3, Constants DEF Inside, Exited
    <3> QED BY <2>1, <2>3, <3>1 DEF Exited
  <2> QED BY <2>2, <2>3
<1>5. Counted(e)
  BY <1>4 DEF Counted
<1>6. OpenRooms(e) \subseteq OpenRooms(s)
  <2>1. \A r \in Rooms : s.rooms[r].occupants \in Int
    BY <1>1 DEF Typed, Room
  <2>2. \A r \in Rooms : e.rooms[r].occupants <= s.rooms[r].occupants
    BY <2>1 DEF Exited
  <2>3. \A r \in Rooms : e.rooms[r].occupants \in Int
    BY <1>1 DEF Typed, Room
  <2> QED BY <2>1, <2>2, <2>3 DEF OpenRooms
<1>7. OwnNames(e)
  <2>1. \A r \in Rooms : e.rooms[r].name = s.rooms[r].name
    BY DEF Exited
  <2>2. OpenRooms(s) \subseteq Rooms
    BY DEF OpenRooms
  <2> QED BY <1>1, <1>6, <2>1, <2>2, Constants DEF OwnNames, OwnName
<1> QED BY <1>1, <1>2, <1>3, <1>5, <1>7 DEF Good

\* enter_room() keeps the tables good when it moves a user to room r.
LEMMA MoveGood ==
  ASSUME NEW s, NEW u \in Slots, NEW r \in Rooms, NEW op, NEW m, Good(s),
         s.users[u].who # None, OwnName(s, r), Moved(s, u, r, op, m)
  PROVE  Good(m)
<1>1. Typed(s) /\ Seated(s) /\ Counted(s) /\ OneWord(s) /\ OwnNames(s) /\ Typed(m)
  BY DEF Good, Moved
<1>2. Seated(m)
  <2>1. \A v \in Slots \ {u} : m.users[v] = s.users[v]
    BY DEF Moved
  <2>2. /\ m.users[u].who = s.users[u].who
        /\ m.users[u].chatid = s.users[u].chatid
        /\ m.users[u].room # Nowhere => m.users[u].who # None
    BY DEF Moved
  <2> QED BY <1>1, <2>1, <2>2 DEF Seated
<1>3. OneWord(m)
  BY <1>1 DEF OneWord, Known, Moved
<1>4. ASSUME NEW q \in Rooms
      PROVE  m.rooms[q].occupants = Cardinality(Inside(m, q)) + m.rooms[q].lost
  <2>1. /\ s.rooms[q].occupants = Cardinality(Inside(s, q)) + s.rooms[q].lost
        /\ s.rooms[q].occupants \in Int /\ s.rooms[q].lost \in Int
        /\ m.rooms[q].lost = s.rooms[q].lost
    <3>1. s.rooms[q].occupants = Cardinality(Inside(s, q)) + s.rooms[q].lost
      BY <1>1 DEF Counted
    <3>2. s.rooms[q].occupants \in Int /\ s.rooms[q].lost \in Int
      BY <1>1 DEF Typed, Room
    <3>3. m.rooms[q].lost = s.rooms[q].lost
      BY DEF Moved
    <3> QED BY <3>1, <3>2, <3>3
  <2>11. Cardinality(Inside(s, q)) \in Int
    BY Finite
  <2> DEFINE was == IF q = s.users[u].room THEN 1 ELSE 0
             is == IF q = r THEN 1 ELSE 0
  <2>2. m.rooms[q].occupants = s.rooms[q].occupants - was + is
    BY DEF Moved
  <2>3. \A v \in Slots \ {u} : v \in Inside(m, q) <=> v \in Inside(s, q)
    BY DEF Inside, Moved
  <2>4. u \in Inside(s, q) <=> was = 1
    BY DEF Inside
  <2>5. u \in Inside(m, q) <=> is = 1
    <3>1. m.users[u].room = r
      BY DEF Moved
    <3> QED BY <3>1 DEF Inside
  <2>6. Inside(m, q) \subseteq Slots /\ Inside(s, q) \subseteq Slots
    BY DEF Inside
  <2>7. was \in {0, 1} /\ is \in {0, 1}
    OBVIOUS
  <2> HIDE DEF was, is
  <2>8. Cardinality(Inside(s, q) \ {u}) = Cardinality(Inside(s, q)) - was
        /\ IsFiniteSet(Inside(s, q) \ {u})
    BY <2>1, <2>4, <2>7, Finite, FS_RemoveElement
  <2>9. CASE is = 1
    <3>1. Inside(m, q) = (Inside(s, q) \ {u}) \cup {u}
      BY <2>3, <2>5, <2>6, <2>9
    <3>2. u \notin Inside(s, q) \ {u}
      OBVIOUS
    <3>3. Cardinality(Inside(m, q)) = Cardinality(Inside(s, q) \ {u}) + 1
      BY <2>8, <3>1, <3>2, FS_AddElement
    <3> QED BY <2>1, <2>2, <2>7, <2>8, <2>9, <2>11, <3>3
  <2>10. CASE is = 0
    <3>1. Inside(m, q) = Inside(s, q) \ {u}
      BY <2>3, <2>5, <2>6, <2>10
    <3> QED BY <2>1, <2>2, <2>7, <2>8, <2>10, <2>11, <3>1
  <2> QED BY <2>7, <2>9, <2>10
<1>5. Counted(m)
  BY <1>4 DEF Counted
<1>6. OpenRooms(m) \subseteq OpenRooms(s) \cup {r}
  <2>1. \A q \in Rooms : s.rooms[q].occupants \in Int /\ m.rooms[q].occupants \in Int
    BY <1>1 DEF Typed, Room
  <2>2. \A q \in Rooms \ {r} : m.rooms[q].occupants <= s.rooms[q].occupants
    <3>1. \A q \in Rooms \ {r} : m.rooms[q].occupants =
            s.rooms[q].occupants - (IF q = s.users[u].room THEN 1 ELSE 0)
                                 + (IF q = r THEN 1 ELSE 0)
      BY DEF Moved
    <3> QED BY <2>1, <3>1
  <2> QED BY <2>1, <2>2 DEF OpenRooms
<1>7. OwnNames(m)
  <2>1. \A q \in Rooms : m.rooms[q].name = s.rooms[q].name
    BY DEF Moved
  <2>2. OpenRooms(s) \subseteq Rooms /\ OpenRooms(m) \subseteq Rooms
    BY DEF OpenRooms
  <2>3. \A q \in OpenRooms(s) : OwnName(s, q)
    BY <1>1 DEF OwnNames
  <2>4. \A q \in OpenRooms(m) : OwnName(m, q)
    BY <1>6, <2>1, <2>2, <2>3 DEF OwnName
  <2> QED BY <1>1, <2>1, <2>4, Constants DEF OwnNames
<1> QED BY <1>1, <1>2, <1>3, <1>5, <1>7 DEF Good

\* logout_user() keeps the tables good for a user who left the room.
LEMMA LogoutGood ==
  ASSUME NEW s, NEW u \in Slots, NEW o, Good(s), s.users[u].room = Nowhere,
         LoggedOut(s, u, o)
  PROVE  Good(o)
<1>1. Typed(s) /\ Seated(s) /\ Counted(s) /\ OneWord(s) /\ OwnNames(s) /\ Typed(o)
  BY DEF Good, LoggedOut
<1>2. o.users[u].conn = FALSE /\ o.users[u].room = Nowhere /\ o.users[u].who = None
      /\ o.users[u].chatid = None
  BY DEF LoggedOut, Closed
<1>3. Seated(o)
  BY <1>1, <1>2 DEF Seated, LoggedOut
<1>4. OneWord(o)
  BY <1>1, <1>2 DEF OneWord, Known, LoggedOut
<1>5. \A r \in Rooms : Inside(o, r) = Inside(s, r)
  BY <1>2, Constants DEF Inside, LoggedOut
<1>6. Counted(o)
  BY <1>1, <1>5 DEF Counted, LoggedOut
<1>7. OpenRooms(o) = OpenRooms(s) /\ OpenRooms(s) \subseteq Rooms
  BY DEF OpenRooms, LoggedOut
<1>8. OwnNames(o)
  BY <1>1, <1>7, Constants DEF OwnNames, OwnName, LoggedOut
<1> QED BY <1>1, <1>3, <1>4, <1>6, <1>8 DEF Good

\* Writing a name that no open room has into a free entry keeps them good,
\* and the room stays closed until somebody is in.
LEMMA NewRoomGood ==
  ASSUME NEW s, NEW r \in Rooms \ OpenRooms(s), NEW n \in Names, NEW w, Good(s),
         Named(s, n) = {}, Renewed(s, r, n, w)
  PROVE  Good(w) /\ OwnName(w, r) /\ OpenRooms(w) = OpenRooms(s)
<1>1. Typed(s) /\ Seated(s) /\ Counted(s) /\ OneWord(s) /\ OwnNames(s) /\ Typed(w)
  BY DEF Good, Renewed
<1>2. /\ w.users = s.users
      /\ \A q \in Rooms : /\ w.rooms[q].occupants = s.rooms[q].occupants
                          /\ w.rooms[q].lost = s.rooms[q].lost
  BY DEF Renewed
<1>3. Seated(w) /\ OneWord(w)
  BY <1>1, <1>2 DEF Seated, OneWord, Known
<1>4. \A q \in Rooms : Inside(w, q) = Inside(s, q)
  BY <1>2 DEF Inside
<1>5. Counted(w)
  BY <1>1, <1>2, <1>4 DEF Counted
<1>6. OpenRooms(w) = OpenRooms(s) /\ OpenRooms(s) \subseteq Rooms /\ 0 \in OpenRooms(s)
  BY <1>2, Constants DEF OpenRooms
<1>7. \A q \in OpenRooms(s) : w.rooms[q].name = s.rooms[q].name /\ w.rooms[q].name # n
  BY <1>6 DEF Renewed, Named
<1>8. n # None
  BY DEF ChatAssumption
<1>9. OwnName(w, r)
  BY <1>6, <1>7, <1>8 DEF OwnName, Renewed
<1>10. OwnNames(w)
  BY <1>1, <1>6, <1>7 DEF OwnNames, OwnName
<1> QED BY <1>1, <1>3, <1>5, <1>6, <1>9, <1>10 DEF Good

\* enter_room(): into an open room, refused, or into a room made for it.
Entered(s, u, n, x) ==
    \/ /\ x = s
       /\ \/ \E r \in Named(s, n) : Refused(s, u, r)
          \/ Named(s, n) = {}
    \/ \E r \in Named(s, n) : ~Refused(s, u, r) /\ Moved(s, u, r, FALSE, x)
    \/ /\ Named(s, n) = {}
       /\ \E r \in Rooms \ OpenRooms(s) :
            \E w : Renewed(s, r, n, w) /\ Moved(w, u, r, TRUE, x)

\* join_room() as a relation: it refuses, moves to the room it found, or
\* opens one.
LEMMA EnterEffect ==
  ASSUME NEW s, NEW u \in Slots, NEW n \in Names, Typed(s)
  PROVE  Entered(s, u, n, EnterRoom(s, u, n))
<1> DEFINE there == Named(s, n)
           empty == {r \in Rooms \ {0} : s.rooms[r].occupants = 0}
           x == EnterRoom(s, u, n)
<1>1. x = IF there # {}
          THEN IF Refused(s, u, Min(there)) THEN s
               ELSE MoveTo(s, u, Min(there), FALSE)
          ELSE IF empty = {} THEN s
          ELSE MoveTo(NewRoom(s, Min(empty), n), u, Min(empty), TRUE)
  BY DEF EnterRoom
<1>2. there \in SUBSET Nat /\ empty \in SUBSET Nat /\ there \subseteq Rooms
      /\ empty \subseteq Rooms \ OpenRooms(s)
  BY DEF Named, OpenRooms, Rooms
<1> HIDE DEF there, empty, x
<1>3. CASE there # {}
  <2>1. Min(there) \in there
    BY <1>2, <1>3, LeastOf
  <2>2. PICK r \in there : r = Min(there)
    BY <2>1
  <2>3. Moved(s, u, r, FALSE, MoveTo(s, u, r, FALSE))
    BY <1>2, MoveEffect
  <2>4. CASE Refused(s, u, r)
    <3>1. x = s
      BY <1>1, <1>3, <2>2, <2>4
    <3> QED BY <3>1, <2>4 DEF Entered, there, x
  <2>5. CASE ~Refused(s, u, r)
    <3>1. x = MoveTo(s, u, r, FALSE)
      BY <1>1, <1>3, <2>2, <2>5
    <3>2. Moved(s, u, r, FALSE, x)
      BY <2>3, <3>1
    <3>3. Entered(s, u, n, x)
      BY <2>5, <3>2 DEF Entered, there
    <3> QED BY <3>3 DEF x
  <2> QED BY <2>4, <2>5
<1>4. CASE there = {} /\ empty = {}
  <2>1. x = s
    BY <1>1, <1>4
  <2> QED BY <1>4, <2>1 DEF Entered, there, x
<1>5. CASE there = {} /\ empty # {}
  <2>1. Min(empty) \in empty
    BY <1>2, <1>5, LeastOf
  <2>2. PICK r \in Rooms \ OpenRooms(s) : r = Min(empty)
    BY <1>2, <2>1
  <2>3. PICK w : w = NewRoom(s, r, n)
    OBVIOUS
  <2>4. Renewed(s, r, n, w)
    BY <2>3, NewRoomEffect
  <2>5. Typed(w)
    BY <2>4 DEF Renewed
  <2>6. Moved(w, u, r, TRUE, MoveTo(w, u, r, TRUE))
    BY <2>5, MoveEffect
  <2>7. x = MoveTo(w, u, r, TRUE)
    BY <1>1, <1>5, <2>2, <2>3
  <2>8. Moved(w, u, r, TRUE, x)
    BY <2>6, <2>7
  <2>9. Entered(s, u, n, x)
    BY <1>5, <2>4, <2>8 DEF Entered, there
  <2> QED BY <2>9 DEF x
<1> QED BY <1>3, <1>4, <1>5

\* join_room() keeps the tables good.
LEMMA EnterGood ==
  ASSUME NEW s, NEW u \in Slots, NEW n \in Names, NEW x, Good(s),
         s.users[u].who # None, Entered(s, u, n, x)
  PROVE  Good(x)
<1>1. ASSUME NEW r \in Named(s, n), Moved(s, u, r, FALSE, x)
      PROVE  Good(x)
  <2>1. r \in Rooms /\ OwnName(s, r)
    BY DEF Good, OwnNames, Named, OpenRooms
  <2> QED BY <1>1, <2>1, MoveGood
<1>2. ASSUME NEW r \in Rooms \ OpenRooms(s), NEW w, Named(s, n) = {},
             Renewed(s, r, n, w), Moved(w, u, r, TRUE, x)
      PROVE  Good(x)
  <2>1. Good(w) /\ OwnName(w, r)
    BY <1>2, NewRoomGood
  <2>2. w.users = s.users
    BY <1>2 DEF Renewed
  <2> QED BY <1>2, <2>1, <2>2, MoveGood
<1> QED BY <1>1, <1>2 DEF Entered

\* What changes neither who is where nor which room has which name.
LEMMA KeptGood ==
  ASSUME NEW s, NEW t, Good(s), Typed(t),
         \A u \in Slots : /\ t.users[u].conn = s.users[u].conn
                          /\ t.users[u].who = s.users[u].who /\ t.users[u].left = s.users[u].left
                          /\ t.users[u].chatid = s.users[u].chatid
                          /\ t.users[u].room = s.users[u].room,
         \A r \in Rooms : /\ t.rooms[r].name = s.rooms[r].name
                          /\ t.rooms[r].occupants = s.rooms[r].occupants
                          /\ t.rooms[r].lost = s.rooms[r].lost
  PROVE  Good(t)
<1>1. Seated(s) /\ Counted(s) /\ OneWord(s) /\ OwnNames(s)
  BY DEF Good
<1>2. Seated(t)
  BY <1>1 DEF Seated
<1>3. OneWord(t)
  BY <1>1 DEF OneWord, Known
<1>4. \A r \in Rooms : Inside(t, r) = Inside(s, r)
  BY DEF Inside
<1>5. Counted(t)
  BY <1>1, <1>4 DEF Counted
<1>6. OpenRooms(t) = OpenRooms(s) /\ OpenRooms(s) \subseteq Rooms
  BY DEF OpenRooms
<1>7. OwnNames(t)
  BY <1>1, <1>6, Constants DEF OwnNames, OwnName
<1> QED BY <1>2, <1>3, <1>5, <1>7 DEF Good

-----------------------------------------------------------------------------
(* The invariant. *)

IInv == Good(State) /\ handling \in Slots \cup {Nobody}

\* What is shown of a state of the tables holds when they take it.
LEMMA BecomesGood ==
  ASSUME NEW x, Good(x), Becomes(x)
  PROVE  Good(State)'
<1>1. PICK t : t = State'
  OBVIOUS
<1>2. t.users = x.users /\ t.rooms = x.rooms
  BY <1>1 DEF Becomes, State
<1>3. Good(t)
  BY <1>2 DEF Good, Typed, Seated, Counted, OneWord, Known, OwnNames, OwnName, Inside,
                 OpenRooms
<1> QED BY <1>1, <1>3

\* The tables the server starts with are good.
LEMMA InitGood == Init => IInv
<1> SUFFICES ASSUME Init PROVE IInv
  OBVIOUS
<1> DEFINE s == State
<1>1. /\ users = [u \in Slots |-> Closed]
      /\ rooms = [r \in Rooms |-> [name |-> IF r = 0 THEN Mainroom ELSE None,
                                   occupants |-> 0, flags |-> {}, invites |-> {},
                                   lost |-> 0]]
      /\ handling = Nobody
  BY DEF Init
<1>2. s.users = users /\ s.rooms = rooms
  BY DEF State
<1> HIDE DEF s
<1>3. Typed(s)
  <2>1. Closed \in Seat
    BY DEF Closed, Seat
  <2>2. Mainroom \in Names
    BY DEF Names
  <2>3. s.rooms \in [Rooms -> Room]
    BY <1>1, <1>2, <2>2 DEF Room
  <2> QED BY <1>1, <1>2, <2>1, <2>3 DEF Typed
<1>4. \A u \in Slots : s.users[u] = Closed
  BY <1>1, <1>2
<1>5. Seated(s) /\ OneWord(s)
  BY <1>4 DEF Seated, OneWord, Known, Closed
<1>6. \A r \in Rooms : /\ Inside(s, r) = {} /\ s.rooms[r].occupants = 0
                      /\ s.rooms[r].lost = 0
  <2>1. \A u \in Slots : s.users[u].room = Nowhere
    BY <1>4 DEF Closed
  <2>2. \A r \in Rooms : Inside(s, r) = {}
    BY <2>1, Constants DEF Inside
  <2>3. \A r \in Rooms : s.rooms[r].occupants = 0 /\ s.rooms[r].lost = 0
    BY <1>1, <1>2
  <2> QED BY <2>2, <2>3
<1>7. Counted(s)
  <2>1. Cardinality({}) = 0
    BY FS_EmptySet
  <2>2. ASSUME NEW r \in Rooms
        PROVE  s.rooms[r].occupants = Cardinality(Inside(s, r)) + s.rooms[r].lost
    <3>1. Cardinality(Inside(s, r)) = 0
      BY <1>6, <2>1
    <3> QED BY <1>6, <3>1
  <2> QED BY <2>2 DEF Counted
<1>8. OpenRooms(s) = {0}
  BY <1>6, Constants DEF OpenRooms
<1>9. s.rooms[0].name = Mainroom /\ Mainroom # None
  BY <1>1, <1>2, Constants DEF ChatAssumption, Names
<1>10. OwnNames(s)
  BY <1>8, <1>9 DEF OwnNames, OwnName
<1> QED BY <1>1, <1>3, <1>5, <1>7, <1>10 DEF IInv, Good, s

\* What a connection finds in the slot it gets, and what becomes of the room
\* that a ghost did not leave.
TakenOver(s, u, t) ==
    /\ Typed(t) /\ ~s.users[u].conn
    /\ \A v \in Slots \ {u} : t.users[v] = s.users[v]
    /\ t.users[u].conn /\ t.users[u].room = Nowhere
    /\ t.users[u].who = s.users[u].who /\ t.users[u].chatid = s.users[u].chatid
    /\ t.users[u].op = s.users[u].op /\ t.users[u].left = (s.users[u].who # None)
    /\ \A r \in Rooms :
         /\ t.rooms[r].name = s.rooms[r].name
         /\ t.rooms[r].flags = s.rooms[r].flags
         /\ t.rooms[r].invites = s.rooms[r].invites
         /\ t.rooms[r].occupants = s.rooms[r].occupants
         /\ t.rooms[r].lost = IF r = s.users[u].room THEN s.rooms[r].lost + 1
                              ELSE s.rooms[r].lost

\* The accept of main() as a relation between the tables.
LEMMA AcceptState ==
  ASSUME Good(State), NEW u \in Slots, Accept(u)
  PROVE  TakenOver(State, u, State')
<1>1. PICK s : s = State
  OBVIOUS
<1>2. PICK t : t = State'
  OBVIOUS
<1>3. PICK r0 : r0 = s.users[u].room
  OBVIOUS
<1>4. /\ s.users \in [Slots -> Seat] /\ s.rooms \in [Rooms -> Room]
      /\ ~s.users[u].conn
      /\ t.users = [s.users EXCEPT ![u].conn = TRUE, ![u].room = Nowhere,
                                   ![u].left = s.users[u].who # None]
      /\ IF r0 = Nowhere THEN t.rooms = s.rooms
         ELSE /\ \A r \in Rooms : s.rooms[r].lost < MaxLost
              /\ t.rooms = [s.rooms EXCEPT ![r0].lost = @ + 1]
  BY <1>1, <1>2, <1>3 DEF State, Accept, Good, Typed, RoomOf
<1>5. PICK x : x = s.users[u]
  OBVIOUS
<1>6. PICK b : b = (s.users[u].who # None)
  OBVIOUS
<1>7. PICK y : y = [x EXCEPT !.conn = TRUE, !.room = Nowhere, !.left = b]
  OBVIOUS
<1>8. x \in Seat /\ b \in BOOLEAN
  BY <1>4, <1>5, <1>6
<1>9. /\ y \in Seat /\ y.conn /\ y.room = Nowhere /\ y.who = x.who
      /\ y.chatid = x.chatid /\ y.op = x.op /\ y.left = b
  BY <1>7, <1>8 DEF Seat
<1>10. t.users = [s.users EXCEPT ![u] = y]
  BY <1>4, <1>5, <1>6, <1>7
<1>11. /\ t.users \in [Slots -> Seat] /\ t.users[u] = y
       /\ \A v \in Slots \ {u} : t.users[v] = s.users[v]
  <2>1. y \in Seat /\ s.users \in [Slots -> Seat]
    BY <1>4, <1>9
  <2> QED BY <1>10, <2>1
<1>12. r0 \in Rooms \cup {Nowhere} /\ Nowhere \notin Rooms
  BY <1>3, <1>4, Constants DEF Seat
<1>13. /\ t.rooms \in [Rooms -> Room]
       /\ \A r \in Rooms :
            /\ t.rooms[r].name = s.rooms[r].name
            /\ t.rooms[r].flags = s.rooms[r].flags
            /\ t.rooms[r].invites = s.rooms[r].invites
            /\ t.rooms[r].occupants = s.rooms[r].occupants
            /\ t.rooms[r].lost = IF r = r0 THEN s.rooms[r].lost + 1 ELSE s.rooms[r].lost
  <2>1. CASE r0 = Nowhere
    BY <1>4, <1>12, <2>1
  <2>2. CASE r0 # Nowhere
    <3>1. r0 \in Rooms
      BY <1>12, <2>2
    <3>2. PICK w : w = s.rooms[r0]
      OBVIOUS
    <3>3. w \in Room /\ w.lost < MaxLost /\ w.lost \in Int /\ 0 <= w.lost
      BY <1>4, <2>2, <3>1, <3>2 DEF Room
    <3>4. PICK n : n = w.lost + 1
      OBVIOUS
    <3>5. n \in 0..MaxLost
      BY <3>3, <3>4 DEF ChatAssumption
    <3>6. PICK z : z = [w EXCEPT !.lost = n]
      OBVIOUS
    <3>7. /\ z \in Room /\ z.name = w.name /\ z.flags = w.flags /\ z.invites = w.invites
          /\ z.occupants = w.occupants /\ z.lost = n
      BY <3>3, <3>5, <3>6 DEF Room
    <3>8. t.rooms = [s.rooms EXCEPT ![r0] = z]
      BY <1>4, <2>2, <3>2, <3>4, <3>6
    <3>9. t.rooms \in [Rooms -> Room] /\ t.rooms[r0] = z
          /\ \A r \in Rooms \ {r0} : t.rooms[r] = s.rooms[r]
      BY <1>4, <3>1, <3>7, <3>8
    <3> QED BY <3>2, <3>4, <3>7, <3>9
  <2> QED BY <2>1, <2>2
<1>14. Typed(t)
  BY <1>11, <1>13 DEF Typed
<1>15. /\ t.users[u].conn /\ t.users[u].room = Nowhere
       /\ t.users[u].who = s.users[u].who /\ t.users[u].chatid = s.users[u].chatid
       /\ t.users[u].op = s.users[u].op /\ t.users[u].left = (s.users[u].who # None)
  BY <1>5, <1>6, <1>9, <1>11
<1>16. TakenOver(s, u, t)
  BY <1>3, <1>4, <1>11, <1>13, <1>14, <1>15 DEF TakenOver
<1> QED BY <1>1, <1>2, <1>16

\* Taking a connection into a free entry keeps the tables good: what a ghost
\* leaves there is not a word of somebody who logged in, and the room it did
\* not leave has one to count who is not there.
LEMMA SeatGood ==
  ASSUME NEW s, NEW u \in Slots, NEW t, Good(s), TakenOver(s, u, t)
  PROVE  Good(t)
<1>1. Typed(s) /\ Seated(s) /\ Counted(s) /\ OneWord(s) /\ OwnNames(s) /\ Typed(t)
  BY DEF Good, TakenOver
<1>2. Seated(t)
  <2>1. \A v \in Slots \ {u} : t.users[v] = s.users[v]
    BY DEF TakenOver
  <2>2. /\ t.users[u].who = s.users[u].who /\ t.users[u].chatid = s.users[u].chatid
        /\ t.users[u].room = Nowhere
    BY DEF TakenOver
  <2> QED BY <1>1, <2>1, <2>2 DEF Seated
<1>3. OneWord(t)
  <2>1. ~Known(t, u)
    BY Zenon DEF Known, TakenOver
  <2>2. \A v \in Slots \ {u} : t.users[v] = s.users[v]
    BY DEF TakenOver
  <2> QED BY <1>1, <2>1, <2>2 DEF OneWord, Known
<1>4. ASSUME NEW r \in Rooms
      PROVE  t.rooms[r].occupants = Cardinality(Inside(t, r)) + t.rooms[r].lost
  <2>1. /\ s.rooms[r].occupants = Cardinality(Inside(s, r)) + s.rooms[r].lost
        /\ s.rooms[r].lost \in Int /\ t.rooms[r].occupants = s.rooms[r].occupants
    BY <1>1 DEF Counted, Typed, Room, TakenOver
  <2>2. Cardinality(Inside(s, r)) \in Int
    BY Finite
  <2>3. CASE r = s.users[u].room
    <3>1. Inside(t, r) = Inside(s, r) \ {u} /\ u \in Inside(s, r)
      BY <2>3, Constants DEF Inside, TakenOver
    <3>2. Cardinality(Inside(t, r)) = Cardinality(Inside(s, r)) - 1
      BY <3>1, Finite, FS_RemoveElement, ZenonT(40)
    <3>3. t.rooms[r].lost = s.rooms[r].lost + 1
      BY <2>3 DEF TakenOver
    <3> QED BY <2>1, <2>2, <3>2, <3>3
  <2>4. CASE r # s.users[u].room
    <3>1. Inside(t, r) = Inside(s, r)
      BY <2>4, Constants DEF Inside, TakenOver
    <3>2. t.rooms[r].lost = s.rooms[r].lost
      BY <2>4 DEF TakenOver
    <3> QED BY <2>1, <3>1, <3>2
  <2> QED BY <2>3, <2>4
<1>5. Counted(t)
  BY <1>4 DEF Counted
<1>6. OpenRooms(t) = OpenRooms(s) /\ OpenRooms(s) \subseteq Rooms
  BY DEF OpenRooms, TakenOver
<1>7. OwnNames(t)
  BY <1>1, <1>6, Constants DEF OwnNames, OwnName, TakenOver
<1> QED BY <1>1, <1>2, <1>3, <1>5, <1>7 DEF Good

LEMMA AcceptGood ==
  ASSUME Good(State), NEW u \in Slots, Accept(u)
  PROVE  Good(State)'
<1>1. PICK s : s = State
  OBVIOUS
<1>2. PICK t : t = State'
  OBVIOUS
<1>3. Good(s) /\ TakenOver(s, u, t)
  BY <1>1, <1>2, AcceptState
<1>4. Good(t)
  BY <1>3, SeatGood
<1> QED BY <1>2, <1>4

\* exit_room() from the tables as they are.
LEMMA ExitState ==
  ASSUME Good(State), NEW u \in Slots
  PROVE  /\ Exited(State, u, ExitRoom(State, u)) /\ Good(ExitRoom(State, u))
         /\ ExitRoom(State, u).users[u].room = Nowhere
         /\ ExitRoom(State, u).users[u].who = users[u].who
<1>1. PICK e : e = ExitRoom(State, u)
  OBVIOUS
<1>2. Exited(State, u, e)
  BY <1>1, ExitEffect DEF Good
<1>4. Good(e)
  BY <1>2, ExitGood
<1>5. e.users[u].room = Nowhere /\ e.users[u].who = users[u].who
  BY <1>2 DEF Exited, State
<1> QED BY <1>1, <1>2, <1>4, <1>5

\* Losing a connection, refusing a line and chat_goodbye() keep the tables
\* good.
LEMMA LeavesGood ==
  ASSUME Good(State), NEW u \in Slots, LostConn(u) \/ LineRefused(u) \/ Bye(u)
  PROVE  Good(State)'
<1>1. CASE LostConn(u)
  <2>1. Becomes(LogoutUser(ExitRoom(State, u), u))
    BY <1>1 DEF LostConn
  <2>2. PICK e : e = ExitRoom(State, u)
    OBVIOUS
  <2>3. Good(e) /\ e.users[u].room = Nowhere
    BY <2>1, <2>2, ExitState
  <2>4. Good(LogoutUser(e, u))
    BY <2>3, LogoutEffect, LogoutGood DEF Good
  <2> QED BY <2>1, <2>2, <2>4, BecomesGood
<1>2. CASE LineRefused(u)
  <2>1. State.users[u].room = Nowhere /\ Becomes(LogoutUser(State, u))
    BY <1>2 DEF LineRefused, RoomOf, State
  <2>2. Good(LogoutUser(State, u))
    BY <2>1, LogoutEffect, LogoutGood DEF Good
  <2> QED BY <2>1, <2>2, BecomesGood
<1>3. CASE Bye(u)
  <2>1. Becomes(ExitRoom(State, u))
    BY <1>3 DEF Bye
  <2>2. Good(ExitRoom(State, u))
    BY ExitState
  <2> QED BY <2>1, <2>2, BecomesGood
<1> QED BY <1>1, <1>2, <1>3

\* What login_user() enters the main room from.
LoggingIn(u, c, id) ==
    [State EXCEPT !.users[u] = [@ EXCEPT !.who = c, !.chatid = id, !.op = TRUE,
                                         !.left = FALSE]]

\* The tables in the middle of login_user(), before it enters the main room.
LEMMA LoginState ==
  ASSUME Good(State), NEW u \in Slots, NEW c \in Clients, NEW id \in Ids,
         users[u].room = Nowhere,
         \A v \in Slots :
             users[v].conn => /\ users[v].who # None => Utent[users[v].who] # Utent[c]
                              /\ users[v].chatid # id,
         NEW t, t = LoggingIn(u, c, id)
  PROVE  /\ Good(t)
         /\ \A v \in Slots \ {u} : t.users[v] = users[v]
         /\ t.users[u].conn = users[u].conn /\ t.users[u].who = c
         /\ t.users[u].room = Nowhere
         /\ t.rooms = rooms
<1>1. PICK s : s = State
  OBVIOUS
<1>2. Typed(s) /\ Seated(s) /\ Counted(s) /\ OneWord(s) /\ OwnNames(s)
      /\ s.users = users /\ s.rooms = rooms
  BY <1>1 DEF Good, State
<1>4. PICK x : x = s.users[u]
  OBVIOUS
<1>5. PICK y : y = [x EXCEPT !.who = c, !.chatid = id, !.op = TRUE, !.left = FALSE]
  OBVIOUS
<1>3. /\ t.users = [s.users EXCEPT ![u] = y]
      /\ t.rooms = s.rooms
  BY <1>1, <1>4, <1>5 DEF LoggingIn, State
<1>6. c # None /\ id # None
  BY DEF ChatAssumption
<1>7. /\ y \in Seat /\ y.conn = x.conn /\ y.room = Nowhere /\ y.who = c /\ y.chatid = id
      /\ x.room = Nowhere
  <2>1. x \in Seat
    BY <1>2, <1>4 DEF Typed
  <2>2. x.room = Nowhere
    BY <1>2, <1>4
  <2> QED BY <1>5, <2>1, <2>2 DEF Seat
<1>9. /\ t.users \in [Slots -> Seat] /\ t.users[u] = y
      /\ \A v \in Slots \ {u} : t.users[v] = s.users[v]
  BY <1>2, <1>3, <1>7 DEF Typed
<1>10. Typed(t)
  BY <1>2, <1>3, <1>9 DEF Typed
<1>11. Seated(t)
  BY <1>2, <1>6, <1>7, <1>9 DEF Seated
<1>12. OneWord(t)
  <2>1. \A v \in Slots :
          Known(s, v) => Utent[s.users[v].who] # Utent[c] /\ s.users[v].chatid # id
    BY <1>2 DEF Known
  <2>2. \A v \in Slots \ {u} : Known(t, v) => Known(s, v)
    BY <1>9 DEF Known
  <2>3. OneWord(s)
    BY <1>2
  <2> QED BY <1>7, <1>9, <2>1, <2>2, <2>3 DEF OneWord
<1>13. \A r \in Rooms : Inside(t, r) = Inside(s, r)
  BY <1>4, <1>7, <1>9, Constants DEF Inside
<1>14. Counted(t)
  BY <1>2, <1>3, <1>13 DEF Counted
<1>15. OwnNames(t)
  BY <1>2, <1>3 DEF OwnNames, OwnName, OpenRooms
<1>16. Good(t)
  BY <1>10, <1>11, <1>12, <1>14, <1>15 DEF Good
<1> QED BY <1>2, <1>3, <1>4, <1>7, <1>9, <1>16

\* login_user() and chat_join() keep the tables good.
LEMMA EntersGood ==
  ASSUME Good(State), NEW u \in Slots,
         \/ \E c \in Clients, id \in Ids : Login(u, c, id)
         \/ \E n \in Names : Join(u, n)
  PROVE  Good(State)'
<1>1. ASSUME NEW c \in Clients, NEW id \in Ids, Login(u, c, id)
      PROVE  Good(State)'
  <2>1. PICK t : t = LoggingIn(u, c, id)
    OBVIOUS
  <2>2. Good(t) /\ t.users[u].who = c
    <3>1. /\ users[u].room = Nowhere
          /\ \A v \in Slots :
               users[v].conn => /\ users[v].who # None => Utent[users[v].who] # Utent[c]
                                /\ users[v].chatid # id
      BY <1>1 DEF Login, RoomOf
    <3> HIDE <1>1
    <3> QED BY <2>1, <3>1, LoginState
  <2>3. c # None /\ Mainroom \in Names
    BY DEF ChatAssumption, Names
  <2>4. Good(EnterRoom(t, u, Mainroom))
    BY <2>2, <2>3, EnterEffect, EnterGood DEF Good
  <2>5. Becomes(EnterRoom(t, u, Mainroom))
    BY <1>1, <2>1 DEF Login, LoggingIn
  <2> QED BY <2>4, <2>5, BecomesGood
<1>2. ASSUME NEW n \in Names, Join(u, n)
      PROVE  Good(State)'
  <2>1. State.users[u].who # None
    BY <1>2 DEF Join, InRoom, RoomOf, State, Good, Seated
  <2>2. Good(EnterRoom(State, u, n))
    BY <2>1, EnterEffect, EnterGood DEF Good
  <2>3. Becomes(EnterRoom(State, u, n))
    BY <1>2 DEF Join
  <2> QED BY <2>2, <2>3, BecomesGood
<1> QED BY <1>1, <1>2

\* chat_kick() keeps the tables good: its user goes to the main room or out.
LEMMA KickGood ==
  ASSUME Good(State), NEW u \in Slots, NEW v \in Slots, Kick(u, v)
  PROVE  Good(State)'
<1>1. PICK e : e = ExitRoom(State, v)
  OBVIOUS
<1>3. Good(e) /\ e.users[v].room = Nowhere /\ e.users[v].who = users[v].who
  BY <1>1, ExitState
<1>4. CASE RoomOf(u) = 0 \/ RoomOf(u) # RoomOf(v)
  <2>1. Becomes(LogoutUser(e, v))
    BY <1>1, <1>4 DEF Kick
  <2>2. Good(LogoutUser(e, v))
    BY <1>3, LogoutEffect, LogoutGood DEF Good
  <2> QED BY <2>1, <2>2, BecomesGood
<1>5. CASE ~(RoomOf(u) = 0 \/ RoomOf(u) # RoomOf(v))
  <2>1. Becomes(EnterRoom(e, v, Mainroom))
    BY <1>1, <1>5 DEF Kick
  <2>2. users[v].room # Nowhere
    BY <1>5 DEF Kick, InRoom, RoomOf
  <2>3. e.users[v].who # None
    BY <1>3, <2>2 DEF Good, Seated, State
  <2>4. Mainroom \in Names
    BY DEF Names
  <2>5. Good(EnterRoom(e, v, Mainroom))
    BY <1>3, <2>3, <2>4, EnterEffect, EnterGood DEF Good
  <2> QED BY <2>1, <2>5, BecomesGood
<1> QED BY <1>4, <1>5

\* chat_name_room() keeps the names of open rooms apart.
LEMMA NameRoomGood ==
  ASSUME Good(State), NEW u \in Slots, NEW n \in Names, NameRoom(u, n)
  PROVE  Good(State)'
<1>1. PICK s : s = State
  OBVIOUS
<1>2. PICK t : t = State'
  OBVIOUS
<1>3. PICK r : r = users[u].room
  OBVIOUS
<1>4. Typed(s) /\ Seated(s) /\ Counted(s) /\ OneWord(s) /\ OwnNames(s)
  BY <1>1 DEF Good
<1>5. /\ r # Nowhere /\ r # 0 /\ Named(s, n) = {}
      /\ t.rooms = [s.rooms EXCEPT ![r].name = n] /\ t.users = s.users
      /\ r = s.users[u].room
  BY <1>1, <1>2, <1>3 DEF NameRoom, InRoom, RoomOf, State
<1>6. r \in Rooms
  BY <1>4, <1>5 DEF Typed, Seat
<1>7. PICK x : x = s.rooms[r]
  OBVIOUS
<1>8. PICK y : y = [x EXCEPT !.name = n]
  OBVIOUS
<1>9. y \in Room /\ y.name = n /\ y.occupants = x.occupants /\ y.lost = x.lost
  <2>1. x \in Room
    BY <1>4, <1>6, <1>7 DEF Typed
  <2> QED BY <1>8, <2>1 DEF Room
<1>10. t.rooms = [s.rooms EXCEPT ![r] = y]
  BY <1>4, <1>5, <1>7, <1>8 DEF Typed
<1>11. /\ t.rooms \in [Rooms -> Room] /\ t.rooms[r] = y
       /\ \A q \in Rooms \ {r} : t.rooms[q] = s.rooms[q]
  BY <1>4, <1>6, <1>9, <1>10 DEF Typed
<1>12. Typed(t)
  BY <1>4, <1>5, <1>11 DEF Typed
<1>13. Seated(t) /\ OneWord(t)
  BY <1>4, <1>5 DEF Seated, OneWord, Known
<1>14. \A q \in Rooms : Inside(t, q) = Inside(s, q)
  BY <1>5 DEF Inside
<1>15. \A q \in Rooms : /\ t.rooms[q].occupants = s.rooms[q].occupants
                       /\ t.rooms[q].lost = s.rooms[q].lost
  BY <1>7, <1>9, <1>11
<1>16. Counted(t)
  BY <1>4, <1>14, <1>15 DEF Counted
<1>17. OpenRooms(t) = OpenRooms(s) /\ OpenRooms(s) \subseteq Rooms
  BY <1>15 DEF OpenRooms
<1>18. \A q \in OpenRooms(s) : s.rooms[q].name # n
  BY <1>5 DEF Named
<1>19. n # None
  BY DEF ChatAssumption
<1>20. \A q \in OpenRooms(t) : OwnName(t, q)
  <2>1. \A q \in OpenRooms(s) : OwnName(s, q)
    BY <1>4 DEF OwnNames
  <2> QED BY <1>9, <1>11, <1>17, <1>18, <1>19, <2>1 DEF OwnName
<1>21. t.rooms[0].name = Mainroom
  BY <1>4, <1>5, <1>11, Constants DEF OwnNames
<1>22. Good(t)
  BY <1>12, <1>13, <1>16, <1>20, <1>21 DEF Good, OwnNames
<1> QED BY <1>2, <1>22

\* chat_nick() keeps the chat ids apart: it looks for the new one first.
LEMMA NickGood ==
  ASSUME Good(State), NEW u \in Slots, NEW id \in Ids, Nick(u, id)
  PROVE  Good(State)'
<1>1. PICK s : s = State
  OBVIOUS
<1>2. PICK t : t = State'
  OBVIOUS
<1>3. Typed(s) /\ Seated(s) /\ Counted(s) /\ OneWord(s) /\ OwnNames(s)
  BY <1>1 DEF Good
<1>4. /\ t.users = [s.users EXCEPT ![u].chatid = id] /\ t.rooms = s.rooms
      /\ \A v \in Slots \ {u} : s.users[v].conn => s.users[v].chatid # id
      /\ s.users[u].room # Nowhere
  BY <1>1, <1>2 DEF Nick, InRoom, RoomOf, State
<1>5. PICK x : x = s.users[u]
  OBVIOUS
<1>6. PICK y : y = [x EXCEPT !.chatid = id]
  OBVIOUS
<1>7. /\ y \in Seat /\ y.conn = x.conn /\ y.room = x.room /\ y.who = x.who
      /\ y.left = x.left
      /\ y.chatid = id
  <2>1. x \in Seat
    BY <1>3, <1>5 DEF Typed
  <2> QED BY <1>6, <2>1 DEF Seat
<1>8. t.users = [s.users EXCEPT ![u] = y]
  BY <1>3, <1>4, <1>5, <1>6 DEF Typed
<1>9. /\ t.users \in [Slots -> Seat] /\ t.users[u] = y
      /\ \A v \in Slots \ {u} : t.users[v] = s.users[v]
  BY <1>3, <1>7, <1>8 DEF Typed
<1>10. Typed(t)
  BY <1>3, <1>4, <1>9 DEF Typed
<1>11. Seated(t)
  <2>1. id # None
    BY DEF ChatAssumption
  <2>2. x.who # None
    BY <1>3, <1>4, <1>5 DEF Seated
  <2> QED BY <1>3, <1>5, <1>7, <1>9, <2>1, <2>2 DEF Seated
<1>12. OneWord(t)
  <2>1. \A v \in Slots : Known(t, v) => Known(s, v)
    BY <1>5, <1>7, <1>9 DEF Known
  <2>2. \A v \in Slots : t.users[v].who = s.users[v].who
    BY <1>5, <1>7, <1>9
  <2>3. \A v \in Slots \ {u} : Known(s, v) => t.users[v].chatid # id
    BY <1>4, <1>9 DEF Known
  <2>4. t.users[u].chatid = id
    BY <1>7, <1>9
  <2>5. \A v \in Slots \ {u} : t.users[v].chatid = s.users[v].chatid
    BY <1>9
  <2>6. OneWord(s)
    BY <1>3
  <2> QED BY <2>1, <2>2, <2>3, <2>4, <2>5, <2>6 DEF OneWord
<1>13. \A r \in Rooms : Inside(t, r) = Inside(s, r)
  BY <1>5, <1>7, <1>9, Constants DEF Inside
<1>14. Counted(t)
  BY <1>3, <1>4, <1>13 DEF Counted
<1>15. OwnNames(t)
  BY <1>3, <1>4 DEF OwnNames, OwnName, OpenRooms
<1>16. Good(t)
  BY <1>10, <1>11, <1>12, <1>14, <1>15 DEF Good
<1> QED BY <1>2, <1>16

\* users[v].op becomes b, and nothing else changes.
OpSet(s, v, b, t) ==
    /\ Typed(t) /\ t.rooms = s.rooms
    /\ \A w \in Slots \ {v} : t.users[w] = s.users[w]
    /\ t.users[v].conn = s.users[v].conn /\ t.users[v].who = s.users[v].who
    /\ t.users[v].left = s.users[v].left
    /\ t.users[v].chatid = s.users[v].chatid /\ t.users[v].room = s.users[v].room
    /\ t.users[v].op = b

\* Writing the operator flag of one user, as a relation.
LEMMA OpEffect ==
  ASSUME NEW s, Typed(s), NEW v \in Slots, NEW b \in BOOLEAN, NEW t,
         t.users = [s.users EXCEPT ![v].op = b], t.rooms = s.rooms
  PROVE  OpSet(s, v, b, t)
<1>1. PICK x : x = s.users[v]
  OBVIOUS
<1>2. PICK y : y = [x EXCEPT !.op = b]
  OBVIOUS
<1>3. /\ y \in Seat /\ y.conn = x.conn /\ y.room = x.room /\ y.who = x.who
      /\ y.chatid = x.chatid /\ y.op = b /\ y.left = x.left
  <2>1. x \in Seat
    BY <1>1 DEF Typed
  <2> QED BY <1>2, <2>1 DEF Seat
<1>4. t.users = [s.users EXCEPT ![v] = y]
  BY <1>1, <1>2 DEF Typed
<1>5. /\ t.users \in [Slots -> Seat] /\ t.users[v] = y
      /\ \A w \in Slots \ {v} : t.users[w] = s.users[w]
  BY <1>3, <1>4 DEF Typed
<1>6. Typed(t)
  BY <1>5 DEF Typed
<1> QED BY <1>1, <1>3, <1>5, <1>6 DEF OpSet

\* The operator flag matters to none of the parts of Good.
LEMMA OpGood ==
  ASSUME NEW s, Good(s), NEW v \in Slots, NEW b, NEW t, OpSet(s, v, b, t)
  PROVE  Good(t)
BY KeptGood DEF OpSet

\* The flags and invitations of room r change, and nothing else.
Marked(s, r, flags, invites, t) ==
    /\ Typed(t) /\ t.users = s.users
    /\ \A q \in Rooms \ {r} : t.rooms[q] = s.rooms[q]
    /\ t.rooms[r].name = s.rooms[r].name /\ t.rooms[r].occupants = s.rooms[r].occupants
    /\ t.rooms[r].flags = flags /\ t.rooms[r].invites = invites
    /\ t.rooms[r].lost = s.rooms[r].lost

\* Writing the flags of one room, as a relation.
LEMMA FlagEffect ==
  ASSUME NEW s, Typed(s), NEW r \in Rooms, NEW f \in SUBSET Modes, NEW t,
         t.users = s.users, t.rooms = [s.rooms EXCEPT ![r].flags = f]
  PROVE  Marked(s, r, f, s.rooms[r].invites, t)
<1>1. PICK x : x = s.rooms[r]
  OBVIOUS
<1>2. PICK y : y = [x EXCEPT !.flags = f]
  OBVIOUS
<1>3. /\ y \in Room /\ y.name = x.name /\ y.occupants = x.occupants
      /\ y.flags = f /\ y.invites = x.invites /\ y.lost = x.lost
  <2>1. x \in Room
    BY <1>1 DEF Typed
  <2> QED BY <1>2, <2>1 DEF Room
<1>4. t.rooms = [s.rooms EXCEPT ![r] = y]
  BY <1>1, <1>2 DEF Typed
<1>5. /\ t.rooms \in [Rooms -> Room] /\ t.rooms[r] = y
      /\ \A q \in Rooms \ {r} : t.rooms[q] = s.rooms[q]
  BY <1>3, <1>4 DEF Typed
<1>6. Typed(t)
  BY <1>5 DEF Typed
<1> QED BY <1>1, <1>3, <1>5, <1>6 DEF Marked

\* Adding to the invitations of one room, as a relation.
LEMMA InviteEffect ==
  ASSUME NEW s, Typed(s), NEW r \in Rooms, NEW i \in SUBSET Slots, NEW t,
         t.users = s.users, t.rooms = [s.rooms EXCEPT ![r].invites = i]
  PROVE  Marked(s, r, s.rooms[r].flags, i, t)
<1>1. PICK x : x = s.rooms[r]
  OBVIOUS
<1>2. PICK y : y = [x EXCEPT !.invites = i]
  OBVIOUS
<1>3. /\ y \in Room /\ y.name = x.name /\ y.occupants = x.occupants
      /\ y.flags = x.flags /\ y.invites = i /\ y.lost = x.lost
  <2>1. x \in Room
    BY <1>1 DEF Typed
  <2> QED BY <1>2, <2>1 DEF Room
<1>4. t.rooms = [s.rooms EXCEPT ![r] = y]
  BY <1>1, <1>2 DEF Typed
<1>5. /\ t.rooms \in [Rooms -> Room] /\ t.rooms[r] = y
      /\ \A q \in Rooms \ {r} : t.rooms[q] = s.rooms[q]
  BY <1>3, <1>4 DEF Typed
<1>6. Typed(t)
  BY <1>5 DEF Typed
<1> QED BY <1>1, <1>3, <1>5, <1>6 DEF Marked

\* The flags and invitations of a room matter to none of the parts of Good.
LEMMA MarkedGood ==
  ASSUME NEW s, Good(s), NEW r \in Rooms, NEW f, NEW i, NEW t, Marked(s, r, f, i, t)
  PROVE  Good(t)
BY KeptGood DEF Marked

\* What MakeOp and Toggle do to the operators, SetRoom and Invite to a room.
LEMMA MakeOpState ==
  ASSUME Good(State), NEW u \in Slots, NEW v \in Slots, MakeOp(u, v)
  PROVE  \E t : OpSet(State, u, FALSE, t) /\ OpSet(t, v, TRUE, State')
<1>1. /\ users' = [users EXCEPT ![u].op = FALSE, ![v].op = TRUE] /\ rooms' = rooms
      /\ Typed(State)
  BY DEF MakeOp, Good
<1>2. PICK t : t = [users |-> [users EXCEPT ![u].op = FALSE], rooms |-> rooms]
  OBVIOUS
<1>3. PICK s : s = State
  OBVIOUS
<1>4. PICK z : z = State'
  OBVIOUS
<1>5. /\ t.users = [s.users EXCEPT ![u].op = FALSE] /\ t.rooms = s.rooms
      /\ z.users = [t.users EXCEPT ![v].op = TRUE] /\ z.rooms = t.rooms
      /\ Typed(s)
  BY <1>1, <1>2, <1>3, <1>4 DEF State
<1>6. OpSet(s, u, FALSE, t)
  BY <1>5, OpEffect
<1>7. Typed(t)
  BY <1>6 DEF OpSet
<1>8. OpSet(t, v, TRUE, z)
  BY <1>5, <1>7, OpEffect
<1> QED BY <1>3, <1>4, <1>6, <1>8

\* chat_toggle() as a change of one operator flag.
LEMMA ToggleState ==
  ASSUME Good(State), NEW u \in Slots, NEW v \in Slots, Toggle(u, v)
  PROVE  OpSet(State, v, ~users[v].op, State')
<1>1. PICK s : s = State
  OBVIOUS
<1>2. PICK z : z = State'
  OBVIOUS
<1>3. PICK b : b = ~users[v].op
  OBVIOUS
<1>4. /\ z.users = [s.users EXCEPT ![v].op = b] /\ z.rooms = s.rooms /\ Typed(s)
      /\ b \in BOOLEAN
  BY <1>1, <1>2, <1>3 DEF Toggle, Good, State
<1>5. OpSet(s, v, b, z)
  BY <1>4, OpEffect
<1> QED BY <1>1, <1>2, <1>3, <1>5

\* chat_setroom() as a change of one flag of the room of the user.
LEMMA SetRoomState ==
  ASSUME Good(State), NEW u \in Slots, NEW flag \in Modes, SetRoom(u, flag),
         NEW r, r = users[u].room
  PROVE  /\ r \in Rooms
         /\ Marked(State, r, IF flag \in rooms[r].flags THEN rooms[r].flags \ {flag}
                             ELSE rooms[r].flags \cup {flag}, rooms[r].invites, State')
<1>1. PICK s : s = State
  OBVIOUS
<1>2. PICK z : z = State'
  OBVIOUS
<1>3. PICK f : f = IF flag \in rooms[r].flags THEN rooms[r].flags \ {flag}
                   ELSE rooms[r].flags \cup {flag}
  OBVIOUS
<1>4. /\ s.users = users /\ s.rooms = rooms /\ Typed(s)
      /\ r # Nowhere /\ r = s.users[u].room
      /\ z.rooms = [s.rooms EXCEPT ![r].flags = f] /\ z.users = s.users
  BY <1>1, <1>2, <1>3 DEF SetRoom, InRoom, RoomOf, State, Good
<1>5. r \in Rooms
  BY <1>4 DEF Typed, Seat
<1>6. rooms[r].flags \in SUBSET Modes
  BY <1>4, <1>5 DEF Typed, Room
<1>7. f \in SUBSET Modes
  BY <1>3, <1>6
<1>8. Marked(s, r, f, s.rooms[r].invites, z)
  BY <1>4, <1>5, <1>7, FlagEffect
<1>9. Marked(State, r, f, rooms[r].invites, State')
  BY <1>1, <1>2, <1>4, <1>8
<1> QED BY <1>3, <1>5, <1>9

\* chat_invite() as one invitation more to the room of the user.
LEMMA InviteState ==
  ASSUME Good(State), NEW u \in Slots, NEW v \in Slots, Invite(u, v),
         NEW r, r = users[u].room
  PROVE  /\ r \in Rooms
         /\ Marked(State, r, rooms[r].flags, rooms[r].invites \cup {v}, State')
<1>1. PICK s : s = State
  OBVIOUS
<1>2. PICK z : z = State'
  OBVIOUS
<1>3. PICK i : i = rooms[r].invites \cup {v}
  OBVIOUS
<1>4. /\ s.users = users /\ s.rooms = rooms /\ Typed(s)
      /\ r # Nowhere /\ r = s.users[u].room
      /\ z.rooms = [s.rooms EXCEPT ![r].invites = i] /\ z.users = s.users
  BY <1>1, <1>2, <1>3 DEF Invite, InRoom, RoomOf, State, Good
<1>5. r \in Rooms
  BY <1>4 DEF Typed, Seat
<1>6. rooms[r].invites \in SUBSET Slots
  BY <1>4, <1>5 DEF Typed, Room
<1>7. i \in SUBSET Slots
  BY <1>3, <1>6
<1>8. Marked(s, r, s.rooms[r].flags, i, z)
  BY <1>4, <1>5, <1>7, InviteEffect
<1> QED BY <1>1, <1>2, <1>3, <1>4, <1>5, <1>8

\* The commands of a room operator keep the tables good.
LEMMA RoomCommandsGood ==
  ASSUME Good(State), NEW u \in Slots, NEW v \in Slots,
         \/ MakeOp(u, v) \/ Toggle(u, v) \/ Invite(u, v)
         \/ \E flag \in Modes : SetRoom(u, flag)
  PROVE  Good(State)'
<1>1. PICK z : z = State'
  OBVIOUS
<1>2. PICK r : r = users[u].room
  OBVIOUS
<1>3. PICK s : s = State /\ Good(s)
  OBVIOUS
<1>4. CASE MakeOp(u, v)
  <2>1. PICK t : OpSet(s, u, FALSE, t) /\ OpSet(t, v, TRUE, z)
    BY <1>1, <1>3, <1>4, MakeOpState
  <2>2. Good(t)
    BY <1>3, <2>1, OpGood
  <2>3. Good(z)
    BY <2>1, <2>2, OpGood
  <2> QED BY <1>1, <2>3
<1>5. CASE Toggle(u, v)
  <2>1. OpSet(s, v, ~users[v].op, z)
    BY <1>1, <1>3, <1>5, ToggleState
  <2>2. Good(z)
    BY <1>3, <2>1, OpGood
  <2> QED BY <1>1, <2>2
<1>6. CASE Invite(u, v)
  <2>1. r \in Rooms /\ Marked(s, r, rooms[r].flags, rooms[r].invites \cup {v}, z)
    BY <1>1, <1>2, <1>3, <1>6, InviteState
  <2>2. Good(z)
    BY <1>3, <2>1, MarkedGood
  <2> QED BY <1>1, <2>2
<1>7. ASSUME NEW flag \in Modes, SetRoom(u, flag) PROVE Good(State)'
  <2>1. PICK f : f = IF flag \in rooms[r].flags THEN rooms[r].flags \ {flag}
                     ELSE rooms[r].flags \cup {flag}
    OBVIOUS
  <2>2. r \in Rooms /\ Marked(s, r, f, rooms[r].invites, z)
    BY <1>1, <1>2, <1>3, <1>7, <2>1, SetRoomState
  <2>3. Good(z)
    BY <1>3, <2>2, MarkedGood
  <2> QED BY <1>1, <2>3
<1> QED BY <1>4, <1>5, <1>6, <1>7

\* IInv is inductive: every command of the server keeps it.
LEMMA StepGood == IInv /\ [Next]_vars => IInv'
<1> SUFFICES ASSUME IInv, [Next]_vars PROVE IInv'
  OBVIOUS
<1>1. Good(State) /\ handling \in Slots \cup {Nobody}
  BY DEF IInv
<1>2. CASE UNCHANGED vars
  <2>1. State' = State
    BY <1>2 DEF vars, State
  <2> QED BY <1>1, <1>2, <2>1 DEF IInv, vars
<1>3. ASSUME NEW u \in Slots,
             \/ Accept(u) \/ LostConn(u) \/ LineRefused(u) \/ Talk(u) \/ Bye(u)
             \/ \E c \in Clients, id \in Ids : Login(u, c, id)
             \/ \E n \in Names : Join(u, n) \/ NameRoom(u, n)
             \/ \E id \in Ids : Nick(u, id)
             \/ \E flag \in Modes : SetRoom(u, flag)
             \/ \E v \in Slots : Kick(u, v) \/ MakeOp(u, v) \/ Toggle(u, v) \/ Invite(u, v)
      PROVE  IInv'
  <2>1. CASE Talk(u)
    <3>1. State' = State /\ Rest(u)
      BY <2>1 DEF Talk, State
    <3>2. handling' \in Slots \cup {Nobody}
      BY <3>1 DEF Rest
    <3> QED BY <1>1, <3>1, <3>2 DEF IInv
  <2>2. CASE ~Talk(u)
    <3>1. Good(State)'
      BY <1>1, <1>3, <2>2, AcceptGood, LeavesGood, EntersGood, NameRoomGood, NickGood,
         KickGood, RoomCommandsGood
    <3>2. handling' \in Slots \cup {Nobody}
      <4>1. Rest(u) => handling' \in Slots \cup {Nobody}
        BY DEF Rest
      <4> QED BY <1>1, <1>3, <2>2, <4>1
          DEF Accept, LostConn, LineRefused, Bye, Login, Join, NameRoom, Nick, SetRoom,
              Kick, MakeOp, Toggle, Invite
    <3> QED BY <3>1, <3>2 DEF IInv
  <2> QED BY <2>1, <2>2
<1> QED BY <1>2, <1>3 DEF Next

\* Whatever the order of commands, connections and lost connections, the
\* tables of chatd stay good: seats, counts, words and names at once.
THEOREM Invariance == Spec => []IInv
BY InitGood, StepGood, PTL DEF Spec

-----------------------------------------------------------------------------

\* The invariant contains the types of the tables.
LEMMA GoodTypes == IInv => TypeOK
<1> SUFFICES ASSUME IInv PROVE TypeOK
  OBVIOUS
<1>1. Typed(State) /\ Counted(State) /\ handling \in Slots \cup {Nobody}
  BY DEF IInv, Good
<1>2. users \in [Slots -> Seat] /\ rooms \in [Rooms -> Room]
  BY <1>1 DEF Typed, State
<1>3. ASSUME NEW r \in Rooms PROVE rooms[r].occupants \in 0..CHATMAXACTIVE+MaxLost
  <2>1. rooms[r].lost \in 0..MaxLost
    BY <1>2 DEF Room
  <2>2. Cardinality(Inside(State, r)) \in 0..CHATMAXACTIVE
    BY Finite
  <2>3. rooms[r].occupants = Cardinality(Inside(State, r)) + rooms[r].lost
    BY <1>1 DEF Counted, State
  <2>4. CHATMAXACTIVE \in Nat /\ MaxLost \in Nat
    BY DEF ChatAssumption
  <2> QED BY <2>1, <2>2, <2>3, <2>4
<1>4. rooms \in [Rooms -> [name : Names \cup {None}, occupants : 0..CHATMAXACTIVE+MaxLost,
                           flags : SUBSET Modes, invites : SUBSET Slots,
                           lost : 0..MaxLost]]
  BY <1>2, <1>3 DEF Room
<1> QED BY <1>1, <1>2, <1>4 DEF TypeOK, Seat

\* The counts of the invariant are those the run checks.
LEMMA GoodCounts == IInv => OccupantsAgree
BY DEF IInv, Good, Counted, Inside, OccupantsAgree, State

\* The names of the invariant are those the run checks.
LEMMA GoodNames == IInv => Distinct
<1> SUFFICES ASSUME IInv PROVE Distinct
  OBVIOUS
<1>1. OneWord(State) /\ OwnNames(State)
  BY DEF IInv, Good
<1>2. \A u, v \in Slots :
        /\ u # v /\ users[u].conn /\ users[v].conn /\ ~users[u].left /\ ~users[v].left
        /\ users[u].who # None /\ users[v].who # None
        => /\ Utent[users[u].who] # Utent[users[v].who]
           /\ users[u].chatid # users[v].chatid
  BY <1>1 DEF OneWord, Known, State
<1>3. \A q, r \in OpenRooms(State) : rooms[q].name = rooms[r].name => q = r
  BY <1>1 DEF OwnNames, OwnName, State
<1> QED BY <1>2, <1>3 DEF Distinct

\* The entries of users[] and rooms[] keep their types, the room of a user is
\* an entry of rooms[] or none, and no count exceeds the slots and the ghosts
\* a room has lost.
THEOREM TypeCorrect == Spec => []TypeOK
BY Invariance, GoodTypes, PTL

\* The counter of a room, which exit_room() and enter_room() step, is the
\* number of users in it and of the ghosts whose slots were given away, with
\* lines from clients in any order, after the end of their connection too.
THEOREM CountsRight == Spec => []OccupantsAgree
BY Invariance, GoodCounts, PTL

\* No two users who logged in on their connections have one account or one
\* chat id, and no two open rooms one name: the searches by word in chatd
\* find at most one entry of theirs.
THEOREM WordsDistinct == Spec => []Distinct
BY Invariance, GoodNames, PTL

-----------------------------------------------------------------------------
(* The refinement. *)

OpenNames(s) ==
    {Mainroom} \cup Haunted(s) \cup {Places(s)[u] : u \in {v \in Slots : Places(s)[v] # None}}
Empties(s, u, n) ==
    {x \in OpenNames(s) \ (Haunted(s) \cup {Mainroom, n}) : \A v \in Slots \ {u} : Places(s)[v] # x}
NameOf(s, r) == s.rooms[r].name

\* What is known of the open rooms.
Houses(s) ==
    /\ \A u \in Slots : s.users[u].room # Nowhere => s.users[u].room \in OpenRooms(s)
    /\ \A r \in OpenRooms(s) \ {0} :
         s.rooms[r].lost > 0 \/ \E u \in Slots : s.users[u].room = r
    /\ \A r \in Rooms : s.rooms[r].lost > 0 => r \in OpenRooms(s)
    /\ \A r \in OpenRooms(s) : r \in Rooms /\ NameOf(s, r) \in Names /\ NameOf(s, r) # None
    /\ 0 \in OpenRooms(s) /\ NameOf(s, 0) = Mainroom
    /\ \A q, r \in OpenRooms(s) : NameOf(s, q) = NameOf(s, r) => q = r
    /\ \A u \in Slots : Places(s)[u] = IF s.users[u].room = Nowhere THEN None
                                       ELSE NameOf(s, s.users[u].room)

\* What the refinement uses of good tables.
LEMMA GoodHouses ==
  ASSUME NEW s, Good(s)
  PROVE  Houses(s)
<1>1. Typed(s) /\ Seated(s) /\ Counted(s) /\ OwnNames(s)
  BY DEF Good
<1>2. ASSUME NEW u \in Slots, s.users[u].room # Nowhere
      PROVE  s.users[u].room \in OpenRooms(s)
  <2>1. PICK r \in Rooms : r = s.users[u].room
    BY <1>1, <1>2 DEF Typed, Seat
  <2>2. u \in Inside(s, r)
    BY <1>1, <1>2, <2>1 DEF Seated, Inside
  <2>3. Cardinality(Inside(s, r)) > 0
    BY <2>2, Finite
  <2>4. Cardinality(Inside(s, r)) \in Int /\ s.rooms[r].lost \in Int /\ 0 <= s.rooms[r].lost
    BY <1>1, Finite DEF Typed, Room
  <2>5. s.rooms[r].occupants = Cardinality(Inside(s, r)) + s.rooms[r].lost
    BY <1>1 DEF Counted
  <2>6. s.rooms[r].occupants > 0
    BY <2>3, <2>4, <2>5
  <2> QED BY <2>1, <2>6 DEF OpenRooms
<1>3. ASSUME NEW r \in OpenRooms(s) \ {0}
      PROVE  s.rooms[r].lost > 0 \/ \E u \in Slots : s.users[u].room = r
  <2>1. r \in Rooms /\ s.rooms[r].occupants > 0
    BY DEF OpenRooms
  <2>2. s.rooms[r].occupants = Cardinality(Inside(s, r)) + s.rooms[r].lost
    BY <1>1, <2>1 DEF Counted
  <2>3. Cardinality(Inside(s, r)) \in Int /\ s.rooms[r].lost \in Int
    BY <1>1, <2>1, Finite DEF Typed, Room
  <2>4. s.rooms[r].lost > 0 \/ Cardinality(Inside(s, r)) > 0
    BY <2>1, <2>2, <2>3
  <2>5. Cardinality(Inside(s, r)) > 0 => Inside(s, r) # {}
    BY Finite
  <2>6. Inside(s, r) # {} => \E u \in Slots : s.users[u].room = r
    BY DEF Inside
  <2> QED BY <2>4, <2>5, <2>6
<1>9. ASSUME NEW r \in Rooms, s.rooms[r].lost > 0
      PROVE  r \in OpenRooms(s)
  <2>1. s.rooms[r].occupants = Cardinality(Inside(s, r)) + s.rooms[r].lost
    BY <1>1 DEF Counted
  <2>2. /\ Cardinality(Inside(s, r)) \in Int /\ 0 <= Cardinality(Inside(s, r))
        /\ s.rooms[r].lost \in Int
    BY <1>1, Constants, Finite DEF Typed, Room
  <2>3. s.rooms[r].occupants > 0
    BY <1>9, <2>1, <2>2
  <2> QED BY <2>3 DEF OpenRooms
<1>4. \A r \in OpenRooms(s) : r \in Rooms
  BY DEF OpenRooms
<1>5. \A r \in OpenRooms(s) : NameOf(s, r) \in Names /\ NameOf(s, r) # None
  BY <1>1, <1>4 DEF Typed, Room, OwnNames, OwnName, NameOf
<1>6. 0 \in OpenRooms(s) /\ NameOf(s, 0) = Mainroom
  BY <1>1, Constants DEF OpenRooms, OwnNames, NameOf
<1>7. \A q, r \in OpenRooms(s) : NameOf(s, q) = NameOf(s, r) => q = r
  BY <1>1 DEF OwnNames, OwnName, NameOf
<1>8. \A u \in Slots : Places(s)[u] = IF s.users[u].room = Nowhere THEN None
                                      ELSE NameOf(s, s.users[u].room)
  BY DEF Places, NameOf
<1> QED BY <1>2, <1>3, <1>4, <1>5, <1>6, <1>7, <1>8, <1>9 DEF Houses

\* The names the abstract specification has are those of the open rooms.
LEMMA NamesOfOpen ==
  ASSUME NEW s, Houses(s)
  PROVE  \A x : x \in OpenNames(s) <=> \E r \in OpenRooms(s) : x = NameOf(s, r)
<1>1. ASSUME NEW x, x \in OpenNames(s)
      PROVE  \E r \in OpenRooms(s) : x = NameOf(s, r)
  <2>1. CASE x = Mainroom
    BY <2>1 DEF Houses
  <2>2. CASE x \in Haunted(s)
    <3>1. PICK q \in Rooms : s.rooms[q].lost > 0 /\ x = NameOf(s, q)
      BY <2>2 DEF Haunted, NameOf
    <3> QED BY <3>1 DEF Houses
  <2>3. CASE x # Mainroom /\ x \notin Haunted(s)
    <3>1. PICK u \in Slots : Places(s)[u] # None /\ x = Places(s)[u]
      BY <1>1, <2>3 DEF OpenNames
    <3>2. s.users[u].room # Nowhere /\ x = NameOf(s, s.users[u].room)
      BY <3>1 DEF Houses
    <3> QED BY <3>2 DEF Houses
  <2> QED BY <2>1, <2>2, <2>3
<1>2. ASSUME NEW r \in OpenRooms(s)
      PROVE  NameOf(s, r) \in OpenNames(s)
  <2>1. CASE r = 0
    BY <2>1 DEF Houses, OpenNames
  <2>2. CASE s.rooms[r].lost > 0
    <3>1. r \in Rooms
      BY DEF Houses
    <3> QED BY <2>2, <3>1 DEF OpenNames, Haunted, NameOf
  <2>3. CASE r # 0 /\ ~(s.rooms[r].lost > 0)
    <3>1. PICK u \in Slots : s.users[u].room = r
      BY <2>3 DEF Houses
    <3>2. r # Nowhere /\ NameOf(s, r) # None
      BY Constants DEF Houses
    <3>3. Places(s)[u] = NameOf(s, r) /\ Places(s)[u] # None
      BY <3>1, <3>2 DEF Houses
    <3> QED BY <3>3 DEF OpenNames
  <2> QED BY <2>1, <2>2, <2>3
<1> QED BY <1>1, <1>2

\* User u goes from where it is in s to n, another room or None, and those
\* in gone lose their invitations; a room that opens has none and no mode.
Goes(s, u, n, gone, m) ==
    /\ Houses(s) /\ Houses(m)
    /\ \A v \in Slots \ {u} : m.users[v].room = s.users[v].room
    /\ \A q \in Rooms : NameOf(m, q) = NameOf(s, q) /\ m.rooms[q].lost = s.rooms[q].lost
    /\ n = Places(m)[u]
    /\ \A q \in OpenRooms(s) : \A r \in Rooms :
         r = m.users[u].room /\ NameOf(s, q) = NameOf(s, r) => q = r
    /\ \A q \in OpenRooms(m) \ OpenRooms(s) :
         m.rooms[q].flags = {} /\ m.rooms[q].invites = {}
    /\ \A q \in OpenRooms(m) : q \in OpenRooms(s) =>
         /\ m.rooms[q].flags = s.rooms[q].flags
         /\ \A v : v \in m.rooms[q].invites <=>
                   v \in s.rooms[q].invites /\ <<v, NameOf(s, q)>> \notin gone

\* The rooms that the abstract specification closes when u goes to n are the
\* ones that the table leaves with no occupant.
LEMMA EmptiesClose ==
  ASSUME NEW s, NEW u \in Slots, NEW n, NEW gone, NEW m, Goes(s, u, n, gone, m)
  PROVE  \A q \in OpenRooms(s) : NameOf(s, q) \in Empties(s, u, n) <=> q \notin OpenRooms(m)
<1>1. Houses(s) /\ Houses(m)
  BY DEF Goes
<1>2. ASSUME NEW q \in OpenRooms(s), q \in OpenRooms(m), NameOf(s, q) \in Empties(s, u, n)
      PROVE  FALSE
  <2>1. NameOf(s, q) # Mainroom /\ NameOf(s, q) # n /\ NameOf(s, q) \notin Haunted(s)
        /\ \A v \in Slots \ {u} : Places(s)[v] # NameOf(s, q)
    BY <1>2 DEF Empties
  <2>2. q # 0 /\ q \in Rooms
    BY <1>1, <2>1 DEF Houses
  <2>7. ~(s.rooms[q].lost > 0)
    BY <2>1, <2>2 DEF Haunted, NameOf
  <2>8. ~(m.rooms[q].lost > 0)
    BY <2>2, <2>7 DEF Goes
  <2>3. PICK w \in Slots : m.users[w].room = q
    BY <1>1, <1>2, <2>2, <2>8 DEF Houses
  <2>4. q # Nowhere
    BY <2>2, Constants
  <2>5. CASE w = u
    <3>1. n = NameOf(m, q)
      BY <1>1, <2>3, <2>4, <2>5 DEF Houses, Goes
    <3>2. NameOf(m, q) = NameOf(s, q)
      BY <2>2 DEF Goes
    <3> QED BY <2>1, <3>1, <3>2
  <2>6. CASE w # u
    <3>1. s.users[w].room = q
      BY <2>3, <2>6 DEF Goes
    <3>2. Places(s)[w] = NameOf(s, q)
      BY <1>1, <2>4, <3>1 DEF Houses
    <3> QED BY <2>1, <2>6, <3>2
  <2> QED BY <2>5, <2>6
<1>3. ASSUME NEW q \in OpenRooms(s), q \notin OpenRooms(m)
      PROVE  NameOf(s, q) \in Empties(s, u, n)
  <2>1. NameOf(s, q) \in OpenNames(s)
    BY <1>1, NamesOfOpen
  <2>2. q # 0 /\ q \in Rooms
    BY <1>1, <1>3 DEF Houses
  <2>3. NameOf(s, q) # Mainroom
    BY <1>1, <2>2 DEF Houses
  <2>4. NameOf(s, q) # n
    <3>1. SUFFICES ASSUME NameOf(s, q) = n PROVE FALSE
      OBVIOUS
    <3>2. NameOf(s, q) # None
      BY <1>1 DEF Houses
    <3>3. PICK r : r = m.users[u].room
      OBVIOUS
    <3>4. r # Nowhere /\ n = NameOf(m, r)
      BY <1>1, <3>1, <3>2, <3>3 DEF Houses, Goes
    <3>5. r \in OpenRooms(m) /\ r \in Rooms
      BY <1>1, <3>3, <3>4 DEF Houses
    <3>6. NameOf(s, q) = NameOf(s, r)
      BY <3>1, <3>4, <3>5 DEF Goes
    <3>7. q = r
      BY <3>3, <3>5, <3>6 DEF Goes
    <3> QED BY <1>3, <3>5, <3>7
  <2>5. ASSUME NEW v \in Slots \ {u}, Places(s)[v] = NameOf(s, q)
        PROVE  FALSE
    <3>1. NameOf(s, q) # None
      BY <1>1 DEF Houses
    <3>2. s.users[v].room # Nowhere /\ NameOf(s, s.users[v].room) = NameOf(s, q)
      BY <1>1, <2>5, <3>1 DEF Houses
    <3>3. s.users[v].room \in OpenRooms(s)
      BY <1>1, <3>2 DEF Houses
    <3>4. s.users[v].room = q
      BY <1>1, <3>2, <3>3 DEF Houses
    <3>5. m.users[v].room = q /\ q # Nowhere
      BY <3>2, <3>4 DEF Goes
    <3>6. q \in OpenRooms(m)
      BY <1>1, <3>5 DEF Houses
    <3> QED BY <1>3, <3>6
  <2>6. ASSUME NameOf(s, q) \in Haunted(s) PROVE FALSE
    <3>1. PICK r \in Rooms : s.rooms[r].lost > 0 /\ NameOf(s, r) = NameOf(s, q)
      BY <2>6 DEF Haunted, NameOf
    <3>2. r = q
      BY <1>1, <3>1 DEF Houses
    <3>3. m.rooms[q].lost > 0
      BY <3>1, <3>2 DEF Goes
    <3> QED BY <1>1, <1>3, <2>2, <3>3 DEF Houses
  <2> QED BY <2>1, <2>3, <2>4, <2>5, <2>6 DEF Empties
<1> QED BY <1>2, <1>3

\* Which names have a mode, by the entries of the table.
LEMMA InModeOf ==
  ASSUME NEW s, NEW flag
  PROVE  \A x : x \in InMode(s, flag) <=>
             \E q \in OpenRooms(s) : flag \in s.rooms[q].flags /\ x = NameOf(s, q)
BY DEF InMode, NameOf

\* Which invitations there are, by the entries of the table.
LEMMA InvitationsOf ==
  ASSUME NEW s
  PROVE  \A x : x \in Invitations(s) <=>
             \E v \in Slots, q \in OpenRooms(s) :
                 v \in s.rooms[q].invites /\ x = <<v, NameOf(s, q)>>
<1>1. ASSUME NEW x, x \in Invitations(s)
      PROVE  \E v \in Slots, q \in OpenRooms(s) :
                 v \in s.rooms[q].invites /\ x = <<v, NameOf(s, q)>>
  <2>1. PICK p \in Slots \X OpenRooms(s) :
           p[1] \in s.rooms[p[2]].invites /\ x = <<p[1], s.rooms[p[2]].name>>
    BY <1>1 DEF Invitations
  <2> QED BY <2>1 DEF NameOf
<1>2. ASSUME NEW v \in Slots, NEW q \in OpenRooms(s), v \in s.rooms[q].invites
      PROVE  <<v, NameOf(s, q)>> \in Invitations(s)
  <2>1. PICK p : p = <<v, q>>
    OBVIOUS
  <2>2. p \in Slots \X OpenRooms(s) /\ p[1] = v /\ p[2] = q
    BY <2>1
  <2> QED BY <1>2, <2>2 DEF Invitations, NameOf
<1> QED BY <1>1, <1>2

\* The modes of a room end with it, and no other mode changes.
LEMMA GoesModes ==
  ASSUME NEW s, NEW u \in Slots, NEW n, NEW gone, NEW m, Goes(s, u, n, gone, m), NEW flag
  PROVE  InMode(m, flag) = InMode(s, flag) \ Empties(s, u, n)
<1>1. Houses(s) /\ Houses(m)
  BY DEF Goes
<1>2. \A q \in OpenRooms(m) : q \in Rooms /\ NameOf(m, q) = NameOf(s, q)
  BY <1>1 DEF Houses, Goes
<1>3. ASSUME NEW x \in InMode(m, flag)
      PROVE  x \in InMode(s, flag) \ Empties(s, u, n)
  <2>1. PICK q \in OpenRooms(m) : flag \in m.rooms[q].flags /\ x = NameOf(m, q)
    BY InModeOf
  <2>2. q \in OpenRooms(s) /\ flag \in s.rooms[q].flags
    BY <2>1 DEF Goes
  <2>3. x = NameOf(s, q)
    BY <1>2, <2>1
  <2>4. x \in InMode(s, flag)
    BY <2>2, <2>3, InModeOf
  <2>5. x \notin Empties(s, u, n)
    BY <2>2, <2>3, EmptiesClose
  <2> QED BY <2>4, <2>5
<1>4. ASSUME NEW x \in InMode(s, flag) \ Empties(s, u, n)
      PROVE  x \in InMode(m, flag)
  <2>1. PICK q \in OpenRooms(s) : flag \in s.rooms[q].flags /\ x = NameOf(s, q)
    BY InModeOf
  <2>2. q \in OpenRooms(m)
    BY <2>1, EmptiesClose
  <2>3. flag \in m.rooms[q].flags /\ x = NameOf(m, q)
    BY <1>2, <2>1, <2>2 DEF Goes
  <2> QED BY <2>2, <2>3, InModeOf
<1> QED BY <1>3, <1>4

\* Its invitations end too, and so do those used up.
LEMMA GoesInvitations ==
  ASSUME NEW s, NEW u \in Slots, NEW n, NEW gone, NEW m, Goes(s, u, n, gone, m)
  PROVE  Invitations(m) =
             {p \in Invitations(s) : p[2] \notin Empties(s, u, n) /\ p \notin gone}
<1>1. Houses(s) /\ Houses(m)
  BY DEF Goes
<1>2. \A q \in OpenRooms(m) : q \in Rooms /\ NameOf(m, q) = NameOf(s, q)
  BY <1>1 DEF Houses, Goes
<1>3. ASSUME NEW x \in Invitations(m)
      PROVE  x \in Invitations(s) /\ x[2] \notin Empties(s, u, n) /\ x \notin gone
  <2>1. PICK v \in Slots, q \in OpenRooms(m) :
           v \in m.rooms[q].invites /\ x = <<v, NameOf(m, q)>>
    BY InvitationsOf
  <2>2. q \in OpenRooms(s)
    BY <2>1 DEF Goes
  <2>3. v \in s.rooms[q].invites /\ <<v, NameOf(s, q)>> \notin gone
    BY <2>1, <2>2 DEF Goes
  <2>4. x = <<v, NameOf(s, q)>> /\ x[2] = NameOf(s, q)
    BY <1>2, <2>1
  <2>5. x \in Invitations(s)
    BY <2>2, <2>3, <2>4, InvitationsOf
  <2>6. x[2] \notin Empties(s, u, n)
    BY <2>2, <2>4, EmptiesClose
  <2> QED BY <2>3, <2>4, <2>5, <2>6
<1>4. ASSUME NEW x \in Invitations(s), x[2] \notin Empties(s, u, n), x \notin gone
      PROVE  x \in Invitations(m)
  <2>1. PICK v \in Slots, q \in OpenRooms(s) :
           v \in s.rooms[q].invites /\ x = <<v, NameOf(s, q)>>
    BY InvitationsOf
  <2>2. x[2] = NameOf(s, q)
    BY <2>1
  <2>3. q \in OpenRooms(m)
    BY <1>4, <2>2, EmptiesClose
  <2>4. v \in m.rooms[q].invites /\ x = <<v, NameOf(m, q)>>
    BY <1>2, <1>4, <2>1, <2>3 DEF Goes
  <2> QED BY <2>3, <2>4, InvitationsOf
<1> QED BY <1>3, <1>4

\* Only u changes place.
LEMMA GoesPlaces ==
  ASSUME NEW s, NEW u \in Slots, NEW n, NEW gone, NEW m, Goes(s, u, n, gone, m)
  PROVE  Places(m) = [Places(s) EXCEPT ![u] = n]
<1>1. Houses(s) /\ Houses(m)
  BY DEF Goes
<1>2. ASSUME NEW v \in Slots \ {u}
      PROVE  Places(m)[v] = Places(s)[v]
  <2>1. m.users[v].room = s.users[v].room
    BY DEF Goes
  <2>2. CASE s.users[v].room = Nowhere
    BY <1>1, <2>1, <2>2 DEF Houses
  <2>3. CASE s.users[v].room # Nowhere
    <3>1. s.users[v].room \in Rooms
      BY <1>1, <2>3 DEF Houses
    <3>2. NameOf(m, s.users[v].room) = NameOf(s, s.users[v].room)
      BY <3>1 DEF Goes
    <3> QED BY <1>1, <2>1, <2>3, <3>2 DEF Houses
  <2> QED BY <2>2, <2>3
<1>3. Places(m)[u] = n
  BY DEF Goes
<1>4. Places(m) = [v \in Slots |-> Places(m)[v]] /\ Places(s) = [v \in Slots |-> Places(s)[v]]
  BY DEF Places
<1>5. PICK f, g : f = Places(m) /\ g = Places(s)
  OBVIOUS
<1> QED BY <1>2, <1>3, <1>4, <1>5

\* The steps of ChatRooms, between the mapped states s and m.
MovesTo(s, u, n, gone, m) ==
    /\ Places(m) = [Places(s) EXCEPT ![u] = n]
    /\ Invitations(m) = {p \in Invitations(s) : p[2] \notin Empties(s, u, n) /\ p \notin gone}
    /\ InMode(m, "locked") = InMode(s, "locked") \ Empties(s, u, n)
    /\ InMode(m, "sysoped") = InMode(s, "sysoped") \ Empties(s, u, n)
    /\ Haunted(m) = Haunted(s)

\* Together: what u's going does to the mapped state.
LEMMA GoesMoves ==
  ASSUME NEW s, NEW u \in Slots, NEW n, NEW gone, NEW m, Goes(s, u, n, gone, m)
  PROVE  MovesTo(s, u, n, gone, m)
<1>1. Places(m) = [Places(s) EXCEPT ![u] = n]
  BY GoesPlaces
<1>2. Invitations(m) = {p \in Invitations(s) : p[2] \notin Empties(s, u, n) /\ p \notin gone}
  BY GoesInvitations
<1>3. \A flag : InMode(m, flag) = InMode(s, flag) \ Empties(s, u, n)
  BY GoesModes
<1>4. Haunted(m) = Haunted(s)
  BY DEF Goes, Haunted, NameOf
<1> QED BY <1>1, <1>2, <1>3, <1>4, Zenon DEF MovesTo

\* Operators and accounts.
LEMMA OperatorsMove ==
  ASSUME NEW s, NEW u \in Slots, NEW m,
         \A v \in Slots \ {u} : m.users[v] = s.users[v]
  PROVE  /\ ~m.users[u].op \/ m.users[u].room = Nowhere => Operators(m) = Operators(s) \ {u}
         /\ m.users[u].op /\ m.users[u].room # Nowhere => Operators(m) = Operators(s) \cup {u}
BY DEF Operators

\* Whether u is a ghost is seen from its own entry.
LEMMA GhostsMove ==
  ASSUME NEW s, NEW u \in Slots, NEW m,
         \A v \in Slots \ {u} : m.users[v] = s.users[v]
  PROVE  /\ m.users[u].conn \/ m.users[u].who = None => Ghosts(m) = Ghosts(s) \ {u}
         /\ ~m.users[u].conn /\ m.users[u].who # None => Ghosts(m) = Ghosts(s) \cup {u}
BY DEF Ghosts

\* exit_room() makes u go to no room.
LEMMA LeaveGoes ==
  ASSUME NEW s, NEW u \in Slots, NEW e, Good(s), Exited(s, u, e)
  PROVE  Goes(s, u, None, {}, e)
<1>1. Houses(s) /\ Houses(e)
  BY ExitGood, GoodHouses
<1>2. Typed(s)
  BY DEF Good
<1>3. e.users[u].room = Nowhere /\ Nowhere \notin Rooms
  BY Constants DEF Exited
<1>4. Places(e)[u] = None
  BY <1>1, <1>3 DEF Houses
<1>5. \A q \in Rooms : NameOf(e, q) = NameOf(s, q) /\ e.rooms[q].lost = s.rooms[q].lost
  BY DEF Exited, NameOf
<1>6. OpenRooms(e) \subseteq OpenRooms(s)
  <2>1. \A q \in Rooms : s.rooms[q].occupants \in Int
    BY <1>2 DEF Typed, Room
  <2>2. \A q \in Rooms : e.rooms[q].occupants =
          IF q = s.users[u].room THEN s.rooms[q].occupants - 1 ELSE s.rooms[q].occupants
    BY DEF Exited
  <2> QED BY <2>1, <2>2 DEF OpenRooms
<1>7. \A q \in OpenRooms(e) :
        e.rooms[q].flags = s.rooms[q].flags /\ e.rooms[q].invites = s.rooms[q].invites
  BY DEF Exited, OpenRooms
<1>8. \A v \in Slots \ {u} : e.users[v].room = s.users[v].room
  BY DEF Exited
<1> QED BY <1>1, <1>3, <1>4, <1>5, <1>6, <1>7, <1>8 DEF Goes

\* exit_room() and logout_user() do, and take back the invitations of u.
LEMMA LogoutGoes ==
  ASSUME NEW s, NEW u \in Slots, NEW e, NEW o, Good(s),
         Exited(s, u, e), LoggedOut(e, u, o)
  PROVE  Goes(s, u, None, {u} \X Names, o)
<1>1. Good(e) /\ e.users[u].room = Nowhere
  BY ExitGood, ZenonT(40) DEF Exited
<1>2. Good(o)
  BY <1>1, LogoutGood
<1>3. Houses(s) /\ Houses(o) /\ Typed(s)
  BY <1>2, GoodHouses DEF Good
<1>4. o.users[u].room = Nowhere /\ Nowhere \notin Rooms
  BY Constants DEF LoggedOut, Closed
<1>5. Places(o)[u] = None
  BY <1>3, <1>4 DEF Houses
<1>6. \A q \in Rooms : NameOf(o, q) = NameOf(s, q) /\ o.rooms[q].lost = s.rooms[q].lost
  BY DEF Exited, LoggedOut, NameOf
<1>7. OpenRooms(o) \subseteq OpenRooms(s)
  <2>1. \A q \in Rooms : s.rooms[q].occupants \in Int
    BY <1>3 DEF Typed, Room
  <2>2. \A q \in Rooms : o.rooms[q].occupants =
          IF q = s.users[u].room THEN s.rooms[q].occupants - 1 ELSE s.rooms[q].occupants
    BY DEF Exited, LoggedOut
  <2> QED BY <2>1, <2>2 DEF OpenRooms
<1>8. \A q \in OpenRooms(o) :
        o.rooms[q].flags = s.rooms[q].flags /\ o.rooms[q].invites = s.rooms[q].invites \ {u}
  BY DEF Exited, LoggedOut, OpenRooms
<1>9. \A v, q : q \in OpenRooms(s) => (<<v, NameOf(s, q)>> \in {u} \X Names <=> v = u)
  BY <1>3 DEF Houses
<1>10. \A v \in Slots \ {u} : o.users[v].room = s.users[v].room
  BY DEF Exited, LoggedOut
<1>11. \A q \in OpenRooms(o) : q \in OpenRooms(s) =>
         /\ o.rooms[q].flags = s.rooms[q].flags
         /\ \A v : v \in o.rooms[q].invites <=>
                   v \in s.rooms[q].invites /\ <<v, NameOf(s, q)>> \notin {u} \X Names
  BY <1>8, <1>9
<1> HIDE <1>8, <1>9
<1> QED BY <1>3, <1>4, <1>5, <1>6, <1>7, <1>10, <1>11 DEF Goes

\* enter_room() makes u go to an open room, and uses up the invitation.
LEMMA EnterGoes ==
  ASSUME NEW s, NEW u \in Slots, NEW r, NEW n, NEW op, NEW m, Good(s),
         s.users[u].who # None, r \in Named(s, n), Moved(s, u, r, op, m)
  PROVE  Goes(s, u, n, {<<u, n>>}, m)
<1>1. r \in OpenRooms(s) /\ NameOf(s, r) = n /\ r \in Rooms /\ OwnName(s, r)
  BY DEF Named, OpenRooms, NameOf, Good, OwnNames
<1>2. Good(m)
  BY <1>1, MoveGood
<1>3. Houses(s) /\ Houses(m) /\ Typed(s)
  BY <1>2, GoodHouses DEF Good
<1>4. \A q \in Rooms : NameOf(m, q) = NameOf(s, q) /\ m.rooms[q].lost = s.rooms[q].lost
  BY DEF Moved, NameOf
<1>5. m.users[u].room = r /\ r # Nowhere
  BY <1>1, Constants DEF Moved
<1>6. Places(m)[u] = n
  BY <1>1, <1>3, <1>4, <1>5 DEF Houses
<1>7. OpenRooms(m) \subseteq OpenRooms(s)
  <2>1. \A q \in Rooms : s.rooms[q].occupants \in Int
    BY <1>3 DEF Typed, Room
  <2>2. \A q \in Rooms \ {r} : m.rooms[q].occupants = s.rooms[q].occupants
                - (IF q = s.users[u].room THEN 1 ELSE 0) + (IF q = r THEN 1 ELSE 0)
    BY DEF Moved
  <2>3. \A q \in Rooms \ {r} : m.rooms[q].occupants <= s.rooms[q].occupants
                               /\ m.rooms[q].occupants \in Int
    BY <2>1, <2>2
  <2> QED BY <1>1, <2>1, <2>3 DEF OpenRooms
<1>8. \A q \in OpenRooms(s) : NameOf(s, q) = NameOf(s, r) => q = r
  BY <1>1, <1>3 DEF Houses
<1>9. \A q \in OpenRooms(m) : q \in OpenRooms(s) =>
        /\ m.rooms[q].flags = s.rooms[q].flags
        /\ m.rooms[q].invites = IF q = r THEN s.rooms[q].invites \ {u} ELSE s.rooms[q].invites
  BY DEF Moved, OpenRooms
<1>10. \A v, q : q \in OpenRooms(s) =>
         (<<v, NameOf(s, q)>> \in {<<u, n>>} <=> v = u /\ q = r)
  BY <1>1, <1>8
<1>11. \A q \in OpenRooms(m) : q \in OpenRooms(s) =>
         /\ m.rooms[q].flags = s.rooms[q].flags
         /\ \A v : v \in m.rooms[q].invites <=>
                   v \in s.rooms[q].invites /\ <<v, NameOf(s, q)>> \notin {<<u, n>>}
  BY <1>9, <1>10, ZenonT(40)
<1>12. \A v \in Slots \ {u} : m.users[v].room = s.users[v].room
  BY DEF Moved
<1> HIDE <1>9, <1>10
<1> QED BY <1>3, <1>4, <1>5, <1>6, <1>7, <1>8, <1>11, <1>12 DEF Goes

\* enter_room() makes u go to a room that was not open.
LEMMA OpenGoes ==
  ASSUME NEW s, NEW u \in Slots, NEW r \in Rooms \ OpenRooms(s), NEW n, NEW m, Good(s),
         s.users[u].who # None, OwnName(s, r), NameOf(s, r) = n,
         s.rooms[r].flags = {}, s.rooms[r].invites = {}, Moved(s, u, r, TRUE, m)
  PROVE  Goes(s, u, n, {}, m)
<1>2. Good(m)
  BY MoveGood
<1>3. Houses(s) /\ Houses(m) /\ Typed(s)
  BY <1>2, GoodHouses DEF Good
<1>4. \A q \in Rooms : NameOf(m, q) = NameOf(s, q) /\ m.rooms[q].lost = s.rooms[q].lost
  BY DEF Moved, NameOf
<1>5. m.users[u].room = r /\ r # Nowhere
  BY Constants DEF Moved
<1>6. Places(m)[u] = n
  BY <1>3, <1>4, <1>5 DEF Houses
<1>7. OpenRooms(m) \subseteq OpenRooms(s) \cup {r}
  <2>1. \A q \in Rooms : s.rooms[q].occupants \in Int
    BY <1>3 DEF Typed, Room
  <2>2. \A q \in Rooms \ {r} : m.rooms[q].occupants = s.rooms[q].occupants
                - (IF q = s.users[u].room THEN 1 ELSE 0) + (IF q = r THEN 1 ELSE 0)
    BY DEF Moved
  <2>3. \A q \in Rooms \ {r} : m.rooms[q].occupants <= s.rooms[q].occupants
                               /\ m.rooms[q].occupants \in Int
    BY <2>1, <2>2
  <2> QED BY <2>1, <2>3 DEF OpenRooms
<1>8. \A q \in OpenRooms(s) : NameOf(s, q) = NameOf(s, r) => q = r
  BY DEF OwnName, NameOf
<1>9. m.rooms[r].flags = {} /\ m.rooms[r].invites = {}
  BY DEF Moved
<1>11. \A q \in OpenRooms(m) : q \in OpenRooms(s) =>
         /\ m.rooms[q].flags = s.rooms[q].flags
         /\ \A v : v \in m.rooms[q].invites <=>
                   v \in s.rooms[q].invites /\ <<v, NameOf(s, q)>> \notin {}
  BY DEF Moved, OpenRooms
<1>12. \A v \in Slots \ {u} : m.users[v].room = s.users[v].room
  BY DEF Moved
<1> QED BY <1>3, <1>4, <1>5, <1>6, <1>7, <1>8, <1>9, <1>11, <1>12 DEF Goes

\* A room that nobody is in may be renamed and emptied unseen.
LEMMA NewRoomUnseen ==
  ASSUME NEW s, NEW r \in Rooms \ OpenRooms(s), NEW n \in Names, NEW w, Good(s),
         Named(s, n) = {}, Renewed(s, r, n, w)
  PROVE  /\ Accounts(w) = Accounts(s) /\ Places(w) = Places(s)
         /\ Operators(w) = Operators(s) /\ Invitations(w) = Invitations(s)
         /\ Ghosts(w) = Ghosts(s) /\ Haunted(w) = Haunted(s)
         /\ \A flag : InMode(w, flag) = InMode(s, flag)
<1>1. w.users = s.users /\ OpenRooms(w) = OpenRooms(s)
  BY NewRoomGood DEF Renewed
<1>2. \A q \in OpenRooms(s) : w.rooms[q] = s.rooms[q]
  BY DEF Renewed, OpenRooms
<1>3. Houses(s)
  BY GoodHouses
<1>4. \A u \in Slots : s.users[u].room # Nowhere =>
        w.rooms[s.users[u].room].name = s.rooms[s.users[u].room].name
  BY <1>2, <1>3 DEF Houses
<1>5. Accounts(w) = Accounts(s) /\ Operators(w) = Operators(s)
  BY <1>1 DEF Accounts, Operators
<1>6. Places(w) = Places(s)
  BY <1>1, <1>4 DEF Places
<1>7. \A q \in OpenRooms(s) : NameOf(w, q) = NameOf(s, q)
  BY <1>2 DEF NameOf
<1>8. \A x : x \in Invitations(w) <=> x \in Invitations(s)
  BY <1>1, <1>2, <1>7, InvitationsOf
<1>9. ASSUME NEW flag PROVE InMode(w, flag) = InMode(s, flag)
  <2>1. \A x : x \in InMode(w, flag) <=> x \in InMode(s, flag)
    BY <1>1, <1>2, <1>7, InModeOf
  <2>2. \A x \in InMode(w, flag) : x \in InMode(s, flag)
    BY <2>1
  <2> QED BY <2>1
<1>10. Invitations(w) = Invitations(s)
  BY <1>8
<1>11. Ghosts(w) = Ghosts(s)
  BY <1>1 DEF Ghosts
<1>12. Haunted(w) = Haunted(s)
  <2>1. \A q \in Rooms : w.rooms[q].lost = s.rooms[q].lost
    BY DEF Renewed
  <2>2. \A q \in Rooms : s.rooms[q].lost > 0 => w.rooms[q].name = s.rooms[q].name
    BY <1>2, <1>3 DEF Houses
  <2> QED BY <2>1, <2>2 DEF Haunted
<1> QED BY <1>5, <1>6, <1>9, <1>10, <1>11, <1>12

\* Leaving a room and then entering r is moving there.
LEMMA ExitThenMove ==
  ASSUME NEW s, NEW u \in Slots, NEW e, NEW r \in Rooms, NEW op, NEW m, Typed(s),
         Exited(s, u, e), Moved(e, u, r, op, m)
  PROVE  Moved(s, u, r, op, m)
<1>1. e.users[u].room = Nowhere /\ Nowhere \notin Rooms
  BY Constants DEF Exited
<1>2. \A q \in Rooms : s.rooms[q].occupants \in Int
  BY DEF Typed, Room
<1>3. ASSUME NEW q \in Rooms
      PROVE  m.rooms[q].occupants = s.rooms[q].occupants
                - (IF q = s.users[u].room THEN 1 ELSE 0) + (IF q = r THEN 1 ELSE 0)
  <2>1. m.rooms[q].occupants = e.rooms[q].occupants
                - (IF q = e.users[u].room THEN 1 ELSE 0) + (IF q = r THEN 1 ELSE 0)
    BY DEF Moved
  <2>2. e.rooms[q].occupants = IF q = s.users[u].room THEN s.rooms[q].occupants - 1
                               ELSE s.rooms[q].occupants
    BY DEF Exited
  <2>3. q # e.users[u].room
    BY <1>1
  <2> QED BY <1>2, <2>1, <2>2, <2>3
<1>4. /\ Typed(m) /\ \A v \in Slots \ {u} : m.users[v] = s.users[v]
  BY DEF Exited, Moved
<1>5. /\ m.users[u].conn = s.users[u].conn
      /\ m.users[u].who = s.users[u].who /\ m.users[u].left = s.users[u].left
      /\ m.users[u].chatid = s.users[u].chatid
      /\ m.users[u].room = r /\ m.users[u].op = op
  BY DEF Exited, Moved
<1>6. ASSUME NEW q \in Rooms
      PROVE  /\ m.rooms[q].name = s.rooms[q].name
             /\ m.rooms[q].flags = s.rooms[q].flags /\ m.rooms[q].lost = s.rooms[q].lost
             /\ m.rooms[q].invites = IF q = r THEN s.rooms[q].invites \ {u}
                                     ELSE s.rooms[q].invites
  <2>1. /\ e.rooms[q].name = s.rooms[q].name
        /\ e.rooms[q].flags = s.rooms[q].flags /\ e.rooms[q].lost = s.rooms[q].lost
        /\ e.rooms[q].invites = s.rooms[q].invites
    BY DEF Exited
  <2>2. /\ m.rooms[q].name = e.rooms[q].name
        /\ m.rooms[q].flags = e.rooms[q].flags /\ m.rooms[q].lost = e.rooms[q].lost
        /\ m.rooms[q].invites = IF q = r THEN e.rooms[q].invites \ {u}
                                ELSE e.rooms[q].invites
    BY DEF Moved
  <2> QED BY <2>1, <2>2
<1> QED BY <1>3, <1>4, <1>5, <1>6 DEF Moved

-----------------------------------------------------------------------------
(* Each step of the server is a step of ChatRooms, or none. *)

\* A going is Moves of the abstract specification.
LEMMA MovesRefine ==
  ASSUME NEW u \in Slots, NEW n, NEW gone, NEW z, z = State',
         MovesTo(State, u, n, gone, z), Operators(z) = Operators(State) \ {u}
  PROVE  Chat!Moves(u, n, gone)
<1>1. Chat!Deserted(u, n) = Empties(State, u, n)
  BY DEF Chat!Deserted, Chat!Open, Empties, OpenNames
<1>2. /\ Places(State)' = [Places(State) EXCEPT ![u] = n]
      /\ Operators(State)' = Operators(State) \ {u}
      /\ Invitations(State)' =
           {p \in Invitations(State) : p[2] \notin Empties(State, u, n) /\ p \notin gone}
      /\ InMode(State, "locked")' = InMode(State, "locked") \ Empties(State, u, n)
      /\ InMode(State, "sysoped")' = InMode(State, "sysoped") \ Empties(State, u, n)
      /\ Haunted(State)' = Haunted(State)
  BY DEF MovesTo
<1> QED BY <1>1, <1>2 DEF Chat!Moves

\* Being in the same room and having places of the same name agree.
LEMMA SamePlaces ==
  ASSUME NEW s, Houses(s), NEW u \in Slots
  PROVE  /\ Places(s)[u] # None <=> s.users[u].room # Nowhere
         /\ s.users[u].room # Nowhere =>
              /\ Places(s)[u] = NameOf(s, s.users[u].room)
              /\ Places(s)[u] = Mainroom <=> s.users[u].room = 0
              /\ \A v \in Slots : Places(s)[v] = Places(s)[u] <=>
                                  s.users[v].room = s.users[u].room
<1>1. Places(s)[u] # None <=> s.users[u].room # Nowhere
  BY DEF Houses
<1>2. ASSUME s.users[u].room # Nowhere
      PROVE  /\ Places(s)[u] = NameOf(s, s.users[u].room)
             /\ Places(s)[u] = Mainroom <=> s.users[u].room = 0
             /\ \A v \in Slots : Places(s)[v] = Places(s)[u] <=>
                                 s.users[v].room = s.users[u].room
  <2>1. Places(s)[u] = NameOf(s, s.users[u].room) /\ s.users[u].room \in OpenRooms(s)
        /\ NameOf(s, s.users[u].room) # None
    BY <1>2 DEF Houses
  <2>2. Places(s)[u] = Mainroom <=> s.users[u].room = 0
    BY <2>1 DEF Houses
  <2>3. ASSUME NEW v \in Slots
        PROVE  Places(s)[v] = Places(s)[u] <=> s.users[v].room = s.users[u].room
    <3>1. CASE s.users[v].room = Nowhere
      BY <1>2, <2>1, <3>1 DEF Houses
    <3>2. CASE s.users[v].room # Nowhere
      <4>1. Places(s)[v] = NameOf(s, s.users[v].room) /\ s.users[v].room \in OpenRooms(s)
        BY <3>2 DEF Houses
      <4> QED BY <2>1, <4>1 DEF Houses
    <3> QED BY <3>1, <3>2
  <2> QED BY <2>1, <2>2, <2>3
<1> QED BY <1>1, <1>2

\* No account and no ghost differs when u keeps connection and account.
LEMMA AccountsKept ==
  ASSUME NEW s, NEW u \in Slots, NEW m,
         \A v \in Slots \ {u} : m.users[v] = s.users[v],
         m.users[u].who = s.users[u].who /\ m.users[u].conn = s.users[u].conn
  PROVE  Accounts(m) = Accounts(s) /\ Ghosts(m) = Ghosts(s)
<1>1. \A v \in Slots : m.users[v].who = s.users[v].who /\ m.users[v].conn = s.users[v].conn
  OBVIOUS
<1> QED BY <1>1 DEF Accounts, Ghosts

\* MayEnter(u, n) is what room n's flags and invitations say.
LEMMA InvitedIn ==
  ASSUME NEW s, Houses(s), NEW r \in OpenRooms(s), NEW u \in Slots
  PROVE  <<u, NameOf(s, r)>> \in Invitations(s) <=> u \in s.rooms[r].invites
<1>1. ASSUME <<u, NameOf(s, r)>> \in Invitations(s)
      PROVE  u \in s.rooms[r].invites
  <2>1. PICK v \in Slots, q \in OpenRooms(s) :
           v \in s.rooms[q].invites /\ <<u, NameOf(s, r)>> = <<v, NameOf(s, q)>>
    BY <1>1, InvitationsOf
  <2>2. v = u /\ NameOf(s, q) = NameOf(s, r)
    BY <2>1
  <2>3. q = r
    BY <2>2 DEF Houses
  <2> QED BY <2>1, <2>2, <2>3
<1>2. ASSUME u \in s.rooms[r].invites
      PROVE  <<u, NameOf(s, r)>> \in Invitations(s)
  BY <1>2, InvitationsOf
<1> QED BY <1>1, <1>2

\* A mode of an open room is a mode of its name.
LEMMA ModeIn ==
  ASSUME NEW s, Houses(s), NEW r \in OpenRooms(s), NEW flag
  PROVE  NameOf(s, r) \in InMode(s, flag) <=> flag \in s.rooms[r].flags
<1>1. ASSUME NameOf(s, r) \in InMode(s, flag)
      PROVE  flag \in s.rooms[r].flags
  <2>1. PICK q \in OpenRooms(s) : flag \in s.rooms[q].flags /\ NameOf(s, r) = NameOf(s, q)
    BY <1>1, InModeOf
  <2>2. q = r
    BY <2>1 DEF Houses
  <2> QED BY <2>1, <2>2
<1>2. ASSUME flag \in s.rooms[r].flags
      PROVE  NameOf(s, r) \in InMode(s, flag)
  BY <1>2, InModeOf
<1> QED BY <1>1, <1>2

\* May user u, of account c, enter room n?
Admits(s, u, c, n) ==
    /\ n \in InMode(s, "locked") =>
           <<u, n>> \in Invitations(s) \/ c \in Sysops \/ c \in Chatops
    /\ n \in InMode(s, "sysoped") => <<u, n>> \in Invitations(s) \/ c \in Sysops

\* join_room() refuses at an open room exactly who is not admitted.
LEMMA RefusedAdmits ==
  ASSUME NEW s, Houses(s), NEW r \in OpenRooms(s), NEW u \in Slots
  PROVE  Refused(s, u, r) <=> ~Admits(s, u, s.users[u].who, NameOf(s, r))
<1>1. <<u, NameOf(s, r)>> \in Invitations(s) <=> u \in s.rooms[r].invites
  BY InvitedIn
<1>2. \A flag : NameOf(s, r) \in InMode(s, flag) <=> flag \in s.rooms[r].flags
  BY ModeIn
<1> QED BY <1>1, <1>2 DEF Refused, Admits

\* Users of ChatRooms see no difference between s and z.
Unseen(s, z) ==
    /\ Accounts(z) = Accounts(s) /\ Places(z) = Places(s) /\ Operators(z) = Operators(s)
    /\ Invitations(z) = Invitations(s)
    /\ InMode(z, "locked") = InMode(s, "locked")
    /\ InMode(z, "sysoped") = InMode(s, "sysoped")
    /\ Ghosts(z) = Ghosts(s) /\ Haunted(z) = Haunted(s)

\* A change no user can see is a stutter of the abstract specification.
LEMMA UnseenRefines ==
  ASSUME NEW z, z = State', Unseen(State, z)
  PROVE  UNCHANGED Chat!roomVars
<1>1. /\ Accounts(State)' = Accounts(State) /\ Places(State)' = Places(State)
      /\ Operators(State)' = Operators(State) /\ Invitations(State)' = Invitations(State)
      /\ InMode(State, "locked")' = InMode(State, "locked")
      /\ InMode(State, "sysoped")' = InMode(State, "sysoped")
      /\ Ghosts(State)' = Ghosts(State) /\ Haunted(State)' = Haunted(State)
  BY DEF Unseen
<1> QED BY <1>1 DEF Chat!roomVars

\* What is mapped of the rooms depends on the room table alone.
LEMMA SameRooms ==
  ASSUME NEW s, NEW z, z.rooms = s.rooms
  PROVE  /\ Invitations(z) = Invitations(s) /\ OpenRooms(z) = OpenRooms(s)
         /\ Haunted(z) = Haunted(s)
         /\ \A flag : InMode(z, flag) = InMode(s, flag)
BY DEF Invitations, InMode, OpenRooms, Haunted

\* What is mapped of the users depends on connections, accounts and rooms.
LEMMA SameSeats ==
  ASSUME NEW s, NEW z, z.rooms = s.rooms,
         \A u \in Slots : z.users[u].who = s.users[u].who
                          /\ z.users[u].conn = s.users[u].conn
                          /\ z.users[u].room = s.users[u].room
  PROVE  Accounts(z) = Accounts(s) /\ Places(z) = Places(s) /\ Ghosts(z) = Ghosts(s)
BY DEF Accounts, Places, Ghosts

\* Taking a connection is a stutter, or gives it the seat of a ghost.
LEMMA AcceptRefines ==
  ASSUME Good(State), NEW u \in Slots, Accept(u)
  PROVE  Chat!Seat(u) \/ UNCHANGED Chat!roomVars
<1>1. PICK s : s = State
  OBVIOUS
<1>2. PICK z : z = State'
  OBVIOUS
<1>3. Good(s) /\ Houses(s) /\ TakenOver(s, u, z) /\ ~s.users[u].conn
  BY <1>1, <1>2, AcceptState, GoodHouses DEF TakenOver
<1>4. /\ \A v \in Slots \ {u} : z.users[v] = s.users[v]
      /\ z.users[u].conn /\ z.users[u].room = Nowhere
      /\ z.users[u].who = s.users[u].who /\ z.users[u].op = s.users[u].op
  BY <1>3 DEF TakenOver
<1>5. \A q \in Rooms : NameOf(z, q) = NameOf(s, q)
  BY <1>3 DEF TakenOver, NameOf
<1>6. \A q \in Rooms : /\ z.rooms[q].flags = s.rooms[q].flags
                      /\ z.rooms[q].invites = s.rooms[q].invites
  BY <1>3 DEF TakenOver
<1>7. OpenRooms(z) = OpenRooms(s) /\ OpenRooms(s) \subseteq Rooms
  BY <1>3 DEF TakenOver, OpenRooms
<1>8. Invitations(z) = Invitations(s)
  <2>1. \A x : x \in Invitations(z) <=> x \in Invitations(s)
    BY <1>5, <1>6, <1>7, InvitationsOf
  <2> QED BY <2>1
<1>9. ASSUME NEW flag PROVE InMode(z, flag) = InMode(s, flag)
  <2>1. \A x : x \in InMode(z, flag) <=> x \in InMode(s, flag)
    BY <1>5, <1>6, <1>7, InModeOf
  <2>2. \A x \in InMode(z, flag) : x \in InMode(s, flag)
    BY <2>1
  <2> QED BY <2>1, <2>2
<1>10. Accounts(z) = Accounts(s)
  <2>1. \A v \in Slots : z.users[v].who = s.users[v].who
    BY <1>4
  <2> QED BY <2>1 DEF Accounts
<1>11. Ghosts(z) = Ghosts(s) \ {u} /\ Operators(z) = Operators(s) \ {u}
  BY <1>4, GhostsMove, OperatorsMove
<1>12. Places(z) = [Places(s) EXCEPT ![u] = None]
  <2>1. PICK f, g : f = Places(z) /\ g = Places(s)
    OBVIOUS
  <2>2. ASSUME NEW v \in Slots \ {u} PROVE f[v] = g[v]
    <3>1. z.users[v].room = s.users[v].room
      BY <1>4
    <3>2. s.users[v].room # Nowhere => s.users[v].room \in Rooms
      BY <1>3 DEF Houses
    <3> QED BY <1>5, <2>1, <3>1, <3>2 DEF Places, NameOf
  <2>3. f[u] = None
    BY <1>4, <2>1 DEF Places
  <2>4. f = [v \in Slots |-> f[v]] /\ g = [v \in Slots |-> g[v]]
    BY <2>1 DEF Places
  <2> QED BY <2>1, <2>2, <2>3, <2>4
<1>13. CASE s.users[u].who = None
  <2>1. s.users[u].room = Nowhere
    BY <1>3, <1>13 DEF Good, Seated
  <2>2. Nowhere \notin Rooms
    BY Constants
  <2>3. \A q \in Rooms : z.rooms[q].lost = s.rooms[q].lost
    BY <1>3, <2>1, <2>2 DEF TakenOver
  <2>4. Haunted(z) = Haunted(s)
    BY <1>5, <2>3 DEF Haunted, NameOf
  <2>5. u \notin Ghosts(s) /\ u \notin Operators(s)
    BY <1>13, <2>1 DEF Ghosts, Operators
  <2>6. Places(s)[u] = None
    BY <1>3, <2>1 DEF Houses
  <2>7. Places(z) = Places(s)
    <3>1. PICK g : g = Places(s)
      OBVIOUS
    <3>2. g = [v \in Slots |-> g[v]] /\ g[u] = None
      BY <2>6, <3>1 DEF Places
    <3>3. [g EXCEPT ![u] = None] = g
      BY <3>2
    <3> QED BY <1>12, <3>1, <3>3
  <2>8. Ghosts(z) = Ghosts(s) /\ Operators(z) = Operators(s)
    BY <1>11, <2>5
  <2>9. Unseen(s, z)
    BY <1>8, <1>9, <1>10, <2>4, <2>7, <2>8 DEF Unseen
  <2> QED BY <1>1, <1>2, <2>9, UnseenRefines
<1>14. CASE s.users[u].who # None
  <2>1. u \in Ghosts(s)
    BY <1>3, <1>14 DEF Ghosts
  <2>2. Haunted(z) = Haunted(s) \cup ({Places(s)[u]} \ {None})
    <3>1. PICK r : r = s.users[u].room
      OBVIOUS
    <3>2. \A q \in Rooms : z.rooms[q].lost = IF q = r THEN s.rooms[q].lost + 1
                                           ELSE s.rooms[q].lost
      BY <1>3, <3>1 DEF TakenOver
    <3>3. \A q \in Rooms : s.rooms[q].lost \in Int /\ 0 <= s.rooms[q].lost
      BY <1>3 DEF Good, Typed, Room
    <3>4. \A q \in Rooms : z.rooms[q].lost > 0 <=> q = r \/ s.rooms[q].lost > 0
      BY <3>2, <3>3
    <3>5. /\ \A x : x \in Haunted(z) <=> \E q \in Rooms : z.rooms[q].lost > 0 /\ x = NameOf(z, q)
          /\ \A x : x \in Haunted(s) <=> \E q \in Rooms : s.rooms[q].lost > 0 /\ x = NameOf(s, q)
      BY DEF Haunted, NameOf
    <3>6. CASE r = Nowhere
      <4>1. Places(s)[u] = None
        BY <1>3, <3>1, <3>6 DEF Houses
      <4>2. \A x : x \in Haunted(z) <=> x \in Haunted(s)
        BY <1>5, <3>4, <3>5, <3>6, Constants
      <4> QED BY <4>1, <4>2
    <3>7. CASE r # Nowhere
      <4>1. r \in Rooms /\ Places(s)[u] = NameOf(s, r) /\ NameOf(s, r) # None
        BY <1>3, <3>1, <3>7 DEF Houses
      <4>2. \A x : x \in Haunted(z) <=> x \in Haunted(s) \/ x = NameOf(s, r)
        BY <1>5, <3>4, <3>5, <4>1
      <4> QED BY <4>1, <4>2
    <3> QED BY <3>6, <3>7
  <2>3. /\ Accounts(State)' = Accounts(State)
        /\ Places(State)' = [Places(State) EXCEPT ![u] = None]
        /\ Operators(State)' = Operators(State) \ {u}
        /\ Invitations(State)' = Invitations(State)
        /\ InMode(State, "locked")' = InMode(State, "locked")
        /\ InMode(State, "sysoped")' = InMode(State, "sysoped")
        /\ Ghosts(State)' = Ghosts(State) \ {u} /\ u \in Ghosts(State)
        /\ Haunted(State)' = Haunted(State) \cup ({Places(State)[u]} \ {None})
    BY <1>1, <1>2, <1>8, <1>9, <1>10, <1>11, <1>12, <2>1, <2>2
  <2> QED BY <2>3 DEF Chat!Seat
<1> QED BY <1>13, <1>14

\* Changing the chat id is a stutter.
LEMMA NickUnseen ==
  ASSUME Good(State), NEW u \in Slots, NEW id \in Ids, Nick(u, id)
  PROVE  UNCHANGED Chat!roomVars
<1>1. PICK s : s = State
  OBVIOUS
<1>2. PICK z : z = State'
  OBVIOUS
<1>3. /\ s.users \in [Slots -> Seat] /\ z.rooms = s.rooms
      /\ z.users = [s.users EXCEPT ![u].chatid = id]
  BY <1>1, <1>2 DEF State, Nick, Good, Typed
<1>4. \A v \in Slots : /\ z.users[v].who = s.users[v].who
                       /\ z.users[v].conn = s.users[v].conn
                       /\ z.users[v].room = s.users[v].room
                       /\ z.users[v].op = s.users[v].op
  BY <1>3 DEF Seat
<1>5. Operators(z) = Operators(s)
  BY <1>4 DEF Operators
<1>6. Unseen(s, z)
  <2>1. Accounts(z) = Accounts(s) /\ Places(z) = Places(s) /\ Ghosts(z) = Ghosts(s)
    BY <1>3, <1>4, SameSeats
  <2>2. /\ Invitations(z) = Invitations(s) /\ \A flag : InMode(z, flag) = InMode(s, flag)
        /\ Haunted(z) = Haunted(s)
    BY <1>3, SameRooms
  <2> QED BY <1>5, <2>1, <2>2 DEF Unseen
<1> QED BY <1>1, <1>2, <1>6, UnseenRefines

\* A connection that is in no room ends.
LEMMA RefusedGoes ==
  ASSUME NEW s, NEW u \in Slots, NEW o, Good(s), s.users[u].room = Nowhere,
         LoggedOut(s, u, o)
  PROVE  Goes(s, u, None, {u} \X Names, o)
<1>1. Houses(s) /\ Houses(o)
  BY LogoutGood, GoodHouses
<1>2. o.users[u].room = Nowhere /\ Nowhere \notin Rooms
  BY Constants DEF LoggedOut, Closed
<1>3. Places(o)[u] = None
  BY <1>1, <1>2 DEF Houses
<1>4. \A q \in Rooms : NameOf(o, q) = NameOf(s, q) /\ o.rooms[q].lost = s.rooms[q].lost
  BY DEF LoggedOut, NameOf
<1>5. OpenRooms(o) = OpenRooms(s)
  BY DEF LoggedOut, OpenRooms
<1>6. \A q \in OpenRooms(o) :
        o.rooms[q].flags = s.rooms[q].flags /\ o.rooms[q].invites = s.rooms[q].invites \ {u}
  BY DEF LoggedOut, OpenRooms
<1>7. \A v, q : q \in OpenRooms(s) => (<<v, NameOf(s, q)>> \in {u} \X Names <=> v = u)
  BY <1>1 DEF Houses
<1>8. \A v \in Slots \ {u} : o.users[v].room = s.users[v].room
  BY DEF LoggedOut
<1>9. \A q \in OpenRooms(o) : q \in OpenRooms(s) =>
         /\ o.rooms[q].flags = s.rooms[q].flags
         /\ \A v : v \in o.rooms[q].invites <=>
                   v \in s.rooms[q].invites /\ <<v, NameOf(s, q)>> \notin {u} \X Names
  BY <1>6, <1>7
<1> HIDE <1>6, <1>7
<1> QED BY <1>1, <1>2, <1>3, <1>4, <1>5, <1>8, <1>9 DEF Goes

\* A user who goes nowhere and whose entry is cleared has disconnected.
LEMMA DisconnectRefines ==
  ASSUME NEW u \in Slots, NEW z, z = State',
         Goes(State, u, None, {u} \X Names, z),
         \A v \in Slots \ {u} : z.users[v] = State.users[v],
         z.users[u] = Closed
  PROVE  Chat!Disconnect(u)
<1>1. MovesTo(State, u, None, {u} \X Names, z)
  BY GoesMoves
<1>2. z.users[u].op = FALSE /\ z.users[u].who = None
  BY DEF Closed
<1>3. Operators(z) = Operators(State) \ {u}
  BY <1>2, OperatorsMove
<1>4. Chat!Moves(u, None, {u} \X Names)
  BY <1>1, <1>3, MovesRefine
<1>5. Accounts(z) = [Accounts(State) EXCEPT ![u] = None]
  <2>1. PICK f, g : f = Accounts(z) /\ g = Accounts(State)
    OBVIOUS
  <2>2. f = [v \in Slots |-> f[v]] /\ g = [v \in Slots |-> g[v]]
    BY <2>1 DEF Accounts
  <2>3. f[u] = None /\ \A v \in Slots \ {u} : f[v] = g[v]
    BY <1>2, <2>1 DEF Accounts
  <2> QED BY <2>1, <2>2, <2>3
<1>6. Accounts(State)' = [Accounts(State) EXCEPT ![u] = None]
  BY <1>5
<1>7. Ghosts(z) = Ghosts(State) \ {u}
  BY <1>2, GhostsMove
<1>8. Ghosts(State)' = Ghosts(State) \ {u}
  BY <1>7
<1> QED BY <1>4, <1>6, <1>8 DEF Chat!Disconnect

\* A line that closes the connection disconnects its user.
LEMMA LineRefusedRefines ==
  ASSUME Good(State), NEW u \in Slots, LineRefused(u)
  PROVE  Chat!Disconnect(u)
<1>1. State.users[u].room = Nowhere /\ Becomes(LogoutUser(State, u))
  BY DEF LineRefused, RoomOf, State
<1>2. PICK z : z = State'
  OBVIOUS
<1>3. PICK o : o = LogoutUser(State, u)
  OBVIOUS
<1>4. LoggedOut(State, u, o)
  BY <1>3, LogoutEffect DEF Good
<1>5. z = o
  BY <1>1, <1>2, <1>3 DEF Becomes, State, LogoutUser
<1>6. Goes(State, u, None, {u} \X Names, z)
  BY <1>1, <1>4, <1>5, RefusedGoes
<1>7. (\A v \in Slots \ {u} : z.users[v] = State.users[v]) /\ z.users[u] = Closed
  BY <1>4, <1>5 DEF LoggedOut
<1> QED BY <1>2, <1>6, <1>7, DisconnectRefines

\* Whoever is put out of the room and logged out has disconnected.
LEMMA ThrownOutRefines ==
  ASSUME Good(State), NEW u \in Slots,
         Becomes(LogoutUser(ExitRoom(State, u), u))
  PROVE  Chat!Disconnect(u)
<1>1. PICK z : z = State'
  OBVIOUS
<1>2. PICK e : e = ExitRoom(State, u)
  OBVIOUS
<1>3. PICK o : o = LogoutUser(e, u)
  OBVIOUS
<1>4. Exited(State, u, e) /\ Good(e)
  BY <1>2, ExitState DEF State
<1>5. LoggedOut(e, u, o)
  BY <1>3, <1>4, LogoutEffect DEF Good
<1>6. z = o
  BY <1>1, <1>2, <1>3 DEF Becomes, State, LogoutUser
<1>7. Goes(State, u, None, {u} \X Names, z)
  BY <1>4, <1>5, <1>6, LogoutGoes
<1>8. (\A v \in Slots \ {u} : z.users[v] = State.users[v]) /\ z.users[u] = Closed
  BY <1>4, <1>5, <1>6 DEF LoggedOut, Exited
<1> QED BY <1>1, <1>7, <1>8, DisconnectRefines

\* chat_goodbye() leaves the room the user is in.
LEMMA ByeRefines ==
  ASSUME Good(State), NEW u \in Slots, Bye(u)
  PROVE  Chat!Leave(u)
<1>1. users[u].room # Nowhere /\ Becomes(ExitRoom(State, u))
  BY DEF Bye, InRoom, RoomOf
<1>2. PICK z : z = State'
  OBVIOUS
<1>3. PICK e : e = ExitRoom(State, u)
  OBVIOUS
<1>4. Exited(State, u, e)
  BY <1>3, ExitState
<1>5. z = e
  BY <1>1, <1>2, <1>3 DEF Becomes, State, ExitRoom
<1>6. MovesTo(State, u, None, {}, z)
  BY <1>4, <1>5, LeaveGoes, GoesMoves
<1>7. /\ \A v \in Slots \ {u} : z.users[v] = State.users[v]
      /\ z.users[u].op = FALSE /\ z.users[u].who = State.users[u].who
      /\ z.users[u].conn = State.users[u].conn
  BY <1>4, <1>5 DEF Exited
<1>8. Operators(z) = Operators(State) \ {u}
  BY <1>7, OperatorsMove
<1>9. Chat!Moves(u, None, {})
  BY <1>2, <1>6, <1>8, MovesRefine
<1>10. Accounts(z) = Accounts(State) /\ Ghosts(z) = Ghosts(State)
  BY <1>7, AccountsKept
<1>11. Accounts(State)' = Accounts(State) /\ Ghosts(State)' = Ghosts(State)
  BY <1>2, <1>10
<1>12. Places(State)[u] # None
  BY <1>1, GoodHouses, SamePlaces DEF State
<1> QED BY <1>9, <1>11, <1>12 DEF Chat!Leave, Chat!Present

\* Into room r of name n, from where u is in the state s of ChatRooms.
LEMMA IntoRoom ==
  ASSUME NEW s, Good(s), NEW u \in Slots, NEW n, NEW r \in Named(s, n), NEW x,
         s.users[u].who # None, Moved(s, u, r, FALSE, x)
  PROVE  /\ MovesTo(s, u, n, {<<u, n>>}, x)
         /\ Operators(x) = Operators(s) \ {u} /\ Accounts(x) = Accounts(s)
         /\ Ghosts(x) = Ghosts(s)
<1>1. Goes(s, u, n, {<<u, n>>}, x)
  BY EnterGoes
<1>2. MovesTo(s, u, n, {<<u, n>>}, x)
  BY <1>1, GoesMoves
<1>3. /\ \A v \in Slots \ {u} : x.users[v] = s.users[v]
      /\ x.users[u].op = FALSE /\ x.users[u].who = s.users[u].who
      /\ x.users[u].conn = s.users[u].conn
  BY DEF Moved
<1>4. Operators(x) = Operators(s) \ {u}
  BY <1>3, OperatorsMove
<1>5. Accounts(x) = Accounts(s) /\ Ghosts(x) = Ghosts(s)
  BY <1>3, AccountsKept
<1> QED BY <1>2, <1>4, <1>5

\* While an entry is free there are fewer open names than rooms.
LEMMA FewRooms ==
  ASSUME NEW s, Houses(s), NEW r \in Rooms \ OpenRooms(s)
  PROVE  Cardinality(OpenNames(s)) < MAXROOM
<1>1. OpenRooms(s) \in SUBSET Rooms
  BY DEF OpenRooms
<1>2. IsFiniteSet(OpenRooms(s)) /\ Cardinality(OpenRooms(s)) <= MAXROOM
      /\ (MAXROOM = Cardinality(OpenRooms(s)) => Rooms = OpenRooms(s))
  BY <1>1, Constants, FS_Subset
<1>3. Cardinality(OpenRooms(s)) \in Nat
  BY <1>2, FS_CardinalityType
<1>4. Cardinality(OpenRooms(s)) < MAXROOM
  BY <1>2, <1>3, Constants
<1>5. PICK f : f = [q \in OpenRooms(s) |-> NameOf(s, q)]
  OBVIOUS
<1>6. f \in Surjection(OpenRooms(s), OpenNames(s))
  <2>1. \A q \in OpenRooms(s) : f[q] \in OpenNames(s)
    BY <1>5, NamesOfOpen
  <2>2. \A x \in OpenNames(s) : \E q \in OpenRooms(s) : f[q] = x
    BY <1>5, NamesOfOpen
  <2>3. f \in [OpenRooms(s) -> OpenNames(s)]
    BY <1>5, <2>1
  <2> QED BY <2>2, <2>3 DEF Surjection
<1>7. IsFiniteSet(OpenNames(s)) /\ Cardinality(OpenNames(s)) <= Cardinality(OpenRooms(s))
  BY <1>2, <1>6, FS_Surjection
<1>8. Cardinality(OpenNames(s)) \in Nat
  BY <1>7, FS_CardinalityType
<1> QED BY <1>3, <1>4, <1>7, <1>8, Constants

\* chat_join() enters an open room, opens one, or is refused.
LEMMA JoinRefines ==
  ASSUME Good(State), NEW u \in Slots, NEW n \in Names, Join(u, n)
  PROVE  Chat!Enter(u, n) \/ Chat!OpenRoom(u, n) \/ UNCHANGED Chat!roomVars
<1>1. PICK s : s = State
  OBVIOUS
<1>2. PICK z : z = State'
  OBVIOUS
<1>3. PICK x : x = EnterRoom(State, u, n)
  OBVIOUS
<1>4. Good(s) /\ Typed(s) /\ Houses(s)
  BY <1>1, GoodHouses DEF Good
<1>5. Entered(s, u, n, x)
  BY <1>1, <1>3, <1>4, EnterEffect
<1>6. z.users = x.users /\ z.rooms = x.rooms
  BY <1>2, <1>3 DEF Join, Becomes, State
<1>7. s.users[u].room # Nowhere
  BY <1>1 DEF Join, InRoom, RoomOf, State
<1>8. s.users[u].who # None
  BY <1>4, <1>7 DEF Good, Seated
<1>9. Unseen(x, z)
  BY <1>6 DEF Unseen, Accounts, Places, Operators, Invitations, InMode, OpenRooms, Ghosts,
              Haunted
<1>10. Chat!Present(u)
  <2>1. Places(s)[u] # None
    BY <1>4, <1>7, SamePlaces
  <2> QED BY <1>1, <2>1 DEF Chat!Present
<1>11. OpenNames(State) = Chat!Open
  BY DEF OpenNames, Chat!Open
<1>12. CASE x = s
  BY <1>1, <1>2, <1>9, <1>12, UnseenRefines
<1>13. ASSUME NEW r \in Named(s, n), ~Refused(s, u, r), Moved(s, u, r, FALSE, x)
       PROVE  Chat!Enter(u, n)
  <2>1. /\ MovesTo(s, u, n, {<<u, n>>}, x)
        /\ Operators(x) = Operators(s) \ {u} /\ Accounts(x) = Accounts(s)
        /\ Ghosts(x) = Ghosts(s)
    BY <1>4, <1>7, <1>8, <1>13, IntoRoom
  <2>2. /\ MovesTo(s, u, n, {<<u, n>>}, z)
        /\ Operators(z) = Operators(s) \ {u} /\ Accounts(z) = Accounts(s)
        /\ Ghosts(z) = Ghosts(s)
    BY <1>9, <2>1 DEF MovesTo, Unseen
  <2>3. Chat!Moves(u, n, {<<u, n>>})
    BY <1>1, <1>2, <2>2, MovesRefine
  <2>4. r \in OpenRooms(s) /\ NameOf(s, r) = n
    BY DEF Named, NameOf
  <2>5. Admits(s, u, s.users[u].who, n)
    BY <1>4, <1>13, <2>4, RefusedAdmits
  <2>6. Accounts(s)[u] = s.users[u].who
    BY DEF Accounts
  <2>7. Chat!MayEnter(u, n)
    BY <1>1, <2>5, <2>6 DEF Admits, Chat!MayEnter, Chat!Sysop, Chat!Chatop
  <2>8. n \in OpenNames(s)
    BY <1>4, <2>4, NamesOfOpen
  <2>9. Accounts(State)' = Accounts(State) /\ Ghosts(State)' = Ghosts(State)
    BY <1>1, <1>2, <2>2
  <2> QED BY <1>1, <1>10, <1>11, <2>3, <2>7, <2>8, <2>9 DEF Chat!Enter
<1>14. ASSUME NEW r \in Rooms \ OpenRooms(s), NEW w, Named(s, n) = {},
              Renewed(s, r, n, w), Moved(w, u, r, TRUE, x)
       PROVE  Chat!OpenRoom(u, n)
  <2>1. /\ Accounts(w) = Accounts(s) /\ Places(w) = Places(s)
        /\ Operators(w) = Operators(s) /\ Invitations(w) = Invitations(s)
        /\ Ghosts(w) = Ghosts(s) /\ Haunted(w) = Haunted(s)
        /\ \A flag : InMode(w, flag) = InMode(s, flag)
    BY <1>4, <1>14, NewRoomUnseen
  <2>2. Good(w) /\ OwnName(w, r) /\ OpenRooms(w) = OpenRooms(s)
    BY <1>4, <1>14, NewRoomGood
  <2>3. /\ w.users = s.users /\ NameOf(w, r) = n /\ w.rooms[r].flags = {}
        /\ w.rooms[r].invites = {}
    BY <1>14 DEF Renewed, NameOf
  <2>4. r \in Rooms \ OpenRooms(w) /\ w.users[u].who # None
    BY <1>8, <2>2, <2>3
  <2>5. Goes(w, u, n, {}, x)
    BY <1>14, <2>2, <2>3, <2>4, OpenGoes
  <2>6. MovesTo(w, u, n, {}, x)
    BY <2>5, GoesMoves
  <2>7. Empties(w, u, n) = Empties(s, u, n)
    BY <2>1 DEF Empties, OpenNames
  <2>8. MovesTo(s, u, n, {}, z)
    BY <1>9, <2>1, <2>6, <2>7 DEF MovesTo, Unseen
  <2>9. /\ \A v \in Slots \ {u} : x.users[v] = s.users[v]
        /\ x.users[u].op /\ x.users[u].who = s.users[u].who
        /\ x.users[u].room # Nowhere /\ x.users[u].conn = s.users[u].conn
    BY <1>14, <2>3, Constants DEF Moved
  <2>10. /\ Operators(z) = Operators(s) \cup {u} /\ Accounts(z) = Accounts(s)
         /\ Ghosts(z) = Ghosts(s)
    BY <1>9, <2>9, OperatorsMove, AccountsKept DEF Unseen
  <2>11. n \notin OpenNames(s)
    BY <1>4, <1>14, NamesOfOpen DEF Named, NameOf
  <2>12. Cardinality(OpenNames(s)) < MAXROOM
    BY <1>4, FewRooms
  <2>13. Chat!Deserted(u, n) = Empties(State, u, n)
    BY DEF Chat!Deserted, Chat!Open, Empties, OpenNames
  <2>14. /\ Places(State)' = [Places(State) EXCEPT ![u] = n]
         /\ Operators(State)' = Operators(State) \cup {u}
         /\ Invitations(State)' =
              {p \in Invitations(State) : p[2] \notin Empties(State, u, n)}
         /\ InMode(State, "locked")' = InMode(State, "locked") \ Empties(State, u, n)
         /\ InMode(State, "sysoped")' = InMode(State, "sysoped") \ Empties(State, u, n)
         /\ Accounts(State)' = Accounts(State) /\ Ghosts(State)' = Ghosts(State)
         /\ Haunted(State)' = Haunted(State)
    BY <1>1, <1>2, <2>8, <2>10 DEF MovesTo
  <2>15. n \notin Chat!Open /\ Cardinality(Chat!Open) < MAXROOM
    BY <1>1, <1>11, <2>11, <2>12
  <2>16. Chat!Cardinality(Chat!Open) = Cardinality(Chat!Open)
    BY DEF Cardinality, Chat!Cardinality
  <2> QED BY <1>10, <2>13, <2>14, <2>15, <2>16 DEF Chat!OpenRoom
<1> QED BY <1>5, <1>12, <1>13, <1>14 DEF Entered

\* The main room is found first under its name and is always open.
LEMMA MainFirst ==
  ASSUME NEW s, Good(s)
  PROVE  /\ \A r : r \in Named(s, Mainroom) <=> r = 0
         /\ Houses(s) /\ NameOf(s, 0) = Mainroom /\ Mainroom \in Names
<1>1. Houses(s)
  BY GoodHouses
<1> QED BY <1>1 DEF Houses, Named, NameOf, Names

\* What a user in no room, or one put out of it, does with the main room.
LEMMA IntoMain ==
  ASSUME NEW s, Good(s), NEW u \in Slots, NEW x, Entered(s, u, Mainroom, x)
  PROVE  \/ x = s /\ ~Admits(s, u, s.users[u].who, Mainroom)
         \/ Moved(s, u, 0, FALSE, x) /\ Admits(s, u, s.users[u].who, Mainroom)
<1>1. /\ \A r : r \in Named(s, Mainroom) <=> r = 0
      /\ Houses(s) /\ NameOf(s, 0) = Mainroom
  BY MainFirst
<1>2. Refused(s, u, 0) <=> ~Admits(s, u, s.users[u].who, Mainroom)
  <2>1. 0 \in OpenRooms(s)
    BY <1>1 DEF Houses
  <2> QED BY <1>1, <2>1, RefusedAdmits
<1>3. Named(s, Mainroom) # {}
  BY <1>1
<1>4. \/ x = s /\ \E r \in Named(s, Mainroom) : Refused(s, u, r)
      \/ \E r \in Named(s, Mainroom) : ~Refused(s, u, r) /\ Moved(s, u, r, FALSE, x)
  BY <1>3 DEF Entered
<1>5. \/ x = s /\ Refused(s, u, 0)
      \/ ~Refused(s, u, 0) /\ Moved(s, u, 0, FALSE, x)
  <2>1. ASSUME NEW r \in Named(s, Mainroom), Refused(s, u, r) PROVE Refused(s, u, 0)
    <3>1. r = 0
      BY <1>1
    <3> QED BY <2>1, <3>1
  <2>2. ASSUME NEW r \in Named(s, Mainroom), ~Refused(s, u, r), Moved(s, u, r, FALSE, x)
        PROVE  ~Refused(s, u, 0) /\ Moved(s, u, 0, FALSE, x)
    <3>1. r = 0
      BY <1>1
    <3> QED BY <2>2, <3>1
  <2> QED BY <1>4, <2>1, <2>2
<1> QED BY <1>2, <1>5

\* login_user() logs in and goes to the main room.
LEMMA LoginRefines ==
  ASSUME Good(State), NEW u \in Slots, NEW c \in Clients, NEW id \in Ids, Login(u, c, id)
  PROVE  Chat!Login(u, c)
<1>1. PICK s : s = State
  OBVIOUS
<1>2. PICK z : z = State'
  OBVIOUS
<1>3. PICK t : t = LoggingIn(u, c, id)
  OBVIOUS
<1>4. PICK x : x = EnterRoom(t, u, Mainroom)
  OBVIOUS
<1>5. /\ users[u].room = Nowhere
      /\ \A v \in Slots :
           users[v].conn => /\ users[v].who # None => Utent[users[v].who] # Utent[c]
                            /\ users[v].chatid # id
  BY DEF Login, RoomOf
<1>6. /\ Good(t)
      /\ \A v \in Slots \ {u} : t.users[v] = users[v]
      /\ t.users[u].conn = users[u].conn /\ t.users[u].who = c
      /\ t.users[u].room = Nowhere
      /\ t.rooms = rooms
  BY <1>3, <1>5, LoginState
<1>7. s.users = users /\ s.rooms = rooms /\ Good(s)
  BY <1>1 DEF State
<1>8. z.users = x.users /\ z.rooms = x.rooms
  BY <1>2, <1>3, <1>4 DEF Login, LoggingIn, Becomes, State
<1>9. Unseen(x, z)
  BY <1>8 DEF Unseen, Accounts, Places, Operators, Invitations, InMode, OpenRooms, Ghosts,
              Haunted
<1>10. c # None
  BY DEF ChatAssumption
<1>11. /\ Places(t) = Places(s) /\ Operators(t) = Operators(s)
       /\ Invitations(t) = Invitations(s) /\ \A flag : InMode(t, flag) = InMode(s, flag)
       /\ Haunted(t) = Haunted(s)
  <2>1. \A v \in Slots : t.users[v].room = s.users[v].room
    BY <1>5, <1>6, <1>7
  <2>2. \A v \in Slots : t.users[v].room # Nowhere => t.users[v].op = s.users[v].op
    BY <1>6, <1>7
  <2>3. Places(t) = Places(s)
    BY <1>6, <1>7, <2>1 DEF Places
  <2>4. Operators(t) = Operators(s)
    BY <2>1, <2>2 DEF Operators
  <2> QED BY <1>6, <1>7, <2>3, <2>4, SameRooms
<1>12. Accounts(t) = [Accounts(s) EXCEPT ![u] = c]
  <2>1. \A v \in Slots \ {u} : t.users[v] = s.users[v]
    BY <1>6, <1>7
  <2>2. t.users[u].who = c
    BY <1>6
  <2>3. PICK f, g : f = Accounts(t) /\ g = Accounts(s)
    OBVIOUS
  <2>4. /\ f = [v \in Slots |-> f[v]] /\ g = [v \in Slots |-> g[v]]
        /\ f[u] = c /\ \A v \in Slots \ {u} : f[v] = g[v]
    BY <2>1, <2>2, <2>3 DEF Accounts
  <2> QED BY <2>3, <2>4
<1>13. \A v \in Slots \ Ghosts(s) :
         Accounts(s)[v] # None => Utent[Accounts(s)[v]] # Utent[c]
  <2>1. \A v \in Slots : ~users[v].conn /\ users[v].who # None => v \in Ghosts(s)
    BY <1>7 DEF Ghosts
  <2>2. \A v \in Slots : Accounts(s)[v] = users[v].who
    BY <1>7 DEF Accounts
  <2> QED BY <1>5, <2>1, <2>2
<1>14. Places(s)[u] = None
  BY <1>5, <1>7 DEF Places
<1>15. Mainroom \in Names
  BY DEF Names
<1>16. Entered(t, u, Mainroom, x)
  BY <1>4, <1>6, <1>15, EnterEffect DEF Good
<1>17. Accounts(x) = Accounts(t) /\ Ghosts(x) = Ghosts(t)
  <2>1. CASE x = t
    BY <2>1
  <2>2. CASE Moved(t, u, 0, FALSE, x)
    BY <2>2, AccountsKept DEF Moved
  <2> QED BY <1>6, <1>16, <2>1, <2>2, IntoMain
<1>18. Accounts(State)' = [Accounts(State) EXCEPT ![u] = c]
  BY <1>1, <1>2, <1>9, <1>12, <1>17 DEF Unseen
<1>22. \/ Ghosts(State)' = Ghosts(State)
       \/ Accounts(State)[u] = None /\ Ghosts(State)' = Ghosts(State) \cup {u}
  <2>1. Ghosts(z) = Ghosts(t)
    BY <1>9, <1>17 DEF Unseen
  <2>2. /\ \A v \in Slots \ {u} : t.users[v] = s.users[v]
        /\ t.users[u].conn = s.users[u].conn /\ t.users[u].who # None
    BY <1>6, <1>7, <1>10
  <2>3. CASE s.users[u].conn
    <3>1. Ghosts(t) = Ghosts(s) \ {u} /\ u \notin Ghosts(s)
      BY <2>2, <2>3, GhostsMove DEF Ghosts
    <3>2. Ghosts(z) = Ghosts(s)
      BY <2>1, <3>1
    <3> QED BY <1>1, <1>2, <3>2
  <2>4. CASE ~s.users[u].conn
    <3>1. Ghosts(z) = Ghosts(s) \cup {u}
      BY <2>1, <2>2, <2>4, GhostsMove
    <3>2. Accounts(s)[u] # None => u \in Ghosts(s)
      BY <2>4 DEF Accounts, Ghosts
    <3>3. Accounts(s)[u] # None => Ghosts(z) = Ghosts(s)
      BY <3>1, <3>2
    <3> QED BY <1>1, <1>2, <3>1, <3>3
  <2> QED BY <2>3, <2>4
<1>23. ~Chat!Present(u)
  BY <1>1, <1>14 DEF Chat!Present
<1>24. \A v \in Slots \ Ghosts(State) :
         Accounts(State)[v] # None => Utent[Accounts(State)[v]] # Utent[c]
  BY <1>1, <1>13
<1>19. Admits(t, u, c, Mainroom) <=>
         /\ Mainroom \in InMode(State, "locked") =>
                <<u, Mainroom>> \in Invitations(State) \/ c \in Sysops \cup Chatops
         /\ Mainroom \in InMode(State, "sysoped") =>
                <<u, Mainroom>> \in Invitations(State) \/ c \in Sysops
  BY <1>1, <1>11 DEF Admits
<1>20. CASE x = t /\ ~Admits(t, u, c, Mainroom)
  <2>1. /\ Places(z) = Places(s) /\ Operators(z) = Operators(s)
        /\ Invitations(z) = Invitations(s)
        /\ InMode(z, "locked") = InMode(s, "locked")
        /\ InMode(z, "sysoped") = InMode(s, "sysoped") /\ Haunted(z) = Haunted(s)
    BY <1>9, <1>11, <1>20 DEF Unseen
  <2>2. /\ Places(State)' = Places(State) /\ Operators(State)' = Operators(State)
        /\ Invitations(State)' = Invitations(State)
        /\ InMode(State, "locked")' = InMode(State, "locked")
        /\ InMode(State, "sysoped")' = InMode(State, "sysoped")
        /\ Haunted(State)' = Haunted(State)
    BY <1>1, <1>2, <2>1
  <2>3. ~( /\ Mainroom \in InMode(State, "locked") =>
                <<u, Mainroom>> \in Invitations(State) \/ c \in Sysops \cup Chatops
           /\ Mainroom \in InMode(State, "sysoped") =>
                <<u, Mainroom>> \in Invitations(State) \/ c \in Sysops )
    BY <1>19, <1>20
  <2> QED BY <1>18, <1>22, <1>23, <1>24, <2>2, <2>3, Zenon DEF Chat!Login
<1>21. CASE Moved(t, u, 0, FALSE, x) /\ Admits(t, u, c, Mainroom)
  <2>1. 0 \in Named(t, Mainroom)
    BY <1>6, MainFirst
  <2>2. /\ MovesTo(t, u, Mainroom, {<<u, Mainroom>>}, x)
        /\ Operators(x) = Operators(t) \ {u}
    <3>1. t.users[u].who # None /\ Good(t)
      BY <1>6, <1>10
    <3>2. Moved(t, u, 0, FALSE, x)
      BY <1>21
    <3> QED BY <2>1, <3>1, <3>2, IntoRoom
  <2>3. Empties(t, u, Mainroom) = Empties(s, u, Mainroom)
    BY <1>11 DEF Empties, OpenNames
  <2>4. MovesTo(s, u, Mainroom, {<<u, Mainroom>>}, z) /\ Operators(z) = Operators(s) \ {u}
    BY <1>9, <1>11, <2>2, <2>3 DEF MovesTo, Unseen
  <2>5. Chat!Moves(u, Mainroom, {<<u, Mainroom>>})
    BY <1>1, <1>2, <2>4, MovesRefine
  <2>6. /\ Mainroom \in InMode(State, "locked") =>
                <<u, Mainroom>> \in Invitations(State) \/ c \in Sysops \cup Chatops
        /\ Mainroom \in InMode(State, "sysoped") =>
                <<u, Mainroom>> \in Invitations(State) \/ c \in Sysops
    BY <1>19, <1>21
  <2> QED BY <1>18, <1>22, <1>23, <1>24, <2>5, <2>6, Zenon DEF Chat!Login
<1> QED BY <1>6, <1>16, <1>20, <1>21, IntoMain

\* chat_kick() puts its user out of a room, or out of the server from the
\* main room.
LEMMA KickRefines ==
  ASSUME Good(State), NEW u \in Slots, NEW v \in Slots, Kick(u, v)
  PROVE  Chat!Disconnect(v) \/ Chat!Expel(u, v)
<1>1. PICK s : s = State
  OBVIOUS
<1>2. PICK z : z = State'
  OBVIOUS
<1>3. PICK e : e = ExitRoom(State, v)
  OBVIOUS
<1>4. s.users = users /\ s.rooms = rooms /\ Good(s) /\ Houses(s) /\ Typed(s)
  BY <1>1, GoodHouses DEF State, Good
<1>5. /\ users[u].room # Nowhere
      /\ users[u].op \/ users[u].who \in Sysops \/ users[u].who \in Chatops
      /\ users[u].room = users[v].room \/ users[u].who \in Sysops
      /\ users[v].who \in Sysops => users[u].who \in Sysops
  BY DEF Kick, InRoom, MayKick, Roomop, Sysop, Chatop, RoomOf
<1>6. CASE users[u].room = 0 \/ users[u].room # users[v].room
  <2>1. Becomes(LogoutUser(ExitRoom(State, v), v))
    BY <1>6 DEF Kick, RoomOf
  <2> QED BY <2>1, ThrownOutRefines
<1>7. CASE users[u].room # 0 /\ users[u].room = users[v].room
  <2>1. PICK x : x = EnterRoom(e, v, Mainroom)
    OBVIOUS
  <2>2. Exited(s, v, e) /\ Good(e)
    BY <1>1, <1>3, <1>4, ExitState
  <2>3. z.users = x.users /\ z.rooms = x.rooms
    BY <1>2, <1>3, <1>7, <2>1 DEF Kick, RoomOf, Becomes, State
  <2>4. Unseen(x, z)
    BY <2>3 DEF Unseen, Accounts, Places, Operators, Invitations, InMode, OpenRooms, Ghosts,
                Haunted
  <2>5. Mainroom \in Names
    BY DEF Names
  <2>6. Entered(e, v, Mainroom, x)
    BY <2>1, <2>2, <2>5, EnterEffect DEF Good
  <2>7. e.users[v].who = s.users[v].who /\ s.users[v].who # None
    BY <1>4, <1>5, <1>7, <2>2 DEF Exited, Good, Seated
  <2>8. Admits(e, v, s.users[v].who, Mainroom) <=> Admits(s, v, s.users[v].who, Mainroom)
    <3>1. Houses(e) /\ 0 \in OpenRooms(e) /\ 0 \in OpenRooms(s)
          /\ NameOf(e, 0) = Mainroom /\ NameOf(s, 0) = Mainroom
      BY <1>4, <2>2, GoodHouses DEF Houses
    <3>2. Refused(e, v, 0) <=> Refused(s, v, 0)
      BY <2>2, <2>7, Constants DEF Refused, Exited
    <3>3. Refused(s, v, 0) <=> ~Admits(s, v, s.users[v].who, NameOf(s, 0))
      BY <1>4, <3>1, RefusedAdmits
    <3>4. Refused(e, v, 0) <=> ~Admits(e, v, e.users[v].who, NameOf(e, 0))
      BY <3>1, RefusedAdmits
    <3> QED BY <2>7, <3>1, <3>2, <3>3, <3>4
  <2>9. Chat!MayEnter(v, Mainroom) <=> Admits(s, v, s.users[v].who, Mainroom)
    <3>1. Accounts(s)[v] = s.users[v].who
      BY DEF Accounts
    <3> QED BY <1>1, <3>1 DEF Admits, Chat!MayEnter, Chat!Sysop, Chat!Chatop
  <2>10. Chat!Throws(u, v) /\ Chat!Together(u, v) /\ Places(State)[u] # Mainroom
    <3>1. Places(s)[u] # None /\ Places(s)[u] # Mainroom /\ Places(s)[v] = Places(s)[u]
      BY <1>4, <1>5, <1>7, SamePlaces
    <3>2. Accounts(s)[u] = users[u].who /\ Accounts(s)[v] = users[v].who
      BY <1>4 DEF Accounts
    <3>3. users[u].op => u \in Operators(s)
      BY <1>4, <1>5 DEF Operators
    <3>4. Chat!Together(u, v) /\ Chat!Present(u) /\ Places(State)[u] # Mainroom
      BY <1>1, <3>1 DEF Chat!Together, Chat!Present
    <3> QED BY <1>1, <1>5, <3>2, <3>3, <3>4
        DEF Chat!Throws, Chat!Sysop, Chat!Chatop
  <2>11. CASE x = e /\ ~Admits(s, v, s.users[v].who, Mainroom)
    <3>1. MovesTo(s, v, None, {}, e)
      BY <1>4, <2>2, LeaveGoes, GoesMoves
    <3>2. /\ Operators(e) = Operators(s) \ {v} /\ Accounts(e) = Accounts(s)
          /\ Ghosts(e) = Ghosts(s)
      BY <2>2, OperatorsMove, AccountsKept DEF Exited
    <3>3. /\ MovesTo(s, v, None, {}, z) /\ Operators(z) = Operators(s) \ {v}
          /\ Accounts(z) = Accounts(s) /\ Ghosts(z) = Ghosts(s)
      BY <2>4, <2>11, <3>1, <3>2 DEF MovesTo, Unseen
    <3>4. Chat!Moves(v, None, {})
      BY <1>1, <1>2, <3>3, MovesRefine
    <3>5. Accounts(State)' = Accounts(State) /\ Ghosts(State)' = Ghosts(State)
      BY <1>1, <1>2, <3>3
    <3> QED BY <2>9, <2>10, <2>11, <3>4, <3>5 DEF Chat!Expel
  <2>12. CASE Moved(e, v, 0, FALSE, x) /\ Admits(s, v, s.users[v].who, Mainroom)
    <3>1. Moved(s, v, 0, FALSE, x)
      BY <1>4, <2>2, <2>12, Constants, ExitThenMove
    <3>2. 0 \in Named(s, Mainroom)
      BY <1>4, MainFirst
    <3>3. /\ MovesTo(s, v, Mainroom, {<<v, Mainroom>>}, x)
          /\ Operators(x) = Operators(s) \ {v} /\ Accounts(x) = Accounts(s)
          /\ Ghosts(x) = Ghosts(s)
      BY <1>4, <2>2, <2>7, <3>1, <3>2, IntoRoom
    <3>4. /\ MovesTo(s, v, Mainroom, {<<v, Mainroom>>}, z)
          /\ Operators(z) = Operators(s) \ {v} /\ Accounts(z) = Accounts(s)
          /\ Ghosts(z) = Ghosts(s)
      BY <2>4, <3>3 DEF MovesTo, Unseen
    <3>5. Chat!Moves(v, Mainroom, {<<v, Mainroom>>})
      BY <1>1, <1>2, <3>4, MovesRefine
    <3>6. Accounts(State)' = Accounts(State) /\ Ghosts(State)' = Ghosts(State)
      BY <1>1, <1>2, <3>4
    <3> QED BY <2>9, <2>10, <2>12, <3>5, <3>6 DEF Chat!Expel
  <2> QED BY <2>2, <2>6, <2>7, <2>8, <2>11, <2>12, IntoMain
<1> QED BY <1>6, <1>7

\* chat_name_room(): the room keeps who is in it, its modes and invitations.
LEMMA NameRoomRefines ==
  ASSUME Good(State), NEW u \in Slots, NEW n \in Names, NameRoom(u, n)
  PROVE  Chat!Rename(u, n)
<1>1. PICK s : s = State
  OBVIOUS
<1>2. PICK z : z = State'
  OBVIOUS
<1>3. PICK r : r = users[u].room
  OBVIOUS
<1>4. Good(s) /\ Typed(s) /\ Houses(s) /\ s.users = users /\ s.rooms = rooms
  BY <1>1, GoodHouses DEF Good, State
<1>5. /\ r # Nowhere /\ r # 0 /\ Named(s, n) = {} /\ r = s.users[u].room
      /\ z.rooms = [s.rooms EXCEPT ![r].name = n] /\ z.users = s.users
      /\ users[u].op \/ users[u].who \in Sysops \/ users[u].who \in Chatops
  BY <1>1, <1>2, <1>3 DEF NameRoom, InRoom, RoomOf, State, Roomop, Sysop, Chatop
<1>6. r \in OpenRooms(s) /\ r \in Rooms
  BY <1>4, <1>5 DEF Houses
<1>7. PICK a : a = Places(s)[u]
  OBVIOUS
<1>8. a = NameOf(s, r) /\ a # None /\ a # Mainroom
  BY <1>4, <1>5, <1>7, SamePlaces
<1> DEFINE now(m) == IF m = a THEN n ELSE m
<1>9. /\ \A q \in Rooms : NameOf(z, q) = IF q = r THEN n ELSE NameOf(s, q)
      /\ \A q \in Rooms : /\ z.rooms[q].flags = s.rooms[q].flags
                          /\ z.rooms[q].invites = s.rooms[q].invites
                          /\ z.rooms[q].occupants = s.rooms[q].occupants
                          /\ z.rooms[q].lost = s.rooms[q].lost
  <2>1. ASSUME NEW q \in Rooms
        PROVE  /\ z.rooms[q].name = IF q = r THEN n ELSE s.rooms[q].name
               /\ z.rooms[q].flags = s.rooms[q].flags
               /\ z.rooms[q].invites = s.rooms[q].invites
               /\ z.rooms[q].occupants = s.rooms[q].occupants
               /\ z.rooms[q].lost = s.rooms[q].lost
    <3>1. s.rooms[q] \in Room /\ s.rooms[r] \in Room
      BY <1>4, <1>6 DEF Typed
    <3>2. z.rooms[q] = IF q = r THEN [s.rooms[r] EXCEPT !.name = n] ELSE s.rooms[q]
      BY <1>4, <1>5, <1>6 DEF Typed
    <3> QED BY <3>1, <3>2 DEF Room
  <2> QED BY <2>1 DEF NameOf
<1>10. OpenRooms(z) = OpenRooms(s) /\ OpenRooms(s) \subseteq Rooms
  BY <1>9 DEF OpenRooms
<1>11. \A q \in OpenRooms(s) : NameOf(z, q) = now(NameOf(s, q))
  <2>1. \A q \in OpenRooms(s) : NameOf(s, q) = a <=> q = r
    BY <1>4, <1>6, <1>8 DEF Houses
  <2> QED BY <1>9, <1>10, <2>1
<1> HIDE DEF now
<1>12. Places(z) = [v \in Slots |-> now(Places(s)[v])]
  <2>1. now(None) = None
    BY <1>8 DEF now
  <2>2. ASSUME NEW v \in Slots
        PROVE  (IF z.users[v].room = Nowhere THEN None ELSE NameOf(z, z.users[v].room))
                 = now(Places(s)[v])
    <3>1. CASE s.users[v].room = Nowhere
      BY <1>4, <1>5, <2>1, <3>1 DEF Houses
    <3>2. CASE s.users[v].room # Nowhere
      <4>1. s.users[v].room \in OpenRooms(s) /\ Places(s)[v] = NameOf(s, s.users[v].room)
        BY <1>4, <3>2 DEF Houses
      <4> QED BY <1>5, <1>11, <3>2, <4>1
    <3> QED BY <3>1, <3>2
  <2> QED BY <2>2 DEF Places, NameOf
<1>13. Accounts(z) = Accounts(s) /\ Operators(z) = Operators(s) /\ Ghosts(z) = Ghosts(s)
  BY <1>5 DEF Accounts, Operators, Ghosts
<1>20. Haunted(z) = {now(m) : m \in Haunted(s)}
  <2>1. \A q \in Rooms : s.rooms[q].lost > 0 => NameOf(z, q) = now(NameOf(s, q))
    BY <1>4, <1>11 DEF Houses
  <2>2. \A q \in Rooms : z.rooms[q].lost > 0 <=> s.rooms[q].lost > 0
    BY <1>9
  <2>3. /\ \A x : x \in Haunted(z) <=> \E q \in Rooms : z.rooms[q].lost > 0 /\ x = NameOf(z, q)
        /\ \A x : x \in Haunted(s) <=> \E q \in Rooms : s.rooms[q].lost > 0 /\ x = NameOf(s, q)
    BY DEF Haunted, NameOf
  <2>4. \A x \in Haunted(z) : \E m \in Haunted(s) : x = now(m)
    BY <2>1, <2>2, <2>3
  <2>5. \A m \in Haunted(s) : now(m) \in Haunted(z)
    BY <2>1, <2>2, <2>3
  <2> QED BY <2>4, <2>5
<1>14. ASSUME NEW flag
       PROVE  InMode(z, flag) = {now(m) : m \in InMode(s, flag)}
  <2>1. ASSUME NEW x \in InMode(z, flag)
        PROVE  \E m \in InMode(s, flag) : x = now(m)
    <3>1. PICK q \in OpenRooms(s) : flag \in s.rooms[q].flags /\ x = NameOf(z, q)
      BY <1>9, <1>10, InModeOf
    <3>2. NameOf(s, q) \in InMode(s, flag)
      BY <3>1, InModeOf
    <3> QED BY <1>11, <3>1, <3>2
  <2>2. ASSUME NEW m \in InMode(s, flag)
        PROVE  now(m) \in InMode(z, flag)
    <3>1. PICK q \in OpenRooms(s) : flag \in s.rooms[q].flags /\ m = NameOf(s, q)
      BY InModeOf
    <3>2. flag \in z.rooms[q].flags /\ now(m) = NameOf(z, q) /\ q \in OpenRooms(z)
      BY <1>9, <1>10, <1>11, <3>1
    <3> QED BY <3>2, InModeOf
  <2> QED BY <2>1, <2>2
<1>15. Invitations(z) = {<<p[1], now(p[2])>> : p \in Invitations(s)}
  <2>1. ASSUME NEW x \in Invitations(z)
        PROVE  \E p \in Invitations(s) : x = <<p[1], now(p[2])>>
    <3>1. PICK v \in Slots, q \in OpenRooms(s) :
             v \in s.rooms[q].invites /\ x = <<v, NameOf(z, q)>>
      BY <1>9, <1>10, InvitationsOf
    <3>2. PICK p : p = <<v, NameOf(s, q)>>
      OBVIOUS
    <3>3. p \in Invitations(s)
      BY <3>1, <3>2, InvitationsOf
    <3>4. p[1] = v /\ now(p[2]) = NameOf(z, q)
      BY <1>11, <3>2
    <3> QED BY <3>1, <3>3, <3>4
  <2>2. ASSUME NEW p \in Invitations(s)
        PROVE  <<p[1], now(p[2])>> \in Invitations(z)
    <3>1. PICK v \in Slots, q \in OpenRooms(s) :
             v \in s.rooms[q].invites /\ p = <<v, NameOf(s, q)>>
      BY InvitationsOf
    <3>2. p[1] = v /\ now(p[2]) = NameOf(z, q) /\ q \in OpenRooms(z)
          /\ v \in z.rooms[q].invites
      BY <1>9, <1>10, <1>11, <3>1
    <3> QED BY <3>2, InvitationsOf
  <2> QED BY <2>1, <2>2
<1>16. n \notin Chat!Open
  <2>1. n \notin OpenNames(s)
    BY <1>4, <1>5, NamesOfOpen DEF Named, NameOf
  <2> QED BY <1>1, <2>1 DEF OpenNames, Chat!Open
<1>17. Chat!Present(u) /\ Places(State)[u] # Mainroom
       /\ (u \in Operators(State) \/ Chat!Sysop(u) \/ Chat!Chatop(u))
  <2>1. Accounts(s)[u] = users[u].who
    BY <1>4 DEF Accounts
  <2>2. users[u].op => u \in Operators(s)
    BY <1>4, <1>5 DEF Operators
  <2> QED BY <1>1, <1>5, <1>7, <1>8, <2>1, <2>2
      DEF Chat!Present, Chat!Sysop, Chat!Chatop
<1>18. a = Places(State)[u]
  BY <1>1, <1>7
<1>19. /\ Places(State)' = [v \in Slots |-> now(Places(State)[v])]
       /\ Invitations(State)' = {<<p[1], now(p[2])>> : p \in Invitations(State)}
       /\ InMode(State, "locked")' = {now(m) : m \in InMode(State, "locked")}
       /\ InMode(State, "sysoped")' = {now(m) : m \in InMode(State, "sysoped")}
       /\ Haunted(State)' = {now(m) : m \in Haunted(State)}
       /\ Accounts(State)' = Accounts(State) /\ Operators(State)' = Operators(State)
       /\ Ghosts(State)' = Ghosts(State)
  BY <1>1, <1>2, <1>12, <1>13, <1>14, <1>15, <1>20
<1> QED BY <1>16, <1>17, <1>18, <1>19 DEF Chat!Rename, now

\* chat_makeop() hands the operator's right to a user of the same room.
LEMMA MakeOpRefines ==
  ASSUME Good(State), NEW u \in Slots, NEW v \in Slots, MakeOp(u, v)
  PROVE  Chat!HandOver(u, v)
<1>1. PICK s : s = State
  OBVIOUS
<1>2. PICK z : z = State'
  OBVIOUS
<1>3. Good(s) /\ Houses(s) /\ s.users = users
  BY <1>1, GoodHouses DEF State
<1>4. PICK t : OpSet(s, u, FALSE, t) /\ OpSet(t, v, TRUE, z)
  BY <1>1, <1>2, MakeOpState
<1>5. /\ users[u].room # Nowhere /\ users[u].op /\ u # v
      /\ users[u].room = users[v].room
  BY DEF MakeOp, InRoom, Roomop, RoomOf
<1>6. z.rooms = s.rooms /\ \A w \in Slots : z.users[w].who = s.users[w].who
                                           /\ z.users[w].conn = s.users[w].conn
                                           /\ z.users[w].room = s.users[w].room
  BY <1>4 DEF OpSet
<1>7. /\ \A w \in Slots \ {u, v} : z.users[w].op = s.users[w].op
      /\ z.users[u].op = FALSE /\ z.users[v].op = TRUE
  BY <1>4, <1>5 DEF OpSet
<1>8. Operators(z) = (Operators(s) \ {u}) \cup {v} /\ u \in Operators(s)
  BY <1>3, <1>5, <1>6, <1>7 DEF Operators
<1>9. Accounts(z) = Accounts(s) /\ Places(z) = Places(s) /\ Ghosts(z) = Ghosts(s)
  BY <1>6, SameSeats
<1>10. /\ Invitations(z) = Invitations(s) /\ \A flag : InMode(z, flag) = InMode(s, flag)
       /\ Haunted(z) = Haunted(s)
  BY <1>6, SameRooms
<1>11. Chat!Together(u, v)
  <2>1. Places(s)[u] # None /\ Places(s)[v] = Places(s)[u]
    BY <1>3, <1>5, SamePlaces
  <2> QED BY <1>1, <2>1 DEF Chat!Together, Chat!Present
<1>12. /\ Accounts(State)' = Accounts(State) /\ Places(State)' = Places(State)
       /\ Invitations(State)' = Invitations(State)
       /\ InMode(State, "locked")' = InMode(State, "locked")
       /\ InMode(State, "sysoped")' = InMode(State, "sysoped")
       /\ Ghosts(State)' = Ghosts(State) /\ Haunted(State)' = Haunted(State)
       /\ Operators(State)' = (Operators(State) \ {u}) \cup {v}
       /\ u \in Operators(State)
  BY <1>1, <1>2, <1>8, <1>9, <1>10
<1> QED BY <1>5, <1>11, <1>12 DEF Chat!HandOver

\* The right is given and taken back in the room of the operator only.
LEMMA ToggleRefines ==
  ASSUME Good(State), NEW u \in Slots, NEW v \in Slots, Toggle(u, v)
  PROVE  Chat!Toggle(u, v)
<1>1. PICK s : s = State
  OBVIOUS
<1>2. PICK z : z = State'
  OBVIOUS
<1>3. Good(s) /\ Houses(s) /\ s.users = users
  BY <1>1, GoodHouses DEF State
<1>4. OpSet(s, v, ~users[v].op, z)
  BY <1>1, <1>2, ToggleState
<1>5. /\ users[u].room # Nowhere /\ users[u].room = users[v].room
      /\ users[u].who \in Sysops \/ users[u].who \in Chatops
  BY DEF Toggle, InRoom, RoomOf, Sysop, Chatop
<1>6. z.rooms = s.rooms /\ \A w \in Slots : z.users[w].who = s.users[w].who
                                           /\ z.users[w].conn = s.users[w].conn
                                           /\ z.users[w].room = s.users[w].room
  BY <1>4 DEF OpSet
<1>7. /\ \A w \in Slots \ {v} : z.users[w].op = s.users[w].op
      /\ z.users[v].op = ~s.users[v].op
  BY <1>3, <1>4 DEF OpSet
<1>8. Operators(z) = IF v \in Operators(s) THEN Operators(s) \ {v} ELSE Operators(s) \cup {v}
  <2>1. s.users[v].room # Nowhere
    BY <1>3, <1>5
  <2>2. v \in Operators(s) <=> s.users[v].op
    BY <2>1 DEF Operators
  <2>3. v \in Operators(z) <=> ~s.users[v].op
    BY <1>6, <1>7, <2>1 DEF Operators
  <2>4. \A w : w # v => (w \in Operators(z) <=> w \in Operators(s))
    BY <1>6, <1>7 DEF Operators
  <2> QED BY <2>2, <2>3, <2>4
<1>9. Accounts(z) = Accounts(s) /\ Places(z) = Places(s) /\ Ghosts(z) = Ghosts(s)
  BY <1>6, SameSeats
<1>10. /\ Invitations(z) = Invitations(s) /\ \A flag : InMode(z, flag) = InMode(s, flag)
       /\ Haunted(z) = Haunted(s)
  BY <1>6, SameRooms
<1>11. Chat!Together(u, v) /\ (Chat!Sysop(u) \/ Chat!Chatop(u))
  <2>1. Places(s)[u] # None /\ Places(s)[v] = Places(s)[u]
    BY <1>3, <1>5, SamePlaces
  <2>2. Accounts(s)[u] = users[u].who
    BY <1>3 DEF Accounts
  <2> QED BY <1>1, <1>5, <2>1, <2>2
      DEF Chat!Together, Chat!Present, Chat!Sysop, Chat!Chatop
<1>12. /\ Accounts(State)' = Accounts(State) /\ Places(State)' = Places(State)
       /\ Invitations(State)' = Invitations(State)
       /\ InMode(State, "locked")' = InMode(State, "locked")
       /\ InMode(State, "sysoped")' = InMode(State, "sysoped")
       /\ Ghosts(State)' = Ghosts(State) /\ Haunted(State)' = Haunted(State)
       /\ Operators(State)' = IF v \in Operators(State) THEN Operators(State) \ {v}
                              ELSE Operators(State) \cup {v}
  BY <1>1, <1>2, <1>8, <1>9, <1>10
<1> QED BY <1>11, <1>12 DEF Chat!Toggle

\* What Marked leaves as it was.
LEMMA MarkedKeeps ==
  ASSUME NEW s, Good(s), NEW r \in Rooms, NEW f, NEW i, NEW z, Marked(s, r, f, i, z)
  PROVE  /\ Accounts(z) = Accounts(s) /\ Places(z) = Places(s)
         /\ Operators(z) = Operators(s) /\ OpenRooms(z) = OpenRooms(s)
         /\ Ghosts(z) = Ghosts(s) /\ Haunted(z) = Haunted(s)
         /\ \A q \in OpenRooms(s) : q \in Rooms /\ NameOf(z, q) = NameOf(s, q)
         /\ \A q \in OpenRooms(s) \ {r} : z.rooms[q] = s.rooms[q]
<1>1. z.users = s.users /\ \A q \in Rooms : NameOf(z, q) = NameOf(s, q)
      /\ z.rooms[q].occupants = s.rooms[q].occupants /\ z.rooms[q].lost = s.rooms[q].lost
  BY DEF Marked, NameOf
<1>2. /\ Accounts(z) = Accounts(s) /\ Operators(z) = Operators(s)
      /\ Ghosts(z) = Ghosts(s) /\ Haunted(z) = Haunted(s)
  BY <1>1 DEF Accounts, Operators, Ghosts, Haunted, NameOf
<1>3. OpenRooms(z) = OpenRooms(s) /\ OpenRooms(s) \subseteq Rooms
  BY <1>1 DEF OpenRooms
<1>4. \A u \in Slots : s.users[u].room \in Rooms \cup {Nowhere}
  BY DEF Good, Typed, Seat
<1>5. Places(z) = Places(s)
  BY <1>1, <1>4 DEF Places, NameOf
<1>6. \A q \in OpenRooms(s) \ {r} : z.rooms[q] = s.rooms[q]
  BY <1>3 DEF Marked
<1> QED BY <1>1, <1>2, <1>3, <1>5, <1>6

\* A mode of the room r is set or taken away, the others stay.
LEMMA ModeSet ==
  ASSUME NEW s, Good(s), NEW r \in OpenRooms(s), NEW f, NEW z,
         Marked(s, r, f, s.rooms[r].invites, z)
  PROVE  /\ Invitations(z) = Invitations(s)
         /\ \A flag : InMode(z, flag) = IF flag \in f THEN InMode(s, flag) \cup {NameOf(s, r)}
                                        ELSE InMode(s, flag) \ {NameOf(s, r)}
<1>1. r \in Rooms
  BY DEF OpenRooms
<1>2. /\ OpenRooms(z) = OpenRooms(s)
      /\ \A q \in OpenRooms(s) : q \in Rooms /\ NameOf(z, q) = NameOf(s, q)
      /\ \A q \in OpenRooms(s) \ {r} : z.rooms[q] = s.rooms[q]
  BY <1>1, MarkedKeeps
<1>3. z.rooms[r].flags = f /\ z.rooms[r].invites = s.rooms[r].invites
  BY DEF Marked
<1>4. \A q \in OpenRooms(s) : NameOf(s, q) = NameOf(s, r) <=> q = r
  BY GoodHouses DEF Houses
<1>5. Invitations(z) = Invitations(s)
  <2>1. \A q \in OpenRooms(s) : z.rooms[q].invites = s.rooms[q].invites
    BY <1>2, <1>3
  <2>2. \A x : x \in Invitations(z) <=> x \in Invitations(s)
    BY <1>2, <2>1, InvitationsOf
  <2> QED BY <2>2
<1>6. ASSUME NEW flag
      PROVE  InMode(z, flag) = IF flag \in f THEN InMode(s, flag) \cup {NameOf(s, r)}
                               ELSE InMode(s, flag) \ {NameOf(s, r)}
  <2>1. \A q \in OpenRooms(s) : flag \in z.rooms[q].flags <=>
                                IF q = r THEN flag \in f ELSE flag \in s.rooms[q].flags
    BY <1>2, <1>3
  <2>2. \A x : x \in InMode(z, flag) <=>
               \E q \in OpenRooms(s) : /\ IF q = r THEN flag \in f ELSE flag \in s.rooms[q].flags
                                       /\ x = NameOf(s, q)
    BY <1>2, <2>1, InModeOf
  <2>3. \A x : x \in InMode(s, flag) <=>
               \E q \in OpenRooms(s) : flag \in s.rooms[q].flags /\ x = NameOf(s, q)
    BY InModeOf
  <2>4. CASE flag \in f
    <3>1. \A x : x \in InMode(z, flag) <=> x \in InMode(s, flag) \/ x = NameOf(s, r)
      BY <1>4, <2>2, <2>3, <2>4
    <3> QED BY <2>4, <3>1
  <2>5. CASE flag \notin f
    <3>1. \A x : x \in InMode(z, flag) <=> x \in InMode(s, flag) /\ x # NameOf(s, r)
      BY <1>4, <2>2, <2>3, <2>5
    <3> QED BY <2>5, <3>1
  <2> QED BY <2>4, <2>5
<1> QED BY <1>5, <1>6

\* chat_setroom() changes a mode of the room the operator is in.
LEMMA SetRoomRefines ==
  ASSUME Good(State), NEW u \in Slots, NEW flag \in Modes, SetRoom(u, flag)
  PROVE  Chat!Close(u)
<1>1. PICK s : s = State
  OBVIOUS
<1>2. PICK z : z = State'
  OBVIOUS
<1>3. PICK r : r = users[u].room
  OBVIOUS
<1>4. Good(s) /\ Houses(s) /\ Typed(s) /\ s.users = users /\ s.rooms = rooms
  BY <1>1, GoodHouses DEF State, Good
<1>5. PICK f : f = IF flag \in rooms[r].flags THEN rooms[r].flags \ {flag}
                   ELSE rooms[r].flags \cup {flag}
  OBVIOUS
<1>6. r \in Rooms /\ Marked(s, r, f, s.rooms[r].invites, z)
  BY <1>1, <1>2, <1>3, <1>4, <1>5, SetRoomState
<1>7. /\ r # Nowhere /\ users[u].op /\ r = s.users[u].room
      /\ flag = "sysoped" \/ r = 0 => users[u].who \in Sysops
  BY <1>3, <1>4 DEF SetRoom, InRoom, RoomOf, Roomop, Sysop
<1>8. r \in OpenRooms(s)
  BY <1>4, <1>7 DEF Houses
<1>9. PICK a : a = Places(s)[u]
  OBVIOUS
<1>10. a = NameOf(s, r) /\ (a = Mainroom <=> r = 0)
  BY <1>4, <1>7, <1>9, SamePlaces
<1>11. u \in Operators(s)
  BY <1>4, <1>7 DEF Operators
<1>12. /\ Accounts(z) = Accounts(s) /\ Places(z) = Places(s) /\ Operators(z) = Operators(s)
       /\ Ghosts(z) = Ghosts(s) /\ Haunted(z) = Haunted(s)
  BY <1>4, <1>6, MarkedKeeps
<1>13. /\ Invitations(z) = Invitations(s)
       /\ \A g : InMode(z, g) = IF g \in f THEN InMode(s, g) \cup {a} ELSE InMode(s, g) \ {a}
  <2>1. Marked(s, r, f, s.rooms[r].invites, z) /\ Good(s) /\ r \in OpenRooms(s)
    BY <1>4, <1>6, <1>8
  <2>2. /\ Invitations(z) = Invitations(s)
        /\ \A g : InMode(z, g) = IF g \in f THEN InMode(s, g) \cup {NameOf(s, r)}
                                  ELSE InMode(s, g) \ {NameOf(s, r)}
    BY <2>1, ModeSet
  <2>3. a = NameOf(s, r)
    BY <1>10
  <2> QED BY <2>2, <2>3
<1>14. \A g : g # flag => InMode(z, g) = InMode(s, g)
  <2>1. ASSUME NEW g, g # flag PROVE InMode(z, g) = InMode(s, g)
    <3>1. g \in f <=> g \in s.rooms[r].flags
      BY <1>4, <1>5, <2>1
    <3>2. a \in InMode(s, g) <=> g \in s.rooms[r].flags
      BY <1>4, <1>8, <1>10, ModeIn
    <3> QED BY <1>13, <3>1, <3>2
  <2> QED BY <2>1
<1>15. InMode(z, flag) \in {InMode(s, flag) \cup {a}, InMode(s, flag) \ {a}}
  BY <1>13
<1>16. flag = "locked" \/ flag = "sysoped"
  BY DEF ChatAssumption
<1>17. Accounts(s)[u] = users[u].who
  BY <1>4 DEF Accounts
<1>18. Chat!Sysop(u) <=> users[u].who \in Sysops
  BY <1>1, <1>17 DEF Chat!Sysop
<1>19. /\ Accounts(State)' = Accounts(State) /\ Places(State)' = Places(State)
       /\ Operators(State)' = Operators(State) /\ Invitations(State)' = Invitations(State)
       /\ Ghosts(State)' = Ghosts(State) /\ Haunted(State)' = Haunted(State)
       /\ u \in Operators(State) /\ a = Places(State)[u]
  BY <1>1, <1>2, <1>9, <1>11, <1>12, <1>13
<1>20. CASE flag = "locked"
  <2>1. /\ InMode(State, "locked")' \in {InMode(State, "locked") \cup {a},
                                         InMode(State, "locked") \ {a}}
        /\ InMode(State, "sysoped")' = InMode(State, "sysoped")
    <3>1. /\ InMode(z, "locked") \in {InMode(s, "locked") \cup {a}, InMode(s, "locked") \ {a}}
          /\ InMode(z, "sysoped") = InMode(s, "sysoped")
      BY <1>14, <1>15, <1>20
    <3> QED BY <1>1, <1>2, <3>1
  <2>2. Places(State)[u] # Mainroom \/ Chat!Sysop(u)
    BY <1>7, <1>10, <1>18, <1>19
  <2> QED BY <1>19, <2>1, <2>2 DEF Chat!Close
<1>21. CASE flag = "sysoped"
  <2>1. /\ InMode(State, "sysoped")' \in {InMode(State, "sysoped") \cup {a},
                                          InMode(State, "sysoped") \ {a}}
        /\ InMode(State, "locked")' = InMode(State, "locked")
    <3>1. /\ InMode(z, "sysoped") \in {InMode(s, "sysoped") \cup {a}, InMode(s, "sysoped") \ {a}}
          /\ InMode(z, "locked") = InMode(s, "locked")
      BY <1>14, <1>15, <1>21
    <3> QED BY <1>1, <1>2, <3>1
  <2>2. Chat!Sysop(u)
    BY <1>7, <1>18, <1>21
  <2> QED BY <1>19, <2>1, <2>2 DEF Chat!Close
<1> QED BY <1>16, <1>20, <1>21

\* chat_invite() adds one invitation to the room of the operator.
LEMMA InviteRefines ==
  ASSUME Good(State), NEW u \in Slots, NEW v \in Slots, Invite(u, v)
  PROVE  Chat!Invite(u, v)
<1>1. PICK s : s = State
  OBVIOUS
<1>2. PICK z : z = State'
  OBVIOUS
<1>3. PICK r : r = users[u].room
  OBVIOUS
<1>4. Good(s) /\ Houses(s) /\ s.users = users /\ s.rooms = rooms
  BY <1>1, GoodHouses DEF State
<1>5. PICK i : i = s.rooms[r].invites \cup {v}
  OBVIOUS
<1>6. r \in Rooms /\ Marked(s, r, s.rooms[r].flags, i, z)
  BY <1>1, <1>2, <1>3, <1>4, <1>5, InviteState
<1>7. r # Nowhere /\ users[u].op /\ r = s.users[u].room
  BY <1>3, <1>4 DEF Invite, InRoom, RoomOf, Roomop
<1>8. r \in OpenRooms(s)
  BY <1>4, <1>7 DEF Houses
<1>9. Places(s)[u] = NameOf(s, r)
  BY <1>4, <1>7, SamePlaces
<1>10. u \in Operators(s)
  BY <1>4, <1>7 DEF Operators
<1>11. /\ Accounts(z) = Accounts(s) /\ Places(z) = Places(s)
       /\ Operators(z) = Operators(s) /\ OpenRooms(z) = OpenRooms(s)
       /\ Ghosts(z) = Ghosts(s) /\ Haunted(z) = Haunted(s)
       /\ \A q \in OpenRooms(s) : q \in Rooms /\ NameOf(z, q) = NameOf(s, q)
       /\ \A q \in OpenRooms(s) \ {r} : z.rooms[q] = s.rooms[q]
  BY <1>4, <1>6, MarkedKeeps
<1>12. z.rooms[r].flags = s.rooms[r].flags /\ z.rooms[r].invites = i
  BY <1>6 DEF Marked
<1>13. ASSUME NEW flag PROVE InMode(z, flag) = InMode(s, flag)
  <2>1. \A q \in OpenRooms(s) : z.rooms[q].flags = s.rooms[q].flags
    BY <1>11, <1>12
  <2>2. \A x : x \in InMode(z, flag) <=> x \in InMode(s, flag)
    BY <1>11, <2>1, InModeOf
  <2>3. \A x \in InMode(z, flag) : x \in InMode(s, flag)
    BY <2>2
  <2> QED BY <2>2
<1>14. Invitations(z) = Invitations(s) \cup {<<v, NameOf(s, r)>>}
  <2>1. ASSUME NEW x \in Invitations(z)
        PROVE  x \in Invitations(s) \/ x = <<v, NameOf(s, r)>>
    <3>1. PICK w \in Slots, q \in OpenRooms(s) :
             w \in z.rooms[q].invites /\ x = <<w, NameOf(s, q)>>
      BY <1>11, InvitationsOf
    <3>2. CASE w \in s.rooms[q].invites
      BY <3>1, <3>2, InvitationsOf
    <3>3. CASE w \notin s.rooms[q].invites
      <4>1. q = r /\ w = v
        BY <1>5, <1>11, <1>12, <3>1, <3>3
      <4> QED BY <3>1, <4>1
    <3> QED BY <3>2, <3>3
  <2>2. ASSUME NEW x \in Invitations(s)
        PROVE  x \in Invitations(z)
    <3>1. PICK w \in Slots, q \in OpenRooms(s) :
             w \in s.rooms[q].invites /\ x = <<w, NameOf(s, q)>>
      BY InvitationsOf
    <3>2. w \in z.rooms[q].invites /\ x = <<w, NameOf(z, q)>> /\ q \in OpenRooms(z)
      BY <1>5, <1>11, <1>12, <3>1
    <3> QED BY <3>2, InvitationsOf
  <2>3. <<v, NameOf(s, r)>> \in Invitations(z)
    <3>1. v \in z.rooms[r].invites /\ NameOf(z, r) = NameOf(s, r) /\ r \in OpenRooms(z)
      BY <1>5, <1>8, <1>11, <1>12
    <3>2. <<v, NameOf(z, r)>> \in Invitations(z)
      BY <3>1, InvitationsOf
    <3> QED BY <3>1, <3>2
  <2> QED BY <2>1, <2>2, <2>3
<1>15. /\ Accounts(State)' = Accounts(State) /\ Places(State)' = Places(State)
       /\ Operators(State)' = Operators(State)
       /\ Invitations(State)' = Invitations(State) \cup {<<v, Places(State)[u]>>}
       /\ InMode(State, "locked")' = InMode(State, "locked")
       /\ InMode(State, "sysoped")' = InMode(State, "sysoped")
       /\ Ghosts(State)' = Ghosts(State) /\ Haunted(State)' = Haunted(State)
       /\ u \in Operators(State)
  BY <1>1, <1>2, <1>9, <1>10, <1>11, <1>13, <1>14
<1> QED BY <1>15 DEF Chat!Invite

-----------------------------------------------------------------------------

\* The tables the server starts with are an initial state of the rooms.
LEMMA InitRefines == Init => Chat!Init
<1> SUFFICES ASSUME Init PROVE Chat!Init
  OBVIOUS
<1>1. PICK s : s = State
  OBVIOUS
<1>2. Houses(s)
  BY <1>1, InitGood, GoodHouses DEF IInv
<1>3. /\ s.users = [u \in Slots |-> Closed]
      /\ s.rooms = [r \in Rooms |-> [name |-> IF r = 0 THEN Mainroom ELSE None,
                                     occupants |-> 0, flags |-> {}, invites |-> {},
                                   lost |-> 0]]
  BY <1>1 DEF Init, State
<1>4. \A u \in Slots : s.users[u] = Closed
  BY <1>3
<1>5. \A r \in OpenRooms(s) : s.rooms[r].flags = {} /\ s.rooms[r].invites = {}
  BY <1>3 DEF OpenRooms
<1>6. Accounts(s) = [u \in Slots |-> None]
  BY <1>4 DEF Accounts, Closed
<1>7. Places(s) = [u \in Slots |-> None]
  <2>1. \A u \in Slots : s.users[u].room = Nowhere
    BY <1>4 DEF Closed
  <2> QED BY <2>1 DEF Places
<1>8. Operators(s) = {}
  BY <1>4 DEF Operators, Closed
<1>9. Invitations(s) = {}
  BY <1>5, InvitationsOf
<1>10. \A flag : InMode(s, flag) = {}
  BY <1>5, InModeOf
<1>11. Ghosts(s) = {}
  BY <1>4 DEF Ghosts, Closed
<1>12. Haunted(s) = {}
  BY <1>3 DEF Haunted
<1> QED BY <1>1, <1>6, <1>7, <1>8, <1>9, <1>10, <1>11, <1>12 DEF Chat!Init

\* Every command of the server is a step of the abstract rooms or a stutter.
LEMMA StepRefines == IInv /\ [Next]_vars => [Chat!Next]_(Chat!roomVars)
<1> SUFFICES ASSUME IInv, [Next]_vars PROVE Chat!Next \/ UNCHANGED Chat!roomVars
  OBVIOUS
<1>1. Good(State)
  BY DEF IInv
<1>2. CASE UNCHANGED vars
  <2>1. PICK z : z = State'
    OBVIOUS
  <2>2. Unseen(State, z)
    BY <1>2, <2>1 DEF Unseen, State, vars
  <2> QED BY <2>1, <2>2, UnseenRefines
<1>3. ASSUME NEW u \in Slots,
             \/ Accept(u) \/ LostConn(u) \/ LineRefused(u) \/ Talk(u) \/ Bye(u)
             \/ \E c \in Clients, id \in Ids : Login(u, c, id)
             \/ \E n \in Names : Join(u, n) \/ NameRoom(u, n)
             \/ \E id \in Ids : Nick(u, id)
             \/ \E flag \in Modes : SetRoom(u, flag)
             \/ \E v \in Slots : Kick(u, v) \/ MakeOp(u, v) \/ Toggle(u, v) \/ Invite(u, v)
      PROVE  Chat!Next \/ UNCHANGED Chat!roomVars
  <2>1. CASE Accept(u)
    BY <1>1, <2>1, AcceptRefines DEF Chat!Next
  <2>2. CASE LostConn(u)
    <3>1. Chat!Disconnect(u)
      BY <1>1, <2>2, ThrownOutRefines DEF LostConn
    <3> QED BY <3>1 DEF Chat!Next
  <2>3. CASE LineRefused(u)
    BY <1>1, <2>3, LineRefusedRefines DEF Chat!Next
  <2>4. CASE Talk(u)
    <3>1. State' = State
      BY <2>4 DEF Talk, State
    <3>2. PICK z : z = State'
      OBVIOUS
    <3>3. Unseen(State, z)
      BY <3>1, <3>2 DEF Unseen
    <3> QED BY <3>2, <3>3, UnseenRefines
  <2>5. CASE Bye(u)
    BY <1>1, <2>5, ByeRefines DEF Chat!Next
  <2>6. ASSUME NEW c \in Clients, NEW id \in Ids, Login(u, c, id)
        PROVE  Chat!Next
    BY <1>1, <2>6, LoginRefines DEF Chat!Next
  <2>7. ASSUME NEW n \in Names, Join(u, n)
        PROVE  Chat!Next \/ UNCHANGED Chat!roomVars
    BY <1>1, <2>7, JoinRefines DEF Chat!Next
  <2>8. ASSUME NEW n \in Names, NameRoom(u, n)
        PROVE  Chat!Next
    BY <1>1, <2>8, NameRoomRefines DEF Chat!Next
  <2>9. ASSUME NEW id \in Ids, Nick(u, id)
        PROVE  UNCHANGED Chat!roomVars
    BY <1>1, <2>9, NickUnseen
  <2>10. ASSUME NEW flag \in Modes, SetRoom(u, flag)
         PROVE  Chat!Next
    BY <1>1, <2>10, SetRoomRefines DEF Chat!Next
  <2>11. ASSUME NEW v \in Slots, Kick(u, v)
         PROVE  Chat!Next
    BY <1>1, <2>11, KickRefines DEF Chat!Next
  <2>12. ASSUME NEW v \in Slots, MakeOp(u, v)
         PROVE  Chat!Next
    BY <1>1, <2>12, MakeOpRefines DEF Chat!Next
  <2>13. ASSUME NEW v \in Slots, Toggle(u, v)
         PROVE  Chat!Next
    BY <1>1, <2>13, ToggleRefines DEF Chat!Next
  <2>14. ASSUME NEW v \in Slots, Invite(u, v)
         PROVE  Chat!Next
    BY <1>1, <2>14, InviteRefines DEF Chat!Next
  <2> QED BY <1>3, <2>1, <2>2, <2>3, <2>4, <2>5, <2>6, <2>7, <2>8, <2>9, <2>10, <2>11,
             <2>12, <2>13, <2>14
<1> QED BY <1>2, <1>3 DEF Next

\* The tables of chatd implement the rooms of ChatRooms, for any number of
\* users and rooms: who is where, who is operator, who is invited, which
\* rooms are locked or for sysops change only by the steps that the abstract
\* specification allows, and a room and all that was said of it end when its
\* last user leaves, unless a ghost never left it.
THEOREM Refinement == Spec => ChatSpec
BY InitRefines, StepRefines, Invariance, PTL DEF Spec, ChatSpec, Chat!Spec
=============================================================================
