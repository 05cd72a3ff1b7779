---------------------------- MODULE ChatStation ----------------------------
(***************************************************************************)
(* The chat server daemon/station.c: one process that serves all chat      *)
(* connections.  users[] holds a connection per slot, rooms[] the rooms;   *)
(* they refer to each other by index, and both kinds of slots are used     *)
(* again.  A line from a client is one action here.                        *)
(*                                                                         *)
(* One recv() may return several lines; they are executed one after the    *)
(* other for the same slot, also when a line has ended the connection      *)
(* (handling).  Any line may be one that logs in: what src/chat.c sends    *)
(* first, a user can type as well (/!), whether he has logged in or not.   *)
(* So a slot may be logged in to that has no connection (a ghost), and the *)
(* next connection gets it as the ghost left it.                           *)
(*                                                                         *)
(* Only what decides who is in which room is kept: talk, lists, topics and *)
(* the room modes s and e (secret, no emotes) change nothing here, nor     *)
(* does the check for guests, whom the client does not let in.  A client   *)
(* is what a login line claims to be: an account's utent with a level.  A  *)
(* shutdown ends the model, and num_conns, which the server counts but     *)
(* never reads, is left out.                                               *)
(***************************************************************************)
EXTENDS Integers, FiniteSets, FiniteSetsExt

CONSTANTS
    CHATMAXACTIVE,      \* slots of users[]
    MAXROOM,            \* slots of rooms[]
    Clients,            \* what login lines claim to be
    Utent,              \* the utent of each
    Ids,                \* valid chat ids
    RoomNames,          \* names users think of, mainroom not among them
    Mainroom,           \* the main room's name
    Sysops, Chatops,    \* those with PERM_SYSOP, PERM_CHATOP
    Modes,              \* the room modes operators use: "locked", "sysoped"
    MaxLost,            \* bound of this model: see Accept
    None                \* no client, no chat id, no name

Slots == 1..CHATMAXACTIVE
Rooms == 0..MAXROOM-1
Nowhere == -1
Nobody == 0
Names == RoomNames \cup {Mainroom}

ASSUME ChatAssumption ==
    /\ CHATMAXACTIVE \in Nat \ {0} /\ MAXROOM \in Nat \ {0, 1} /\ MaxLost \in Nat
    /\ Sysops \subseteq Clients /\ Chatops \subseteq Clients
    /\ None \notin Clients \cup Ids \cup Names /\ Mainroom \notin RoomNames
    /\ Modes \subseteq {"locked", "sysoped"}

VARIABLES
    users,      \* [conn |-> sockfd # -1, who, chatid, room, op |-> ROOMOP, left]
    rooms,      \* [name, occupants, flags, invites, lost]
    handling    \* the slot whose lines are being executed

vars == <<users, rooms, handling>>
\* Two of the fields are history, which no step depends on: left, that what a
\* connection is called is what a ghost was; and lost, how many ghosts were in
\* the room when their slots were taken.

Closed == [conn |-> FALSE, who |-> None, chatid |-> None, room |-> Nowhere,
           op |-> FALSE, left |-> FALSE]
Sysop(u)  == users[u].who \in Sysops
Chatop(u) == users[u].who \in Chatops
Roomop(u) == users[u].op
RoomOf(u) == users[u].room

\* chatid_to_indx(): the slots a word can name.  The empty word names the
\* first connection that has not logged in.
Addressable(u) ==
    /\ users[u].conn
    /\ \A v \in 1..u-1 : users[v].conn => users[v].chatid # users[u].chatid

-----------------------------------------------------------------------------
(* exit_room(), enter_room() and logout_user(), as functions of the State s *)
(* that the calls before them in the same handler left.                     *)

State == [users |-> users, rooms |-> rooms]

\* roomid_to_indx(): the room of that name; room 0 always counts as open.
OpenRooms(s) == {r \in Rooms : r = 0 \/ s.rooms[r].occupants > 0}
Named(s, n) == {r \in OpenRooms(s) : s.rooms[r].name = n}

\* Faulty: the room's count is left as it is.
ExitRoomUncounted(s, u) ==
    [s EXCEPT !.users[u].op = FALSE, !.users[u].room = Nowhere]

ExitRoom(s, u) ==
    LET r == s.users[u].room
    IN  [ users |-> [s.users EXCEPT ![u].op = FALSE, ![u].room = Nowhere],
          rooms |-> IF r = Nowhere THEN s.rooms
                    ELSE [s.rooms EXCEPT ![r].occupants = @ - 1] ]

\* Who may go into a room that asks for an invitation.
Refused(s, u, r) ==
    /\ u \notin s.rooms[r].invites /\ s.users[u].who \notin Sysops
    /\ \/ "locked" \in s.rooms[r].flags /\ s.users[u].who \notin Chatops
       \/ "sysoped" \in s.rooms[r].flags

\* Leaving the old room, if any, for room r.
MoveTo(s, u, r, op) ==
    LET e == ExitRoom(s, u)
    IN  [ users |-> [e.users EXCEPT ![u].room = r, ![u].op = op],
          rooms |-> [e.rooms EXCEPT ![r].occupants = @ + 1,
                                    ![r].invites = @ \ {u}] ]

NewRoom(s, r, n) ==
    [s EXCEPT !.rooms[r] = [@ EXCEPT !.name = n, !.flags = {}, !.invites = {}]]

EnterRoom(s, u, n) ==
    LET there == Named(s, n)
        empty == {r \in Rooms \ {0} : s.rooms[r].occupants = 0}
    IN  IF there # {}
        THEN IF Refused(s, u, Min(there)) THEN s
             ELSE MoveTo(s, u, Min(there), FALSE)
        ELSE IF empty = {} THEN s
        ELSE MoveTo(NewRoom(s, Min(empty), n), u, Min(empty), TRUE)

\* Faulty: the slot's invitations stay for the next connection.
LogoutUserInvited(s, u) == [s EXCEPT !.users[u] = Closed]

LogoutUser(s, u) ==
    [ users |-> [s.users EXCEPT ![u] = Closed],
      rooms |-> [r \in Rooms |-> [s.rooms[r] EXCEPT !.invites = @ \ {u}]] ]

Becomes(s) == users' = s.users /\ rooms' = s.rooms

Init ==
    /\ users = [u \in Slots |-> Closed]
    /\ rooms = [r \in Rooms |->
                   [name |-> IF r = 0 THEN Mainroom ELSE None, occupants |-> 0,
                    flags |-> {}, invites |-> {}, lost |-> 0]]
    /\ handling = Nobody

-----------------------------------------------------------------------------
(* main(), process_chat_command(). *)

\* A connection takes the first slot that has none.  Only room is reset: if
\* the slot is a ghost's, the rest stays, and a room it was in goes on counting
\* it.  (The model ends when a room has counted MaxLost such.)
Accept(u) ==
    /\ handling = Nobody
    /\ ~users[u].conn /\ \A v \in 1..u-1 : users[v].conn
    /\ users' = [users EXCEPT ![u].conn = TRUE, ![u].room = Nowhere,
                              ![u].left = users[u].who # None]
    /\ IF RoomOf(u) = Nowhere THEN rooms' = rooms
       ELSE /\ \A r \in Rooms : rooms[r].lost < MaxLost
            /\ rooms' = [rooms EXCEPT ![RoomOf(u)].lost = @ + 1]
    /\ UNCHANGED handling

\* Faulty: without exit_room().
LostConnInRoom(u) ==
    /\ handling = Nobody /\ users[u].conn
    /\ Becomes(LogoutUser(State, u))
    /\ UNCHANGED handling

LostConn(u) ==
    /\ handling = Nobody /\ users[u].conn
    /\ Becomes(LogoutUser(ExitRoom(State, u), u))
    /\ UNCHANGED handling

\* A line of u is executed: of a connection, or one that the recv() returned
\* after the line that closed the slot.
Speaks(u) == handling = u \/ (handling = Nobody /\ users[u].conn)
InRoom(u) == Speaks(u) /\ RoomOf(u) # Nowhere
\* More such lines may follow.  (Those of a connection may as well come by
\* themselves.)
Rest(u) == handling' \in {Nobody} \cup {v \in {u} : ~users'[v].conn}

\* login_user(), of anybody who is in no room.  The level of the client program
\* has PERM_CHAT, which is the bit of ROOMOP; exit_room() takes it away when
\* the main room lets the user in.
Login(u, c, id) ==
    /\ Speaks(u) /\ RoomOf(u) = Nowhere
    /\ \A v \in Slots :
           users[v].conn => /\ users[v].who # None => Utent[users[v].who] # Utent[c]
                            /\ users[v].chatid # id
    /\ Becomes(EnterRoom(
           [State EXCEPT !.users[u] = [@ EXCEPT !.who = c, !.chatid = id, !.op = TRUE,
                                                !.left = FALSE]], u, Mainroom))
    /\ Rest(u)

\* Any other line of someone who is in no room, and the login of a utent that is
\* logged in: the slot is closed and the rest of its lines dropped.
LineRefused(u) ==
    /\ Speaks(u) /\ RoomOf(u) = Nowhere
    /\ Becomes(LogoutUser(State, u)) /\ handling' = Nobody

\* A line that does nothing to the tables: talk, a command refused, a login
\* under a chat id that is in use.
Talk(u) == Speaks(u) /\ UNCHANGED <<users, rooms>> /\ Rest(u)

-----------------------------------------------------------------------------
(* The commands. *)

\* chat_goodbye()
Bye(u) ==
    InRoom(u) /\ Becomes(ExitRoom(State, u)) /\ Rest(u)

\* chat_join()
Join(u, n) ==
    InRoom(u) /\ Becomes(EnterRoom(State, u, n)) /\ Rest(u)

\* chat_kick(), chat_kickid(): the latter finds whoever has logged in by the
\* user id of the login line.
MayKick(u, v) ==
    /\ Roomop(u) \/ Sysop(u) \/ Chatop(u)
    /\ Addressable(v) \/ (users[v].conn /\ users[v].who # None)
    /\ RoomOf(u) = RoomOf(v) \/ Sysop(u)
    /\ Sysop(v) => Sysop(u)
Kick(u, v) ==
    /\ InRoom(u) /\ MayKick(u, v)
    /\ LET e == ExitRoom(State, v)
       IN  IF RoomOf(u) = 0 \/ RoomOf(u) # RoomOf(v)
           THEN Becomes(LogoutUser(e, v))
           ELSE Becomes(EnterRoom(e, v, Mainroom))
    /\ Rest(u)

\* Faulty: the name may be in use.
NameRoomTaken(u, n) ==
    /\ InRoom(u) /\ (Roomop(u) \/ Sysop(u) \/ Chatop(u))
    /\ RoomOf(u) # 0
    /\ rooms' = [rooms EXCEPT ![RoomOf(u)].name = n]
    /\ UNCHANGED users /\ Rest(u)

\* chat_name_room()
NameRoom(u, n) ==
    /\ InRoom(u) /\ (Roomop(u) \/ Sysop(u) \/ Chatop(u))
    /\ RoomOf(u) # 0 /\ Named(State, n) = {}
    /\ rooms' = [rooms EXCEPT ![RoomOf(u)].name = n]
    /\ UNCHANGED users /\ Rest(u)

\* chat_setroom(), one letter that changes something: l or x, on or off.
SetRoom(u, flag) ==
    /\ InRoom(u) /\ Roomop(u)
    /\ flag = "sysoped" \/ RoomOf(u) = 0 => Sysop(u)
    /\ rooms' = [rooms EXCEPT ![RoomOf(u)].flags =
                     IF flag \in @ THEN @ \ {flag} ELSE @ \cup {flag}]
    /\ UNCHANGED users /\ Rest(u)

\* chat_nick()
Nick(u, id) ==
    /\ InRoom(u)
    /\ \A v \in Slots \ {u} : users[v].conn => users[v].chatid # id
    /\ users' = [users EXCEPT ![u].chatid = id]
    /\ UNCHANGED rooms /\ Rest(u)

\* chat_makeop()
MakeOp(u, v) ==
    /\ InRoom(u) /\ Roomop(u) /\ Addressable(v) /\ u # v /\ RoomOf(u) = RoomOf(v)
    /\ users' = [users EXCEPT ![u].op = FALSE, ![v].op = TRUE]
    /\ UNCHANGED rooms /\ Rest(u)

\* chat_toggle()
Toggle(u, v) ==
    /\ InRoom(u) /\ Addressable(v) /\ RoomOf(u) = RoomOf(v)
    /\ Sysop(u) \/ Chatop(u)
    /\ users' = [users EXCEPT ![v].op = ~@]
    /\ UNCHANGED rooms /\ Rest(u)

\* chat_invite()
Invite(u, v) ==
    /\ InRoom(u) /\ Roomop(u) /\ Addressable(v)
    /\ rooms' = [rooms EXCEPT ![RoomOf(u)].invites = @ \cup {v}]
    /\ UNCHANGED users /\ Rest(u)

Next ==
    \E u \in Slots :
        \/ Accept(u) \/ LostConn(u) \/ LineRefused(u) \/ Talk(u) \/ Bye(u)
        \/ \E c \in Clients, id \in Ids : Login(u, c, id)
        \/ \E n \in Names : Join(u, n) \/ NameRoom(u, n)
        \/ \E id \in Ids : Nick(u, id)
        \/ \E flag \in Modes : SetRoom(u, flag)
        \/ \E v \in Slots : Kick(u, v) \/ MakeOp(u, v) \/ Toggle(u, v) \/ Invite(u, v)

Spec == Init /\ [][Next]_vars

-----------------------------------------------------------------------------
(* Properties. *)

TypeOK ==
    /\ users \in [Slots -> [conn : BOOLEAN, who : Clients \cup {None},
                            chatid : Ids \cup {None}, room : Rooms \cup {Nowhere},
                            op : BOOLEAN, left : BOOLEAN]]
    /\ rooms \in [Rooms -> [name : Names \cup {None},
                            occupants : 0..CHATMAXACTIVE+MaxLost,
                            flags : SUBSET Modes, invites : SUBSET Slots,
                            lost : 0..MaxLost]]
    /\ handling \in Slots \cup {Nobody}

\* occupants is the number of users in the room and of the ghosts that were in
\* it when their slots were taken: by it a room counts as open or as free to be
\* made a new one, so a count that is off in another way loses a room or gives
\* one with people in it to somebody else.
OccupantsAgree ==
    \A r \in Rooms :
        rooms[r].occupants = Cardinality({u \in Slots : users[u].room = r}) + rooms[r].lost

\* A word names one connection and one room: chat ids and accounts of those
\* who have logged in differ, and so do the names of open rooms, whatever is
\* renamed, closed and opened.  Only who has got a ghost's slot may be called
\* as somebody else is, until he logs in himself.
Distinct ==
    /\ \A u, v \in Slots :
           /\ u # v /\ users[u].conn /\ users[v].conn /\ ~users[u].left /\ ~users[v].left
           /\ users[u].who # None /\ users[v].who # None
           => /\ Utent[users[u].who] # Utent[users[v].who]
              /\ users[u].chatid # users[v].chatid
    /\ \A q, r \in OpenRooms(State) : rooms[q].name = rooms[r].name => q = r

\* What users see of the state s: where somebody is, who is operator, who may
\* come in, and which rooms have a mode, all by the names of the rooms.
Accounts(s) == [u \in Slots |-> s.users[u].who]
Places(s) ==
    [u \in Slots |-> IF s.users[u].room = Nowhere THEN None
                     ELSE s.rooms[s.users[u].room].name]
Operators(s) == {u \in Slots : s.users[u].op /\ s.users[u].room # Nowhere}
Invitations(s) ==
    {<<p[1], s.rooms[p[2]].name>> :
        p \in {q \in Slots \X OpenRooms(s) : q[1] \in s.rooms[q[2]].invites}}
InMode(s, flag) ==
    {s.rooms[r].name : r \in {q \in OpenRooms(s) : flag \in s.rooms[q].flags}}

Ghosts(s) == {u \in Slots : ~s.users[u].conn /\ s.users[u].who # None}
Haunted(s) == {s.rooms[r].name : r \in {q \in Rooms : s.rooms[q].lost > 0}}

\* The indexes and counters implement the rooms of ChatRooms.
Chat == INSTANCE ChatRooms WITH
    Seats   <- Slots,
    Main    <- Mainroom,
    Limit   <- MAXROOM,
    user    <- Accounts(State),
    at      <- Places(State),
    ops     <- Operators(State),
    invited <- Invitations(State),
    locked  <- InMode(State, "locked"),
    sysoped <- InMode(State, "sysoped"),
    ghosts  <- Ghosts(State),
    haunted <- Haunted(State)
ChatSpec == Chat!Spec
=============================================================================
