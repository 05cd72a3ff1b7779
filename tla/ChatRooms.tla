----------------------------- MODULE ChatRooms -----------------------------
(***************************************************************************)
(* What the chat server promises its users: rooms known by their names,    *)
(* without indexes, counters or slots that are used again.                 *)
(*                                                                         *)
(* A room exists while somebody is in it; the main room always does.  Who  *)
(* opens a room is its operator.  A room's operator, its invitations and   *)
(* whether it is closed end with the room, a connection's with the         *)
(* connection.  A seat may be a ghost's, whose connection has ended but    *)
(* whose lines have not: it holds no name against others, and a room it    *)
(* never left stays open.  ChatStation implements this module.             *)
(***************************************************************************)
EXTENDS Naturals, FiniteSets

CONSTANTS
    Seats,          \* the connections the server has room for
    Clients,        \* who may log in
    Utent,          \* the account of each
    Names,          \* room names
    Main,           \* the main room's name
    Limit,          \* how many rooms there can be, the main room included
    Sysops, Chatops,    \* Clients with these permissions
    None            \* not a client, not a room name

VARIABLES
    user,       \* who has logged in on a connection
    at,         \* the room it is in
    ops,        \* the connections that are operator of the room they are in
    invited,    \* <<u, n>>: connection u may enter room n
    locked, sysoped,    \* rooms entered by invitation (or by chatops)
    ghosts,     \* the seats of those who are gone
    haunted     \* the rooms that ghosts never left

roomVars == <<user, at, ops, invited, locked, sysoped, ghosts, haunted>>

Open == {Main} \cup haunted \cup {at[u] : u \in {v \in Seats : at[v] # None}}
Present(u) == at[u] # None
Sysop(u)  == user[u] \in Sysops
Chatop(u) == user[u] \in Chatops
Together(u, v) == Present(u) /\ at[u] = at[v]
MayEnter(u, n) ==
    /\ n \in locked => <<u, n>> \in invited \/ Sysop(u) \/ Chatop(u)
    /\ n \in sysoped => <<u, n>> \in invited \/ Sysop(u)

\* What ends with the rooms that are left empty when u moves to room n.
Deserted(u, n) ==
    {m \in Open \ (haunted \cup {Main, n}) : \A v \in Seats \ {u} : at[v] # m}
Moves(u, n, gone) ==
    /\ at' = [at EXCEPT ![u] = n] /\ ops' = ops \ {u}
    /\ invited' = {p \in invited : p[2] \notin Deserted(u, n) /\ p \notin gone}
    /\ locked' = locked \ Deserted(u, n) /\ sysoped' = sysoped \ Deserted(u, n)
    /\ UNCHANGED haunted

Init ==
    /\ user = [u \in Seats |-> None] /\ at = [u \in Seats |-> None]
    /\ ops = {} /\ invited = {} /\ locked = {} /\ sysoped = {}
    /\ ghosts = {} /\ haunted = {}

\* A login of somebody who is in no room, perhaps of a ghost, as an account
\* that no other than a ghost has.  It enters the main room, unless that is
\* closed to it.
Login(u, c) ==
    /\ ~Present(u)
    /\ \A v \in Seats \ ghosts : user[v] # None => Utent[user[v]] # Utent[c]
    /\ user' = [user EXCEPT ![u] = c]
    /\ \/ UNCHANGED ghosts
       \/ user[u] = None /\ ghosts' = ghosts \cup {u}
    /\ LET may == /\ Main \in locked => <<u, Main>> \in invited \/ c \in Sysops \cup Chatops
                  /\ Main \in sysoped => <<u, Main>> \in invited \/ c \in Sysops
       IN  IF may THEN Moves(u, Main, {<<u, Main>>})
                  ELSE UNCHANGED <<at, ops, invited, locked, sysoped, haunted>>

\* A connection gets the seat of a ghost, and what that was called.
Seat(u) ==
    /\ u \in ghosts /\ ghosts' = ghosts \ {u}
    /\ at' = [at EXCEPT ![u] = None] /\ ops' = ops \ {u}
    /\ haunted' = haunted \cup ({at[u]} \ {None})
    /\ UNCHANGED <<user, invited, locked, sysoped>>

Enter(u, n) ==
    /\ Present(u) /\ Moves(u, n, {<<u, n>>}) /\ UNCHANGED <<user, ghosts>>
    /\ n \in Open /\ MayEnter(u, n)

\* Rooms are counted before u leaves its own.
OpenRoom(u, n) ==
    /\ Present(u) /\ at' = [at EXCEPT ![u] = n] /\ ops' = ops \cup {u}
    /\ n \notin Open /\ Cardinality(Open) < Limit
    /\ invited' = {p \in invited : p[2] \notin Deserted(u, n)}
    /\ locked' = locked \ Deserted(u, n) /\ sysoped' = sysoped \ Deserted(u, n)
    /\ UNCHANGED <<user, ghosts, haunted>>

Leave(u) == Present(u) /\ Moves(u, None, {}) /\ UNCHANGED <<user, ghosts>>

\* The connection ends, by itself or because somebody throws it out.
Disconnect(u) ==
    /\ Moves(u, None, {u} \X Names) /\ user' = [user EXCEPT ![u] = None]
    /\ ghosts' = ghosts \ {u}

Throws(v, u) ==     \* v has the right to throw u out
    /\ Present(v) /\ (v \in ops \/ Sysop(v) \/ Chatop(v))
    /\ Together(v, u) \/ Sysop(v)
    /\ Sysop(u) => Sysop(v)

\* Out of a room other than the main one into that, if it is not closed.
Expel(v, u) ==
    /\ Throws(v, u) /\ Together(v, u) /\ at[v] # Main
    /\ IF MayEnter(u, Main) THEN Moves(u, Main, {<<u, Main>>}) ELSE Moves(u, None, {})
    /\ UNCHANGED <<user, ghosts>>

Rename(u, n) ==
    /\ Present(u) /\ at[u] # Main
    /\ LET now(m) == IF m = at[u] THEN n ELSE m
       IN  /\ at' = [v \in Seats |-> now(at[v])]
           /\ invited' = {<<p[1], now(p[2])>> : p \in invited}
           /\ locked' = {now(m) : m \in locked} /\ sysoped' = {now(m) : m \in sysoped}
           /\ haunted' = {now(m) : m \in haunted}
    /\ n \notin Open /\ (u \in ops \/ Sysop(u) \/ Chatop(u))
    /\ UNCHANGED <<user, ops, ghosts>>

Close(u) ==
    /\ u \in ops
    /\ \/ /\ at[u] # Main \/ Sysop(u)
          /\ locked' \in {locked \cup {at[u]}, locked \ {at[u]}} /\ UNCHANGED sysoped
       \/ /\ Sysop(u) /\ UNCHANGED locked
          /\ sysoped' \in {sysoped \cup {at[u]}, sysoped \ {at[u]}}
    /\ UNCHANGED <<user, at, ops, invited, ghosts, haunted>>

\* An operator hands the room over; those set above rooms make and unmake one.
HandOver(u, v) ==
    /\ u \in ops /\ u # v /\ Together(u, v) /\ ops' = (ops \ {u}) \cup {v}
    /\ UNCHANGED <<user, at, invited, locked, sysoped, ghosts, haunted>>
Toggle(u, v) ==
    /\ (Sysop(u) \/ Chatop(u)) /\ Together(u, v)
    /\ ops' = IF v \in ops THEN ops \ {v} ELSE ops \cup {v}
    /\ UNCHANGED <<user, at, invited, locked, sysoped, ghosts, haunted>>

Invite(u, v) ==
    /\ u \in ops /\ invited' = invited \cup {<<v, at[u]>>}
    /\ UNCHANGED <<user, at, ops, locked, sysoped, ghosts, haunted>>

Next ==
    \E u \in Seats :
        \/ \E c \in Clients : Login(u, c)
        \/ \E n \in Names : Enter(u, n) \/ OpenRoom(u, n) \/ Rename(u, n)
        \/ Leave(u) \/ Disconnect(u) \/ Seat(u) \/ Close(u)
        \/ \E v \in Seats :
               Expel(u, v) \/ HandOver(u, v) \/ Toggle(u, v) \/ Invite(u, v)

Spec == Init /\ [][Next]_roomVars
=============================================================================
