-------------------------------- MODULE Hub --------------------------------
(***************************************************************************)
(* The hub goroutine (hub.go, hub_comp.go): who is connected, who is in    *)
(* which room, invitation or match, and which fixture is being played.     *)
(*                                                                         *)
(* Hub.run takes one event at a time from the registration, departure and  *)
(* message channels and from the 60 Hz ticker, so every handler is one     *)
(* atomic action here.  What is concurrent is the order of the events: the *)
(* channels are independent, so the departure of a connection (its         *)
(* readPump ending) may be handled long after a newer connection of the    *)
(* same student was registered, and Go's select picks any ready channel.   *)
(*                                                                         *)
(* Time is abstracted: an expiry (invitation, end screen, long absence) is *)
(* a choice of the tick.  Match.tla has the rules inside a match; here the *)
(* phases ready, play and goal are one phase "live".                       *)
(*                                                                         *)
(* The constant sets bound what exists at the same time, not how much may  *)
(* happen: an identity is free again once nothing refers to it.            *)
(***************************************************************************)
EXTENDS Naturals, FiniteSets

CONSTANTS
    Conn,      \* connections (type client)
    Token,     \* reconnection secrets, one per browser
    Key,       \* student number and name, playerKey(sid, name)
    Pid,       \* Player objects
    Mid,       \* Match objects
    Code,      \* room codes
    Fixture,   \* Fixture objects of the competitions
    FxA, FxB,  \* the keys of the two entrants of a fixture
    None

ASSUME HubAssumption ==
    /\ None \notin UNION {Conn, Token, Key, Pid, Mid, Code, Fixture}
    /\ None \notin {"match", "teacher"}
    /\ FxA \in [Fixture -> Key]
    /\ FxB \in [Fixture -> Key]
    /\ \A f \in Fixture : FxA[f] # FxB[f]

VARIABLES
    ctok,      \* ctok[c]: token of connection c, None once its departure is handled
    closed,    \* connections whose send channel has been closed
    panicked,  \* a second close of a send channel has killed the process
    players,   \* Hub.players: token -> Player
    byID,      \* Hub.byID
    token, key, pconn,          \* Player.token, Player.key(), Player.conn
    rooms, room,                \* Hub.rooms: code -> owner, Player.room
    invites,                    \* Hub.invites as pairs <<receiver, sender>>
    subClosed,
    phase, seat, fixture, rematch,   \* Match.phase, players, fixture, rematch
    match,                      \* Player.match
    ended,                      \* keys of Hub.ended
    comp,                       \* fixtures of Hub.comp, {} when it is nil
    status,                     \* Fixture.Status
    by                          \* who decided a fixture (Fixture.Reason)

sessionVars == <<ctok, closed, panicked, players, byID, token, key, pconn>>
lobbyVars   == <<rooms, room, invites, subClosed>>
matchVars   == <<phase, seat, fixture, rematch, match, ended>>
compVars    == <<comp, status, by>>
vars        == <<sessionVars, lobbyVars, matchVars, compVars>>

Side    == {0, 1}
NoSeats == [s \in Side |-> None]

TypeOK ==
    /\ ctok \in [Conn -> Token \cup {None}]
    /\ closed \subseteq Conn
    /\ panicked \in BOOLEAN
    /\ players \in [Token -> Pid \cup {None}]
    /\ byID \subseteq Pid
    /\ token \in [Pid -> Token \cup {None}]
    /\ key \in [Pid -> Key \cup {None}]
    /\ pconn \in [Pid -> Conn \cup {None}]
    /\ rooms \in [Code -> Pid \cup {None}]
    /\ room \in [Pid -> Code \cup {None}]
    /\ invites \subseteq Pid \X Pid
    /\ subClosed \in BOOLEAN
    /\ phase \in [Mid -> {"unused", "live", "pause", "end"}]
    /\ seat \in [Mid -> [Side -> Pid \cup {None}]]
    /\ fixture \in [Mid -> Fixture \cup {None}]
    /\ rematch \in [Mid -> SUBSET Side]
    /\ match \in [Pid -> Mid \cup {None}]
    /\ ended \subseteq Mid
    /\ comp \subseteq Fixture
    /\ status \in [Fixture -> {"none", "pending", "playing", "done"}]
    /\ by \in [Fixture -> {None, "match", "teacher"}]

(* newHub: a freshly started process, and no competition saved yet. *)
Init ==
    /\ ctok = [c \in Conn |-> None] /\ closed = {} /\ panicked = FALSE
    /\ players = [t \in Token |-> None] /\ byID = {}
    /\ token = [p \in Pid |-> None] /\ key = [p \in Pid |-> None]
    /\ pconn = [p \in Pid |-> None]
    /\ rooms = [x \in Code |-> None] /\ room = [p \in Pid |-> None]
    /\ invites = {} /\ subClosed = FALSE
    /\ phase = [m \in Mid |-> "unused"] /\ seat = [m \in Mid |-> NoSeats]
    /\ fixture = [m \in Mid |-> None] /\ rematch = [m \in Mid |-> {}]
    /\ match = [p \in Pid |-> None] /\ ended = {}
    /\ comp = {}
    /\ status = [f \in Fixture |-> "none"]
    /\ by = [f \in Fixture |-> None]

-----------------------------------------------------------------------------
(* Reading the state *)

Online(p)     == pconn[p] # None
Seats(m)      == {seat[m][s] : s \in Side} \ {None}
SideOf(p, m)  == IF seat[m][0] = p THEN 0 ELSE 1
Other(p, m)   == seat[m][1 - SideOf(p, m)]

(* Mutant: only a match of the competition keeps a student busy. *)
BusyAtFixture(p) == match[p] # None /\ phase[match[p]] # "end" /\ fixture[match[p]] # None

Matches       == {m \in Mid : phase[m] # "unused"}            \* Hub.matches
Unfinished    == {m \in Mid : phase[m] \in {"live", "pause"}}
Busy(p)       == match[p] # None /\ phase[match[p]] # "end"   \* busyMatch

(* The sender of a message is the student its connection belongs to now;   *)
(* what a replaced connection still has in the inbound channel is ignored. *)
From(p) ==
    /\ ~panicked
    /\ \E c \in Conn : ctok[c] # None /\ players[ctok[c]] = p /\ pconn[p] = c

(* waitingPlayer, onlinePlayer: map order decides between several. *)
Waiting(k) == {p \in byID : /\ pconn[p] = None /\ key[p] = k
                            /\ match[p] # None /\ phase[match[p]] = "pause"}

OnlinePlayers(k) ==
    LET here == {p \in byID : Online(p) /\ key[p] = k}
    IN  {p \in here : Busy(p) => \A q \in here : Busy(q)}

(* An object is new when no part of the state still refers to it. *)
FreshPid(p) == p \notin byID /\ \A m \in Matches : p \notin Seats(m)
FreshMid(m) == phase[m] = "unused" /\ \A p \in Pid : match[p] # m

-----------------------------------------------------------------------------
(* Steps the handlers are made of *)

(* closeRoom for every student of S. *)
CloseRooms(S) ==
    /\ rooms' = [x \in Code |-> IF rooms[x] \in S THEN None ELSE rooms[x]]
    /\ room'  = [p \in Pid |-> IF p \in S THEN None ELSE room[p]]

(* Mutant: startMatch and onUnregister forget the rooms. *)
LeaveLobbyKeepRooms(S) ==
    /\ invites' = {i \in invites : i[1] \notin S /\ i[2] \notin S}
    /\ UNCHANGED <<rooms, room>>

(* Mutant: only the invitations a student received are removed. *)
LeaveLobbyKeepSent(S) ==
    /\ CloseRooms(S)
    /\ invites' = {i \in invites : i[1] \notin S}

LeaveLobby(S) ==
    /\ CloseRooms(S)
    /\ invites' = {i \in invites : i[1] \notin S /\ i[2] \notin S}

(* Mutant: the connection a new tab replaces is left open. *)
LeaveOpen(c) == UNCHANGED <<closed, panicked>>

(* close(c.send); the second close of a channel panics. *)
CloseChan(c) ==
    /\ closed' = closed \cup {c}
    /\ panicked' = (c \in closed)

(* The connection object is garbage once its departure is handled. *)
Departed(c) ==
    /\ ctok' = [ctok EXCEPT ![c] = None]
    /\ closed' = closed \ {c}

Cleared(g, D, v) == [m \in Mid |-> IF m \in D THEN v ELSE g[m]]

(* Mutant: dropMatch leaves the students pointing at the dropped match. *)
FreedNobody(D) == match

(* dropMatch frees the students whose match is dropped ... *)
Freed(D) == [p \in Pid |-> IF match[p] \in D /\ p \in Seats(match[p])
                           THEN None ELSE match[p]]

(* Mutant: a cancelled fixture stays "playing". *)
ReleasedNone(D) == {}

(* ... and makes the fixture of a match without a verdict playable again. *)
Released(D) ==
    {f \in Fixture : /\ status[f] = "playing"
                     /\ \E m \in D : fixture[m] = f /\ phase[m] # "end"}

(* recordFixture for the matches that end now. *)
Recorded(E) ==
    {f \in comp : status[f] = "playing" /\ \E m \in E : fixture[m] = f}

(* The matches E end with a verdict (endMatch), then the students L go back *)
(* to the lobby and the matches D are dropped (dropMatch, cancelMatch).     *)
SettleMatches(E, L, D) ==
    /\ phase'   = Cleared(Cleared(phase, E, "end"), D, "unused")
    /\ ended'   = (ended \cup E) \ D
    /\ match'   = [p \in Pid |-> IF p \in L THEN None ELSE Freed(D)[p]]
    /\ seat'    = Cleared(seat, D, NoSeats)
    /\ fixture' = Cleared(fixture, D, None)
    /\ rematch' = Cleared(rematch, D, {})

(* Mutant: a match that is called off counts as played. *)
SettleFixturesRecordAll(E, D) ==
    /\ status' = [f \in Fixture |-> IF f \in Recorded(E \cup D) THEN "done" ELSE status[f]]
    /\ by'     = [f \in Fixture |-> IF f \in Recorded(E \cup D) THEN "match" ELSE by[f]]

SettleFixtures(E, D) ==
    /\ status' = [f \in Fixture |-> IF f \in Recorded(E) THEN "done"
                                    ELSE IF f \in Released(D \ E) THEN "pending"
                                    ELSE status[f]]
    /\ by'     = [f \in Fixture |-> IF f \in Recorded(E) THEN "match" ELSE by[f]]

Settle(E, L, D) ==
    SettleMatches(E, L, D) /\ SettleFixtures(E, D) /\ UNCHANGED comp

(* startMatch(a, b, ..., f, ...) after the ended matches D were dropped. *)
StartMatch(a, b, f, D) ==
    /\ LeaveLobby({a, b})
    /\ \E m \in Mid :
        /\ FreshMid(m)
        /\ phase'   = [Cleared(phase, D, "unused") EXCEPT ![m] = "live"]
        /\ seat'    = [Cleared(seat, D, NoSeats) EXCEPT ![m][0] = a, ![m][1] = b]
        /\ fixture' = [Cleared(fixture, D, None) EXCEPT ![m] = f]
        /\ rematch' = Cleared(rematch, D, {})
        /\ match'   = [Freed(D) EXCEPT ![a] = m, ![b] = m]
    /\ ended'  = ended \ D
    /\ status' = [g \in Fixture |-> IF g = f THEN "playing" ELSE status[g]]
    /\ UNCHANGED <<subClosed, comp, by>>

-----------------------------------------------------------------------------
(* Connections *)

(* Mutant: the match goes on as soon as anybody is back. *)
ResumeAlone(p) ==
    phase' = [m \in Mid |-> IF m = match[p] /\ phase[m] = "pause"
                            THEN "live" ELSE phase[m]]

(* Match.unpause when the student who is back completes the pair. *)
Resume(p) ==
    phase' = [m \in Mid |-> IF /\ m = match[p] /\ phase[m] = "pause"
                               /\ Online(Other(p, m))
                            THEN "live" ELSE phase[m]]

(* Mutant: the old token of a student who came back stays in the list. *)
RekeyKeepsOld(p, t) ==
    /\ players' = [players EXCEPT ![t] = p]
    /\ token' = [token EXCEPT ![p] = t]

(* The student p goes by the token t from now on. *)
Rekey(p, t) ==
    /\ players' = [players EXCEPT ![token[p]] = None, ![t] = p]
    /\ token' = [token EXCEPT ![p] = t]

(* Mutant: byID filled with the secret instead of the public identifier. *)
EnterByToken(p, t) ==
    /\ players' = [players EXCEPT ![t] = p]
    /\ byID' = byID \cup {t}
    /\ token' = [token EXCEPT ![p] = t]

Enter(p, t) ==
    /\ players' = [players EXCEPT ![t] = p]
    /\ byID' = byID \cup {p}
    /\ token' = [token EXCEPT ![p] = t]

(* onRegister, known token: the student's own tab or a reload of it. *)
RegisterKnown(c, t, k) ==
    LET p == players[t] IN
    /\ p # None
    /\ IF Online(p) THEN CloseChan(pconn[p]) ELSE UNCHANGED <<closed, panicked>>
    /\ pconn' = [pconn EXCEPT ![p] = c]
    /\ key' = [key EXCEPT ![p] = k]
    /\ Resume(p)
    /\ UNCHANGED <<players, byID, token>>

(* onRegister, new token of a student a paused match is waiting for. *)
RegisterReturning(c, t, k) ==
    /\ players[t] = None
    /\ \E p \in Waiting(k) :
        /\ Rekey(p, t)
        /\ pconn' = [pconn EXCEPT ![p] = c]
        /\ Resume(p)
    /\ UNCHANGED <<closed, panicked, byID, key>>

(* onRegister, anybody else: a new student. *)
RegisterNew(c, t, k) ==
    /\ players[t] = None
    /\ Waiting(k) = {}
    /\ \E p \in Pid :
        /\ FreshPid(p)
        /\ Enter(p, t)
        /\ key' = [key EXCEPT ![p] = k]
        /\ pconn' = [pconn EXCEPT ![p] = c]
    /\ UNCHANGED <<closed, panicked, phase>>

Register(c, t, k) ==
    /\ ~panicked /\ ctok[c] = None
    /\ ctok' = [ctok EXCEPT ![c] = t]
    /\ \/ RegisterKnown(c, t, k)
       \/ RegisterReturning(c, t, k)
       \/ RegisterNew(c, t, k)
    /\ UNCHANGED <<lobbyVars, seat, fixture, rematch, match, ended, compVars>>

(* onUnregister of the student's current connection. *)
UnregisterCurrent(c) ==
    LET p == players[ctok[c]] IN
    /\ p # None /\ pconn[p] = c
    /\ panicked' = (c \in closed)
    /\ pconn' = [pconn EXCEPT ![p] = None]
    /\ LeaveLobby({p})
    /\ phase' = [m \in Mid |-> IF m = match[p] /\ phase[m] = "live"
                               THEN "pause" ELSE phase[m]]

(* onUnregister of a connection that a newer one has replaced. *)
UnregisterReplaced(c) ==
    LET p == players[ctok[c]] IN
    /\ p # None /\ pconn[p] # c
    /\ UNCHANGED <<panicked, pconn, rooms, room, invites, phase>>

(* onUnregister of a connection whose token is no longer in the list. *)
UnregisterUnknown(c) ==
    /\ players[ctok[c]] = None
    /\ panicked' = (c \in closed)
    /\ UNCHANGED <<pconn, rooms, room, invites, phase>>

Unregister(c) ==
    /\ ~panicked /\ ctok[c] # None
    /\ Departed(c)
    /\ UnregisterCurrent(c) \/ UnregisterReplaced(c) \/ UnregisterUnknown(c)
    /\ UNCHANGED <<players, byID, token, key, subClosed,
                   seat, fixture, rematch, match, ended, compVars>>

-----------------------------------------------------------------------------
(* The lobby: rooms and invitations *)

(* createRoom: the student's old room is closed first, even when no code is *)
(* left for the new one.                                                    *)
CreateRoom(p) ==
    /\ From(p) /\ match[p] = None /\ ~subClosed
    /\ LET old  == {x \in Code : rooms[x] = p}
           free == {x \in Code : rooms[x] = None} \cup old
       IN  \/ \E x \in free :
               /\ rooms' = [y \in Code |-> IF y = x THEN p
                                           ELSE IF y \in old THEN None ELSE rooms[y]]
               /\ room' = [room EXCEPT ![p] = x]
           \/ CloseRooms({p})
    /\ UNCHANGED <<sessionVars, invites, subClosed, matchVars, compVars>>

(* "cancel" *)
CancelRoom(p) ==
    /\ From(p)
    /\ CloseRooms({p})
    /\ UNCHANGED <<sessionVars, invites, subClosed, matchVars, compVars>>

(* joinRoom: whoever comes in kicks off. *)
JoinRoom(p, x) ==
    /\ From(p) /\ match[p] = None /\ ~subClosed
    /\ rooms[x] \notin {None, p}
    /\ StartMatch(rooms[x], p, None, {})
    /\ UNCHANGED sessionVars

SendInvite(p, to) ==
    /\ From(p) /\ match[p] = None /\ ~subClosed
    /\ to \in byID /\ Online(to) /\ to # p /\ match[to] = None
    /\ invites' = invites \cup {<<to, p>>}
    /\ UNCHANGED <<sessionVars, rooms, room, subClosed, matchVars, compVars>>

(* replyInvite: declined, or no longer possible. *)
DropInvite(p, from) ==
    /\ From(p) /\ from \in byID /\ <<p, from>> \in invites
    /\ invites' = invites \ {<<p, from>>}
    /\ UNCHANGED <<sessionVars, rooms, room, subClosed, matchVars, compVars>>

(* replyInvite: accepted; startMatch removes the invitation with the rest. *)
AcceptInvite(p, from) ==
    /\ From(p) /\ from \in byID /\ <<p, from>> \in invites
    /\ Online(from) /\ match[from] = None
    /\ match[p] = None /\ ~subClosed
    /\ StartMatch(from, p, None, {})
    /\ UNCHANGED sessionVars

-----------------------------------------------------------------------------
(* Matches *)

(* requestRematch: the flag is set even when the opponent has left. *)
AskRematch(p) ==
    LET m == match[p]
        s == SideOf(p, m)
    IN  /\ From(p) /\ m # None /\ phase[m] = "end" /\ fixture[m] = None /\ ~subClosed
        /\ \/ 1 - s \notin rematch[m]
           \/ match[Other(p, m)] # m
           \/ ~Online(Other(p, m))
        /\ rematch' = [rematch EXCEPT ![m] = @ \cup {s}]
        /\ UNCHANGED <<sessionVars, lobbyVars, phase, seat, fixture, match, ended, compVars>>

(* requestRematch by the second of the two: the sides are swapped. *)
AgreeRematch(p) ==
    LET m == match[p]
    IN  /\ From(p) /\ m # None /\ phase[m] = "end" /\ fixture[m] = None /\ ~subClosed
        /\ 1 - SideOf(p, m) \in rematch[m]
        /\ match[Other(p, m)] = m /\ Online(Other(p, m))
        /\ StartMatch(seat[m][1], seat[m][0], None, {m})
        /\ UNCHANGED sessionVars

(* leaveMatch: a waiting student calls a paused match off, leaving a match *)
(* that is being played forfeits it, and the last one to leave an ended    *)
(* match drops it.                                                         *)
LeaveMatch(p) ==
    LET m     == match[p]
        alone == match[Other(p, m)] # m
    IN  /\ From(p) /\ m # None
        /\ CASE phase[m] = "pause" -> Settle({}, {}, {m})
             [] phase[m] = "live"  -> Settle({m}, {p}, IF alone THEN {m} ELSE {})
             [] OTHER              -> Settle({}, {p}, IF alone THEN {m} ELSE {})
        /\ UNCHANGED <<sessionVars, lobbyVars>>

-----------------------------------------------------------------------------
(* onTick: E, the matches the rules end in this tick; O, those whose end    *)
(* screen has lingered for too long; G, those both students have been away  *)
(* from for too long; I, the expired invitations; F, the absent students to *)
(* forget.  The sweep of the students comes after the matches.              *)
Tick ==
    \E E \in SUBSET {m \in Mid : phase[m] = "live"},
       O \in SUBSET {m \in Mid : phase[m] = "end"},
       G \in SUBSET {m \in Mid : phase[m] = "pause" /\ \A p \in Seats(m) : ~Online(p)},
       I \in SUBSET invites :
        /\ ~panicked
        /\ Settle(E, {}, O \cup G \cup {m \in Mid : phase[m] = "end" /\ m \notin ended})
        /\ invites' = invites \ I
        /\ \E F \in SUBSET {p \in byID : ~Online(p) /\ match'[p] = None} :
            /\ byID' = byID \ F
            /\ players' = [t \in Token |-> IF players[t] \in F THEN None ELSE players[t]]
            /\ token' = [p \in Pid |-> IF p \in F THEN None ELSE token[p]]
            /\ key' = [p \in Pid |-> IF p \in F THEN None ELSE key[p]]
        /\ UNCHANGED <<ctok, closed, panicked, pconn, rooms, room, subClosed>>

-----------------------------------------------------------------------------
(* The teacher's commands (onHostMessage) *)

(* Mutant: the end screens of the side arena stay. *)
CloseSubArenaKeepEnded ==
    /\ ~panicked /\ subClosed' = TRUE
    /\ Settle({}, {}, {m \in Unfinished : fixture[m] = None})
    /\ CloseRooms({p \in Pid : \E x \in Code : rooms[x] = p})
    /\ invites' = {}
    /\ UNCHANGED sessionVars

(* closeSubArena: every match without a fixture goes, ended ones included. *)
CloseSubArena ==
    /\ ~panicked /\ subClosed' = TRUE
    /\ Settle({}, {}, {m \in Matches : fixture[m] = None})
    /\ CloseRooms({p \in Pid : \E x \in Code : rooms[x] = p})
    /\ invites' = {}
    /\ UNCHANGED sessionVars

OpenSubArena ==
    /\ ~panicked /\ subClosed' = FALSE
    /\ UNCHANGED <<sessionVars, rooms, room, invites, matchVars, compVars>>

(* compCreate: a league of the students with the keys K, known at the time; *)
(* S are its new fixtures, one for each pair.                               *)
CompCreate(K, S) ==
    /\ ~panicked /\ \A f \in comp : status[f] = "done"
    /\ K \subseteq {key[p] : p \in byID} /\ Cardinality(K) >= 2
    /\ \A f \in S : f \notin comp /\ \A m \in Matches : fixture[m] # f
    /\ \A f \in S : FxA[f] \in K /\ FxB[f] \in K
    /\ \A i, j \in K : i # j =>
        Cardinality({f \in S : {FxA[f], FxB[f]} = {i, j}}) = 1
    /\ comp' = S
    /\ status' = [f \in Fixture |-> IF f \in S THEN "pending" ELSE status[f]]
    /\ by' = [f \in Fixture |-> IF f \in S THEN None ELSE by[f]]
    /\ UNCHANGED <<sessionVars, lobbyVars, matchVars>>

(* compClose: the unfinished fixture matches are cancelled first. *)
CompClose ==
    /\ ~panicked /\ comp # {} /\ comp' = {}
    /\ LET D == {m \in Unfinished : fixture[m] # None}
       IN  SettleMatches({}, {}, D) /\ SettleFixtures({}, D)
    /\ UNCHANGED <<sessionVars, lobbyVars>>

(* compStartFixture: startFixture brings the two students over from the end *)
(* screens they may still be looking at (detachEnded).                      *)
StartFixture(f) ==
    /\ ~panicked /\ f \in comp /\ status[f] = "pending"
    /\ \E a \in OnlinePlayers(FxA[f]), b \in OnlinePlayers(FxB[f]) :
        /\ ~Busy(a) /\ ~Busy(b)
        /\ StartMatch(a, b, f, {m \in {match[a], match[b]} \ {None} :
                                  \A p \in Seats(m) : match[p] = m => p \in {a, b}})
    /\ UNCHANGED sessionVars

(* compDecide: the teacher gives the result of a fixture not being played. *)
Decide(f) ==
    /\ ~panicked /\ f \in comp /\ status[f] = "pending"
    /\ status' = [status EXCEPT ![f] = "done"]
    /\ by' = [by EXCEPT ![f] = "teacher"]
    /\ UNCHANGED <<sessionVars, lobbyVars, matchVars, comp>>

(* compReset of a fixture being played: its match is cancelled. *)
CancelFixture(f) ==
    /\ ~panicked /\ f \in comp /\ status[f] = "playing"
    /\ SettleMatches({}, {}, {m \in Unfinished : fixture[m] = f})
    /\ status' = [status EXCEPT ![f] = "pending"]
    /\ UNCHANGED <<sessionVars, lobbyVars, comp, by>>

(* compReset of a decided fixture (undo). *)
UndoFixture(f) ==
    /\ ~panicked /\ f \in comp /\ status[f] = "done"
    /\ status' = [status EXCEPT ![f] = "pending"]
    /\ by' = [by EXCEPT ![f] = None]
    /\ UNCHANGED <<sessionVars, lobbyVars, matchVars, comp>>

(* The process stops (a panic, the window closed) and is started again: the *)
(* competition file is all that is left, fixtures being played are pending. *)
Restart ==
    /\ ctok' = [c \in Conn |-> None] /\ closed' = {} /\ panicked' = FALSE
    /\ players' = [t \in Token |-> None] /\ byID' = {}
    /\ token' = [p \in Pid |-> None] /\ key' = [p \in Pid |-> None]
    /\ pconn' = [p \in Pid |-> None]
    /\ rooms' = [x \in Code |-> None] /\ room' = [p \in Pid |-> None]
    /\ invites' = {} /\ subClosed' = FALSE
    /\ phase' = [m \in Mid |-> "unused"] /\ seat' = [m \in Mid |-> NoSeats]
    /\ fixture' = [m \in Mid |-> None] /\ rematch' = [m \in Mid |-> {}]
    /\ match' = [p \in Pid |-> None] /\ ended' = {}
    /\ status' = [f \in Fixture |-> IF f \in comp /\ status[f] = "playing"
                                    THEN "pending" ELSE status[f]]
    /\ UNCHANGED <<comp, by>>

-----------------------------------------------------------------------------
StudentStep(p) ==
    \/ CreateRoom(p) \/ CancelRoom(p)
    \/ \E x \in Code : JoinRoom(p, x)
    \/ \E q \in Pid : SendInvite(p, q) \/ DropInvite(p, q) \/ AcceptInvite(p, q)
    \/ AskRematch(p) \/ AgreeRematch(p) \/ LeaveMatch(p)

TeacherStep ==
    \/ CloseSubArena \/ OpenSubArena \/ CompClose
    \/ \E K \in SUBSET Key, S \in SUBSET Fixture : CompCreate(K, S)
    \/ \E f \in Fixture : StartFixture(f) \/ Decide(f) \/ CancelFixture(f) \/ UndoFixture(f)

Next ==
    \/ \E c \in Conn, t \in Token, k \in Key : Register(c, t, k)
    \/ \E c \in Conn : Unregister(c)
    \/ \E p \in Pid : StudentStep(p)
    \/ TeacherStep
    \/ Tick
    \/ Restart

Spec == Init /\ [][Next]_vars

-----------------------------------------------------------------------------
(* Sessions *)

(* The three tables of students agree: a token finds the student who holds *)
(* it, and a forgotten student is nowhere left (onRegister re-keys players *)
(* by hand, onTick deletes from two maps).                                 *)
SessionMaps ==
    \A p \in Pid :
        /\ \A t \in Token : players[t] = p <=> (p \in byID /\ token[p] = t)
        /\ p \in byID => token[p] # None
        /\ p \notin byID => pconn[p] = None /\ match[p] = None /\ room[p] = None

(* A student's current connection is open, so sendTo never sends on a      *)
(* closed channel, and it carries the student's token, so its messages are *)
(* heard; every other connection has been closed, so no open tab is        *)
(* ignored for ever.                                                       *)
HeardOrClosed ==
    /\ \A p \in byID : Online(p) => pconn[p] \notin closed /\ ctok[pconn[p]] = token[p]
    /\ \A c \in Conn : ctok[c] # None /\ c \notin closed => \E p \in byID : pconn[p] = c

-----------------------------------------------------------------------------
(* The lobby *)

(* Hub.rooms and Player.room agree, and whoever comes into a room finds an  *)
(* owner who is connected and free: joinRoom checks neither.                *)
RoomsLinked ==
    /\ \A x \in Code : rooms[x] # None => room[rooms[x]] = x
    /\ \A p \in Pid : room[p] # None => /\ rooms[room[p]] = p
                                        /\ Online(p) /\ match[p] = None
                                        /\ ~subClosed

(* An open invitation is between two different students who are both       *)
(* connected and free: the steps that change that remove it.               *)
InvitesFresh ==
    \A i \in invites :
        /\ i[1] # i[2] /\ ~subClosed
        /\ \A p \in {i[1], i[2]} : p \in byID /\ Online(p) /\ match[p] = None

(* A closed side arena has no match, however it came about. *)
SubClosedQuiet == subClosed => \A m \in Matches : fixture[m] # None

-----------------------------------------------------------------------------
(* Match membership *)

(* A student's match exists and seats the student; an unfinished match      *)
(* holds both its students, so none of them can be put into a second one;   *)
(* an ended match is kept only while somebody is looking at its result, and *)
(* its end screen, and no other match, is timed.                            *)
SeatsHeld ==
    /\ \A p \in Pid : match[p] # None => p \in Seats(match[p])
    /\ \A m \in Unfinished : seat[m][0] # seat[m][1] /\ \A s \in Side :
                                /\ seat[m][s] \in byID
                                /\ match[seat[m][s]] = m
    /\ \A m \in Matches : \E p \in Seats(m) : match[p] = m
    /\ ended = {m \in Mid : phase[m] = "end"}

(* An unfinished match stands still exactly while one of its students is    *)
(* away: it neither runs against an absent student nor stays paused when    *)
(* both are there.                                                          *)
PausedIffAway ==
    \A m \in Unfinished : phase[m] = "pause" <=> \E p \in Seats(m) : ~Online(p)

(* No student is taken from an unfinished match into another one: what they *)
(* were playing has ended or has been called off.                           *)
NotPulledAway ==
    [][\A p \in Pid : match[p] \in Unfinished /\ match'[p] # match[p]
          => match'[p] = None /\ phase'[match[p]] \in {"end", "unused"}]_vars

-----------------------------------------------------------------------------
(* Fixtures *)

(* A fixture is "playing" exactly while one unfinished match plays it, so   *)
(* it neither is started twice nor is stuck without a match; no match plays *)
(* for a competition that is over.                                          *)
FixturePlaying ==
    /\ \A f \in comp : LET of == {m \in Unfinished : fixture[m] = f}
                       IN  Cardinality(of) = (IF status[f] = "playing" THEN 1 ELSE 0)
    /\ \A m \in Unfinished : fixture[m] \in comp \cup {None}

(* A result enters the competition only from a match of that fixture which  *)
(* ends now, was not paused and had both its students connected: calling a  *)
(* paused match off, leaving an end screen, closing the arena, a restart or *)
(* the teacher's reset never count as a result.                             *)
RecordOnlyPlayed ==
    [][\A f \in Fixture : by'[f] = "match" /\ by[f] # "match"
          => \E m \in Mid : /\ fixture[m] = f /\ phase[m] = "live"
                            /\ phase'[m] = "end"
                            /\ \A s \in Side : Online(seat[m][s])]_vars

-----------------------------------------------------------------------------
(* What the program says of itself and does not keep *)

(* The departure of a connection "already replaced by a new connection"     *)
(* (hub.go:211) is ignored: it never kills the process under a match.       *)
NoCrashInMatch == panicked => Unfinished = {}

(* Whoever comes back with the same number and name returns to the match    *)
(* that waits for them (README.md:29-30, MANUAL.md:33): nobody is idle   *)
(* in the lobby while a paused match waits for a student of the same key.   *)
NoStrandedReturn ==
    \A p, q \in byID : Online(q) /\ match[q] = None => p \notin Waiting(key[q])
=============================================================================
