----------------------------- MODULE HubProofs -----------------------------
(***************************************************************************)
(* Proofs about Hub for every choice of its constants: the tables of       *)
(* students, connections, rooms, invitations, matches and fixtures agree   *)
(* in every reachable state.                                               *)
(*                                                                         *)
(* The invariants of Hub need each other: a returning student finds a      *)
(* paused match only because matches hold their students, a room has a     *)
(* connected owner only because the connection tables agree.  HubInv is    *)
(* their conjunction with what is missing to make it inductive.            *)
(***************************************************************************)
EXTENDS Hub, FiniteSetTheorems, TLAPS

(* SessionMaps without the last two tables, which Membership and RoomsLinked *)
(* speak of.                                                                *)
Tables ==
    \A p \in Pid :
        /\ \A t \in Token : players[t] = p <=> (p \in byID /\ token[p] = t)
        /\ p \in byID => token[p] # None
        /\ p \notin byID => pconn[p] = None

(* A closed connection is one whose departure is still to be handled. *)
ClosedKnown == \A c \in closed : ctok[c] # None

(* SeatsHeld seat by seat; also an ended match has two different students. *)
Membership ==
    /\ \A p \in Pid : match[p] # None =>
         /\ p \in byID /\ phase[match[p]] # "unused"
         /\ \E s \in Side : seat[match[p]][s] = p
    /\ \A m \in Matches :
         /\ seat[m][0] \in Pid /\ seat[m][1] \in Pid /\ seat[m][0] # seat[m][1]
         /\ \E s \in Side : match[seat[m][s]] = m
    /\ \A m \in Unfinished : \A s \in Side : match[seat[m][s]] = m
    /\ \A m \in Mid : m \in ended <=> phase[m] = "end"

(* PausedIffAway seat by seat. *)
Paused ==
    \A m \in Unfinished : phase[m] = "pause" <=> \E s \in Side : ~Online(seat[m][s])

(* FixturePlaying without counting. *)
Playing ==
    /\ \A m \in Unfinished : fixture[m] # None =>
         fixture[m] \in comp /\ status[fixture[m]] = "playing"
    /\ \A f \in comp : status[f] = "playing" => \E m \in Unfinished : fixture[m] = f
    /\ \A m, n \in Unfinished : fixture[m] = fixture[n] /\ fixture[m] # None => m = n

HubInv ==
    /\ TypeOK
    /\ Tables /\ HeardOrClosed /\ ClosedKnown
    /\ RoomsLinked /\ InvitesFresh /\ SubClosedQuiet
    /\ Membership /\ Paused /\ Playing

-----------------------------------------------------------------------------
(* None is no connection, token, student, match, code or fixture. *)
LEMMA NoneOutside ==
    /\ None \notin Conn /\ None \notin Token /\ None \notin Key /\ None \notin Pid
    /\ None \notin Mid /\ None \notin Code /\ None \notin Fixture
BY HubAssumption

-----------------------------------------------------------------------------
(* Type correctness *)

LEMMA TypeInit == Init => TypeOK
<1> SUFFICES ASSUME Init PROVE TypeOK
  OBVIOUS
<1> USE DEF Init
<1>1. /\ ctok \in [Conn -> Token \cup {None}] /\ closed \subseteq Conn
      /\ panicked \in BOOLEAN
      /\ players \in [Token -> Pid \cup {None}] /\ byID \subseteq Pid
      /\ token \in [Pid -> Token \cup {None}] /\ key \in [Pid -> Key \cup {None}]
      /\ pconn \in [Pid -> Conn \cup {None}]
  OBVIOUS
<1>2. /\ rooms \in [Code -> Pid \cup {None}] /\ room \in [Pid -> Code \cup {None}]
      /\ invites \subseteq Pid \X Pid /\ subClosed \in BOOLEAN
  OBVIOUS
<1>3. /\ phase \in [Mid -> {"unused", "live", "pause", "end"}]
      /\ seat \in [Mid -> [Side -> Pid \cup {None}]]
      /\ fixture \in [Mid -> Fixture \cup {None}] /\ rematch \in [Mid -> SUBSET Side]
      /\ match \in [Pid -> Mid \cup {None}] /\ ended \subseteq Mid
  BY DEF NoSeats
<1>4. /\ comp \subseteq Fixture
      /\ status \in [Fixture -> {"none", "pending", "playing", "done"}]
      /\ by \in [Fixture -> {None, "match", "teacher"}]
  OBVIOUS
<1> QED
  BY <1>1, <1>2, <1>3, <1>4 DEF TypeOK

LEMMA TypeLeaveLobby ==
    ASSUME TypeOK, NEW S, LeaveLobby(S)
    PROVE  /\ rooms' \in [Code -> Pid \cup {None}] /\ room' \in [Pid -> Code \cup {None}]
           /\ invites' \subseteq Pid \X Pid
BY DEF TypeOK, LeaveLobby, CloseRooms

LEMMA TypeSettleMatches ==
    ASSUME TypeOK, NEW E \in SUBSET Mid, NEW L, NEW D \in SUBSET Mid, SettleMatches(E, L, D)
    PROVE  /\ phase' \in [Mid -> {"unused", "live", "pause", "end"}]
           /\ seat' \in [Mid -> [Side -> Pid \cup {None}]]
           /\ fixture' \in [Mid -> Fixture \cup {None}]
           /\ rematch' \in [Mid -> SUBSET Side]
           /\ match' \in [Pid -> Mid \cup {None}]
           /\ ended' \subseteq Mid
<1>1. NoSeats \in [Side -> Pid \cup {None}]
  BY DEF NoSeats
<1> QED
  BY <1>1 DEF TypeOK, SettleMatches, Cleared, Freed

LEMMA TypeSettleFixtures ==
    ASSUME TypeOK, NEW E, NEW D, SettleFixtures(E, D)
    PROVE  /\ status' \in [Fixture -> {"none", "pending", "playing", "done"}]
           /\ by' \in [Fixture -> {None, "match", "teacher"}]
BY DEF TypeOK, SettleFixtures

LEMMA TypeStartMatch ==
    ASSUME TypeOK, NEW a \in Pid, NEW b \in Pid, NEW f \in Fixture \cup {None},
           NEW D \in SUBSET Mid, StartMatch(a, b, f, D), UNCHANGED sessionVars
    PROVE  TypeOK'
<1>1. NoSeats \in [Side -> Pid \cup {None}]
  BY DEF NoSeats
<1>2. PICK m \in Mid :
        /\ phase'   = [Cleared(phase, D, "unused") EXCEPT ![m] = "live"]
        /\ seat'    = [Cleared(seat, D, NoSeats) EXCEPT ![m][0] = a, ![m][1] = b]
        /\ fixture' = [Cleared(fixture, D, None) EXCEPT ![m] = f]
        /\ rematch' = Cleared(rematch, D, {})
        /\ match'   = [Freed(D) EXCEPT ![a] = m, ![b] = m]
  BY DEF StartMatch
<1>3. Cleared(seat, D, NoSeats) \in [Mid -> [Side -> Pid \cup {None}]]
  BY <1>1 DEF TypeOK, Cleared
<1>4. seat' \in [Mid -> [Side -> Pid \cup {None}]]
  BY <1>2, <1>3 DEF Side
<1>5. /\ phase' \in [Mid -> {"unused", "live", "pause", "end"}]
      /\ fixture' \in [Mid -> Fixture \cup {None}]
      /\ rematch' \in [Mid -> SUBSET Side]
  BY <1>2 DEF TypeOK, Cleared
<1>6. match' \in [Pid -> Mid \cup {None}]
  BY <1>2 DEF TypeOK, Freed
<1>7. /\ ended' \subseteq Mid /\ subClosed' \in BOOLEAN /\ comp' \subseteq Fixture
      /\ status' \in [Fixture -> {"none", "pending", "playing", "done"}]
      /\ by' \in [Fixture -> {None, "match", "teacher"}]
  BY DEF TypeOK, StartMatch
<1>8. LeaveLobby({a, b})
  BY DEF StartMatch
<1> QED
  BY <1>4, <1>5, <1>6, <1>7, <1>8, TypeLeaveLobby DEF TypeOK, sessionVars

LEMMA TypeRegister ==
    ASSUME TypeOK, NEW c \in Conn, NEW t \in Token, NEW k \in Key, Register(c, t, k)
    PROVE  TypeOK'
<1> USE DEF TypeOK
<1>1. ctok' \in [Conn -> Token \cup {None}]
  BY DEF Register
<1>2. UNCHANGED <<rooms, room, invites, subClosed, seat, fixture, rematch, match, ended,
                  comp, status, by>>
  BY DEF Register, lobbyVars, compVars
<1>3. CASE RegisterKnown(c, t, k)
  <2>1. players[t] \in Pid
    BY <1>3 DEF RegisterKnown
  <2>2. phase' \in [Mid -> {"unused", "live", "pause", "end"}]
    BY <1>3 DEF RegisterKnown, Resume
  <2>3. closed' \subseteq Conn /\ panicked' \in BOOLEAN
    <3>1. CASE Online(players[t])
      <4>1. CloseChan(pconn[players[t]]) /\ pconn[players[t]] \in Conn
        BY <1>3, <2>1, <3>1 DEF RegisterKnown, Online
      <4> QED
        BY <4>1 DEF CloseChan
    <3>2. CASE ~Online(players[t])
      BY <1>3, <3>2 DEF RegisterKnown
    <3> QED
      BY <3>1, <3>2
  <2>4. /\ pconn' \in [Pid -> Conn \cup {None}] /\ key' \in [Pid -> Key \cup {None}]
        /\ UNCHANGED <<players, byID, token>>
    BY <1>3, <2>1 DEF RegisterKnown
  <2> QED
    BY <1>1, <1>2, <2>2, <2>3, <2>4
<1>4. CASE RegisterReturning(c, t, k)
  <2>1. PICK p \in Waiting(k) : Rekey(p, t) /\ pconn' = [pconn EXCEPT ![p] = c] /\ Resume(p)
    BY <1>4 DEF RegisterReturning
  <2>2. p \in Pid
    BY DEF Waiting
  <2>3. phase' \in [Mid -> {"unused", "live", "pause", "end"}]
    BY <2>1 DEF Resume
  <2>4. /\ players' \in [Token -> Pid \cup {None}] /\ token' \in [Pid -> Token \cup {None}]
        /\ pconn' \in [Pid -> Conn \cup {None}]
    BY <2>1, <2>2 DEF Rekey
  <2>5. UNCHANGED <<closed, panicked, byID, key>>
    BY <1>4 DEF RegisterReturning
  <2> QED
    BY <1>1, <1>2, <2>3, <2>4, <2>5
<1>5. CASE RegisterNew(c, t, k)
  <2>1. /\ players' \in [Token -> Pid \cup {None}] /\ token' \in [Pid -> Token \cup {None}]
        /\ pconn' \in [Pid -> Conn \cup {None}] /\ key' \in [Pid -> Key \cup {None}]
        /\ byID' \subseteq Pid
    BY <1>5 DEF RegisterNew, Enter
  <2>2. UNCHANGED <<closed, panicked, phase>>
    BY <1>5 DEF RegisterNew
  <2> QED
    BY <1>1, <1>2, <2>1, <2>2
<1> QED
  BY <1>3, <1>4, <1>5 DEF Register

LEMMA TypeUnregister ==
    ASSUME TypeOK, NEW c \in Conn, Unregister(c)
    PROVE  TypeOK'
<1> USE DEF TypeOK
<1>1. ctok' \in [Conn -> Token \cup {None}] /\ closed' \subseteq Conn
  BY DEF Unregister, Departed
<1>2. UNCHANGED <<players, byID, token, key, subClosed, seat, fixture, rematch, match, ended,
                  comp, status, by>>
  BY DEF Unregister, compVars
<1>3. /\ panicked' \in BOOLEAN /\ pconn' \in [Pid -> Conn \cup {None}]
      /\ rooms' \in [Code -> Pid \cup {None}] /\ room' \in [Pid -> Code \cup {None}]
      /\ invites' \subseteq Pid \X Pid
      /\ phase' \in [Mid -> {"unused", "live", "pause", "end"}]
  <2>1. CASE UnregisterCurrent(c)
    <3>1. panicked' = (c \in closed) /\ LeaveLobby({players[ctok[c]]})
      BY <2>1 DEF UnregisterCurrent
    <3>2. panicked' \in BOOLEAN
      BY <3>1
    <3>3. /\ pconn' \in [Pid -> Conn \cup {None}]
          /\ phase' \in [Mid -> {"unused", "live", "pause", "end"}]
      BY <2>1 DEF UnregisterCurrent
    <3> QED
      BY <3>1, <3>2, <3>3, TypeLeaveLobby
  <2>2. CASE UnregisterReplaced(c)
    BY <2>2 DEF UnregisterReplaced
  <2>3. CASE UnregisterUnknown(c)
    <3>1. panicked' = (c \in closed) /\ UNCHANGED <<pconn, rooms, room, invites, phase>>
      BY <2>3 DEF UnregisterUnknown
    <3>2. panicked' \in BOOLEAN
      BY <3>1
    <3> QED
      BY <3>1, <3>2
  <2> QED
    BY <2>1, <2>2, <2>3 DEF Unregister
<1> QED
  BY <1>1, <1>2, <1>3

LEMMA TypeStudentStep ==
    ASSUME TypeOK, Membership, NEW p \in Pid, StudentStep(p)
    PROVE  TypeOK'
<1>1. CASE CreateRoom(p) \/ CancelRoom(p)
  <2>1. rooms' \in [Code -> Pid \cup {None}] /\ room' \in [Pid -> Code \cup {None}]
    BY <1>1 DEF CreateRoom, CancelRoom, CloseRooms, TypeOK
  <2> QED
    BY <1>1, <2>1 DEF CreateRoom, CancelRoom, TypeOK, sessionVars, matchVars, compVars
<1>2. ASSUME NEW x \in Code, JoinRoom(p, x) PROVE TypeOK'
  <2>1. rooms[x] \in Pid
    BY <1>2 DEF JoinRoom, TypeOK
  <2> QED
    BY <1>2, <2>1, TypeStartMatch DEF JoinRoom
<1>3. ASSUME NEW q \in Pid, SendInvite(p, q) \/ DropInvite(p, q) PROVE TypeOK'
  BY <1>3 DEF SendInvite, DropInvite, TypeOK, sessionVars, matchVars, compVars
<1>4. ASSUME NEW q \in Pid, AcceptInvite(p, q) PROVE TypeOK'
  BY <1>4, TypeStartMatch DEF AcceptInvite
<1>5. CASE AskRematch(p)
  <2>1. match[p] \in Mid
    BY <1>5 DEF AskRematch, TypeOK
  <2>2. rematch' \in [Mid -> SUBSET Side]
    BY <1>5, <2>1 DEF AskRematch, TypeOK, SideOf, Side
  <2> QED
    BY <1>5, <2>2 DEF AskRematch, TypeOK, sessionVars, lobbyVars, compVars
<1>6. CASE AgreeRematch(p)
  <2>1. match[p] \in Mid
    BY <1>6 DEF AgreeRematch, TypeOK
  <2>2. seat[match[p]][0] \in Pid /\ seat[match[p]][1] \in Pid
    BY <1>6, <2>1 DEF AgreeRematch, Membership, Matches
  <2> QED
    BY <1>6, <2>1, <2>2, TypeStartMatch DEF AgreeRematch
<1>7. CASE LeaveMatch(p)
  <2>1. match[p] \in Mid
    BY <1>7 DEF LeaveMatch, TypeOK
  <2>2. PICK E \in SUBSET Mid, L \in SUBSET Pid, D \in SUBSET Mid : Settle(E, L, D)
    BY <1>7, <2>1 DEF LeaveMatch
  <2> QED
    BY <1>7, <2>2, TypeSettleMatches, TypeSettleFixtures
       DEF LeaveMatch, Settle, TypeOK, sessionVars, lobbyVars
<1> QED
  BY <1>1, <1>2, <1>3, <1>4, <1>5, <1>6, <1>7 DEF StudentStep

LEMMA TypeTeacherStep ==
    ASSUME TypeOK, TeacherStep
    PROVE  TypeOK'
<1>1. CASE CloseSubArena
  <2>1. PICK D \in SUBSET Mid : Settle({}, {}, D)
    BY <1>1 DEF CloseSubArena, Matches
  <2>2. /\ rooms' \in [Code -> Pid \cup {None}] /\ room' \in [Pid -> Code \cup {None}]
        /\ invites' \subseteq Pid \X Pid /\ subClosed' \in BOOLEAN
    BY <1>1 DEF CloseSubArena, CloseRooms, TypeOK
  <2> QED
    BY <1>1, <2>1, <2>2, TypeSettleMatches, TypeSettleFixtures
       DEF CloseSubArena, Settle, TypeOK, sessionVars
<1>2. CASE OpenSubArena
  BY <1>2 DEF OpenSubArena, TypeOK, sessionVars, matchVars, compVars
<1>3. CASE CompClose
  <2>1. PICK D \in SUBSET Mid : SettleMatches({}, {}, D) /\ SettleFixtures({}, D)
    BY <1>3 DEF CompClose, Unfinished
  <2> QED
    BY <1>3, <2>1, TypeSettleMatches, TypeSettleFixtures
       DEF CompClose, TypeOK, sessionVars, lobbyVars
<1>4. ASSUME NEW K \in SUBSET Key, NEW S \in SUBSET Fixture, CompCreate(K, S) PROVE TypeOK'
  BY <1>4 DEF CompCreate, TypeOK, sessionVars, lobbyVars, matchVars
<1>5. ASSUME NEW f \in Fixture, StartFixture(f) PROVE TypeOK'
  <2>1. PICK a \in Pid, b \in Pid, D \in SUBSET Mid : StartMatch(a, b, f, D)
    BY <1>5 DEF StartFixture, OnlinePlayers, TypeOK
  <2> QED
    BY <1>5, <2>1, TypeStartMatch DEF StartFixture
<1>6. ASSUME NEW f \in Fixture, Decide(f) \/ UndoFixture(f) PROVE TypeOK'
  BY <1>6 DEF Decide, UndoFixture, TypeOK, sessionVars, lobbyVars, matchVars
<1>7. ASSUME NEW f \in Fixture, CancelFixture(f) PROVE TypeOK'
  <2>1. PICK D \in SUBSET Mid : SettleMatches({}, {}, D)
    BY <1>7 DEF CancelFixture, Unfinished
  <2>2. status' \in [Fixture -> {"none", "pending", "playing", "done"}]
    BY <1>7 DEF CancelFixture, TypeOK
  <2> QED
    BY <1>7, <2>1, <2>2, TypeSettleMatches DEF CancelFixture, TypeOK, sessionVars, lobbyVars
<1> QED
  BY <1>1, <1>2, <1>3, <1>4, <1>5, <1>6, <1>7 DEF TeacherStep

LEMMA TypeTick ==
    ASSUME TypeOK, Tick
    PROVE  TypeOK'
<1>1. PICK E \in SUBSET Mid, D \in SUBSET Mid : Settle(E, {}, D)
  BY DEF Tick
<1>2. /\ invites' \subseteq Pid \X Pid /\ byID' \subseteq Pid
      /\ players' \in [Token -> Pid \cup {None}]
      /\ token' \in [Pid -> Token \cup {None}]
      /\ key' \in [Pid -> Key \cup {None}]
  BY DEF Tick, TypeOK
<1>3. UNCHANGED <<ctok, closed, panicked, pconn, rooms, room, subClosed>>
  BY DEF Tick
<1> QED
  BY <1>1, <1>2, <1>3, TypeSettleMatches, TypeSettleFixtures DEF Settle, TypeOK

LEMMA TypeRestart ==
    ASSUME TypeOK, Restart
    PROVE  TypeOK'
<1>1. /\ ctok' \in [Conn -> Token \cup {None}] /\ closed' \subseteq Conn
      /\ panicked' \in BOOLEAN
      /\ players' \in [Token -> Pid \cup {None}] /\ byID' \subseteq Pid
      /\ token' \in [Pid -> Token \cup {None}] /\ key' \in [Pid -> Key \cup {None}]
      /\ pconn' \in [Pid -> Conn \cup {None}]
  BY DEF Restart
<1>2. /\ rooms' \in [Code -> Pid \cup {None}] /\ room' \in [Pid -> Code \cup {None}]
      /\ invites' \subseteq Pid \X Pid /\ subClosed' \in BOOLEAN
  BY DEF Restart
<1>3. /\ phase' \in [Mid -> {"unused", "live", "pause", "end"}]
      /\ seat' \in [Mid -> [Side -> Pid \cup {None}]]
      /\ fixture' \in [Mid -> Fixture \cup {None}] /\ rematch' \in [Mid -> SUBSET Side]
      /\ match' \in [Pid -> Mid \cup {None}] /\ ended' \subseteq Mid
  BY DEF Restart, NoSeats
<1>4. /\ comp' \subseteq Fixture
      /\ status' \in [Fixture -> {"none", "pending", "playing", "done"}]
      /\ by' \in [Fixture -> {None, "match", "teacher"}]
  BY DEF Restart, TypeOK
<1> QED
  BY <1>1, <1>2, <1>3, <1>4 DEF TypeOK

LEMMA TypeNext ==
    ASSUME TypeOK, Membership, [Next]_vars
    PROVE  TypeOK'
<1>1. CASE UNCHANGED vars
  BY <1>1 DEF TypeOK, vars, sessionVars, lobbyVars, matchVars, compVars
<1> QED
  BY <1>1, TypeRegister, TypeUnregister, TypeStudentStep, TypeTeacherStep, TypeTick,
     TypeRestart DEF Next

-----------------------------------------------------------------------------
(* Students and connections *)

Sessions == Tables /\ HeardOrClosed /\ ClosedKnown

LEMMA SessionsKnown ==
    ASSUME TypeOK, Sessions, NEW c \in Conn, NEW t \in Token, NEW k \in Key,
           ctok[c] = None, ctok' = [ctok EXCEPT ![c] = t], RegisterKnown(c, t, k)
    PROVE  Sessions'
<1> DEFINE p == players[t]
<1>1. p \in Pid /\ p \in byID /\ token[p] = t
  BY DEF TypeOK, Sessions, Tables, RegisterKnown
<1>2. UNCHANGED <<players, byID, token>> /\ pconn' = [pconn EXCEPT ![p] = c]
  BY DEF RegisterKnown
<1>3. closed' = IF pconn[p] # None THEN closed \cup {pconn[p]} ELSE closed
  BY DEF RegisterKnown, Online, CloseChan
<1>4. Tables'
  BY <1>1, <1>2 DEF TypeOK, Sessions, Tables
<1>5. c \notin closed /\ \A q \in Pid : pconn[q] # c
  BY NoneOutside DEF TypeOK, Sessions, Tables, HeardOrClosed, ClosedKnown, Online
<1>6. \A q \in Pid : q # p /\ pconn[q] # None => pconn[q] # pconn[p]
  BY <1>1, NoneOutside DEF TypeOK, Sessions, Tables, HeardOrClosed, Online
<1>7. ASSUME NEW q \in byID, pconn'[q] # None
      PROVE  pconn'[q] \notin closed' /\ ctok'[pconn'[q]] = token'[q]
  <2>1. CASE q = p
    BY <1>1, <1>2, <1>3, <1>5, <2>1 DEF TypeOK
  <2>2. CASE q # p
    BY <1>1, <1>2, <1>3, <1>5, <1>6, <1>7, <2>2 DEF TypeOK, Sessions, HeardOrClosed, Online
  <2> QED
    BY <2>1, <2>2
<1>8. ASSUME NEW d \in Conn, ctok'[d] # None, d \notin closed'
      PROVE  \E q \in byID' : pconn'[q] = d
  <2>1. CASE d = c
    BY <1>1, <1>2, <2>1 DEF TypeOK
  <2>2. CASE d # c
    <3>1. PICK q \in byID : pconn[q] = d
      BY <1>3, <1>8, <2>2 DEF TypeOK, Sessions, HeardOrClosed
    <3>2. q # p
      BY <1>3, <1>8, <3>1, NoneOutside
    <3> QED
      BY <1>2, <3>1, <3>2 DEF TypeOK
  <2> QED
    BY <2>1, <2>2
<1>9. ClosedKnown'
  BY <1>1, <1>3, <1>5 DEF TypeOK, Sessions, HeardOrClosed, ClosedKnown, Online, Tables
<1> QED
  BY <1>2, <1>4, <1>7, <1>8, <1>9 DEF Sessions, HeardOrClosed, Online

LEMMA SessionsReturning ==
    ASSUME TypeOK, Sessions, NEW c \in Conn, NEW t \in Token, NEW k \in Key,
           ctok[c] = None, ctok' = [ctok EXCEPT ![c] = t], RegisterReturning(c, t, k)
    PROVE  Sessions'
<1>1. PICK p \in Waiting(k) : Rekey(p, t) /\ pconn' = [pconn EXCEPT ![p] = c]
  BY DEF RegisterReturning
<1>2. p \in Pid /\ p \in byID /\ pconn[p] = None /\ token[p] \in Token /\ players[t] = None
  BY DEF TypeOK, Sessions, Tables, Waiting, RegisterReturning
<1>3. UNCHANGED <<closed, byID>>
  BY DEF RegisterReturning
<1>4. /\ players' = [players EXCEPT ![token[p]] = None, ![t] = p]
      /\ token' = [token EXCEPT ![p] = t]
  BY <1>1 DEF Rekey
<1>5. Tables'
  <2>1. ASSUME NEW q \in Pid, NEW u \in Token
        PROVE  players'[u] = q <=> (q \in byID /\ token'[q] = u)
    BY <1>2, <1>4, NoneOutside DEF TypeOK, Sessions, Tables
  <2> QED
    BY <1>1, <1>2, <1>3, <1>4, <2>1, NoneOutside DEF TypeOK, Sessions, Tables
<1>6. c \notin closed /\ \A q \in Pid : pconn[q] # c
  BY NoneOutside DEF TypeOK, Sessions, Tables, HeardOrClosed, ClosedKnown, Online
<1>7. HeardOrClosed'
  <2>1. ASSUME NEW q \in byID, pconn'[q] # None
        PROVE  pconn'[q] \notin closed /\ ctok'[pconn'[q]] = token'[q]
    BY <1>1, <1>2, <1>4, <1>6, <2>1 DEF TypeOK, Sessions, HeardOrClosed, Online
  <2>2. ASSUME NEW d \in Conn, ctok'[d] # None, d \notin closed
        PROVE  \E q \in byID : pconn'[q] = d
    <3>1. CASE d = c
      BY <1>1, <1>2, <3>1 DEF TypeOK
    <3>2. CASE d # c
      BY <1>1, <1>2, <2>2, <3>2, NoneOutside DEF TypeOK, Sessions, HeardOrClosed
    <3> QED
      BY <3>1, <3>2
  <2> QED
    BY <1>3, <2>1, <2>2 DEF HeardOrClosed, Online
<1>8. ClosedKnown'
  BY <1>3, NoneOutside DEF TypeOK, Sessions, ClosedKnown
<1> QED
  BY <1>5, <1>7, <1>8 DEF Sessions

LEMMA SessionsNew ==
    ASSUME TypeOK, Sessions, NEW c \in Conn, NEW t \in Token, NEW k \in Key,
           ctok[c] = None, ctok' = [ctok EXCEPT ![c] = t], RegisterNew(c, t, k)
    PROVE  Sessions'
<1>1. PICK p \in Pid : FreshPid(p) /\ Enter(p, t) /\ pconn' = [pconn EXCEPT ![p] = c]
  BY DEF RegisterNew
<1>2. p \notin byID /\ pconn[p] = None /\ players[t] = None
  BY <1>1 DEF Sessions, Tables, FreshPid, RegisterNew
<1>3. /\ players' = [players EXCEPT ![t] = p] /\ byID' = byID \cup {p}
      /\ token' = [token EXCEPT ![p] = t] /\ UNCHANGED closed
  BY <1>1 DEF Enter, RegisterNew
<1>4. Tables'
  BY <1>1, <1>2, <1>3, NoneOutside DEF TypeOK, Sessions, Tables
<1>5. c \notin closed /\ \A q \in Pid : pconn[q] # c
  BY NoneOutside DEF TypeOK, Sessions, Tables, HeardOrClosed, ClosedKnown, Online
<1>6. HeardOrClosed'
  <2>1. ASSUME NEW q \in byID \cup {p}, pconn'[q] # None
        PROVE  pconn'[q] \notin closed /\ ctok'[pconn'[q]] = token'[q]
    BY <1>1, <1>3, <1>5, <2>1 DEF TypeOK, Sessions, HeardOrClosed, Online
  <2>2. ASSUME NEW d \in Conn, ctok'[d] # None, d \notin closed
        PROVE  \E q \in byID \cup {p} : pconn'[q] = d
    <3>1. CASE d = c
      BY <1>1, <3>1 DEF TypeOK
    <3>2. CASE d # c
      BY <1>1, <1>2, <2>2, <3>2, NoneOutside DEF TypeOK, Sessions, HeardOrClosed
    <3> QED
      BY <3>1, <3>2
  <2> QED
    BY <1>3, <2>1, <2>2 DEF HeardOrClosed, Online
<1>7. ClosedKnown'
  BY <1>3, NoneOutside DEF TypeOK, Sessions, ClosedKnown
<1> QED
  BY <1>4, <1>6, <1>7 DEF Sessions

LEMMA SessionsUnregister ==
    ASSUME TypeOK, Sessions, NEW c \in Conn, Unregister(c)
    PROVE  Sessions'
<1>1. /\ ctok[c] \in Token /\ ctok' = [ctok EXCEPT ![c] = None] /\ closed' = closed \ {c}
      /\ UNCHANGED <<players, byID, token>>
  BY DEF TypeOK, Unregister, Departed
<1>2. /\ pconn' \in [Pid -> Conn \cup {None}]
      /\ \A q \in Pid : pconn'[q] = IF pconn[q] = c THEN None ELSE pconn[q]
  <2>1. \A q \in Pid : pconn[q] = c => q \in byID /\ players[ctok[c]] = q
    BY <1>1, NoneOutside DEF TypeOK, Sessions, Tables, HeardOrClosed, Online
  <2>2. CASE UnregisterCurrent(c)
    BY <2>1, <2>2 DEF TypeOK, UnregisterCurrent
  <2>3. CASE UnregisterReplaced(c) \/ UnregisterUnknown(c)
    BY <2>1, <2>3, NoneOutside DEF TypeOK, UnregisterReplaced, UnregisterUnknown
  <2> QED
    BY <2>2, <2>3 DEF Unregister
<1>3. Tables'
  BY <1>1, <1>2, NoneOutside DEF TypeOK, Sessions, Tables
<1>4. HeardOrClosed'
  <2>1. ASSUME NEW q \in byID, pconn'[q] # None
        PROVE  pconn'[q] \notin closed' /\ ctok'[pconn'[q]] = token[q]
    BY <1>1, <1>2, <2>1 DEF TypeOK, Sessions, HeardOrClosed, Online
  <2>2. ASSUME NEW d \in Conn, ctok'[d] # None, d \notin closed'
        PROVE  \E q \in byID : pconn'[q] = d
    BY <1>1, <1>2, <2>2 DEF TypeOK, Sessions, HeardOrClosed
  <2> QED
    BY <1>1, <2>1, <2>2 DEF HeardOrClosed, Online
<1>5. ClosedKnown'
  BY <1>1 DEF TypeOK, Sessions, ClosedKnown
<1> QED
  BY <1>3, <1>4, <1>5 DEF Sessions

LEMMA SessionsTick ==
    ASSUME TypeOK, Sessions, Tick
    PROVE  Sessions'
<1>1. PICK F \in SUBSET {p \in byID : ~Online(p) /\ match'[p] = None} :
        /\ byID' = byID \ F
        /\ players' = [t \in Token |-> IF players[t] \in F THEN None ELSE players[t]]
        /\ token' = [p \in Pid |-> IF p \in F THEN None ELSE token[p]]
  BY DEF Tick
<1>2. UNCHANGED <<ctok, closed, pconn>>
  BY DEF Tick
<1>3. \A p \in F : p \in Pid /\ pconn[p] = None
  BY DEF TypeOK, Online
<1>4. Tables'
  BY <1>1, <1>2, <1>3, NoneOutside DEF TypeOK, Sessions, Tables
<1>5. HeardOrClosed' /\ ClosedKnown'
  BY <1>1, <1>2, <1>3, NoneOutside
     DEF TypeOK, Sessions, Tables, HeardOrClosed, ClosedKnown, Online
<1> QED
  BY <1>4, <1>5 DEF Sessions

(* No registration closes a channel twice. *)
LEMMA RegisterHarmless ==
    ASSUME TypeOK, Sessions, NEW c \in Conn, NEW t \in Token, NEW k \in Key,
           Register(c, t, k)
    PROVE  ~panicked'
<1>1. CASE RegisterKnown(c, t, k)
  <2>1. players[t] \in byID
    BY <1>1 DEF TypeOK, RegisterKnown, Sessions, Tables
  <2>2. CASE Online(players[t])
    <3>1. pconn[players[t]] \notin closed
      BY <2>1, <2>2 DEF Sessions, HeardOrClosed
    <3> QED
      BY <1>1, <2>2, <3>1 DEF RegisterKnown, CloseChan
  <2>3. CASE ~Online(players[t])
    BY <1>1, <2>3 DEF RegisterKnown, Register
  <2> QED
    BY <2>2, <2>3
<1>2. CASE RegisterReturning(c, t, k) \/ RegisterNew(c, t, k)
  BY <1>2 DEF RegisterReturning, RegisterNew, Register
<1> QED
  BY <1>1, <1>2 DEF Register

(* A departure closes a channel twice exactly when the token of the         *)
(* connection is not in the list any more.                                  *)
LEMMA UnregisterHarm ==
    ASSUME TypeOK, Sessions, NEW c \in Conn, Unregister(c)
    PROVE  panicked' <=> players[ctok[c]] = None
<1>1. ctok[c] \in Token /\ ~panicked
  BY DEF TypeOK, Unregister
<1>2. CASE UnregisterCurrent(c)
  <2>1. players[ctok[c]] \in byID /\ pconn[players[ctok[c]]] = c
    BY <1>1, <1>2 DEF TypeOK, Sessions, Tables, UnregisterCurrent
  <2>2. c \notin closed
    BY <2>1, NoneOutside DEF Sessions, HeardOrClosed, Online
  <2> QED
    BY <1>2, <2>2 DEF UnregisterCurrent
<1>3. CASE UnregisterReplaced(c)
  BY <1>1, <1>3 DEF UnregisterReplaced
<1>4. CASE UnregisterUnknown(c)
  <2>1. c \in closed
    <3>1. SUFFICES ASSUME c \notin closed PROVE FALSE
      OBVIOUS
    <3>2. PICK q \in byID : pconn[q] = c
      BY <1>1, <3>1, NoneOutside DEF Sessions, HeardOrClosed
    <3>3. q \in Pid /\ token[q] = ctok[c] /\ players[ctok[c]] = q
      BY <1>1, <3>2, NoneOutside DEF TypeOK, Sessions, Tables, HeardOrClosed, Online
    <3> QED
      BY <1>4, <3>3, NoneOutside DEF UnregisterUnknown
  <2> QED
    BY <1>4, <2>1 DEF UnregisterUnknown
<1> QED
  BY <1>2, <1>3, <1>4 DEF Unregister

-----------------------------------------------------------------------------
(* The lobby *)

(* Nobody outside S loses the connection, is forgotten or enters a match. *)
FreeOutside(S) ==
    \A p \in Pid \ S : /\ Online(p) => Online(p)' /\ (p \in byID => p \in byID')
                       /\ match[p] = None => match'[p] = None

LEMMA LobbyKept ==
    ASSUME TypeOK, RoomsLinked, InvitesFresh, FreeOutside({}),
           UNCHANGED <<rooms, room, subClosed>>, invites' \subseteq invites
    PROVE  RoomsLinked' /\ InvitesFresh'
<1>1. RoomsLinked'
  BY NoneOutside DEF TypeOK, RoomsLinked, FreeOutside
<1>2. InvitesFresh'
  BY DEF TypeOK, InvitesFresh, FreeOutside
<1> QED
  BY <1>1, <1>2

LEMMA LobbyLeft ==
    ASSUME TypeOK, RoomsLinked, InvitesFresh, NEW S \in SUBSET Pid, FreeOutside(S),
           LeaveLobby(S), UNCHANGED subClosed
    PROVE  RoomsLinked' /\ InvitesFresh'
<1>1. RoomsLinked'
  BY NoneOutside DEF TypeOK, RoomsLinked, FreeOutside, LeaveLobby, CloseRooms
<1>2. InvitesFresh'
  BY DEF TypeOK, InvitesFresh, FreeOutside, LeaveLobby
<1> QED
  BY <1>1, <1>2

LEMMA LobbyCreateRoom ==
    ASSUME TypeOK, RoomsLinked, NEW p \in Pid, CreateRoom(p)
    PROVE  RoomsLinked'
<1>1. Online(p) /\ match[p] = None /\ ~subClosed
  BY NoneOutside DEF CreateRoom, From, Online
<1>2. UNCHANGED <<pconn, match, subClosed>>
  BY DEF CreateRoom, sessionVars, matchVars
<1>3. CASE CloseRooms({p})
  BY <1>2, <1>3, NoneOutside DEF TypeOK, RoomsLinked, CloseRooms, Online
<1>4. ASSUME NEW x \in Code, rooms[x] = None \/ rooms[x] = p,
             rooms' = [y \in Code |-> IF y = x THEN p
                                      ELSE IF rooms[y] = p THEN None ELSE rooms[y]],
             room' = [room EXCEPT ![p] = x]
      PROVE  RoomsLinked'
  BY <1>1, <1>2, <1>4, NoneOutside DEF TypeOK, RoomsLinked, Online
<1>5. \/ CloseRooms({p})
      \/ \E x \in Code : /\ rooms[x] = None \/ rooms[x] = p
                         /\ rooms' = [y \in Code |-> IF y = x THEN p
                                      ELSE IF rooms[y] = p THEN None ELSE rooms[y]]
                         /\ room' = [room EXCEPT ![p] = x]
  BY DEF CreateRoom
<1> QED
  BY <1>3, <1>4, <1>5

LEMMA LobbyCloseSubArena ==
    ASSUME TypeOK, RoomsLinked, CloseSubArena
    PROVE  RoomsLinked' /\ InvitesFresh'
<1>1. CloseRooms({p \in Pid : \E x \in Code : rooms[x] = p}) /\ invites' = {}
  BY DEF CloseSubArena
<1>2. \A x \in Code : rooms'[x] = None
  BY <1>1 DEF TypeOK, CloseRooms
<1>3. \A p \in Pid : room'[p] = None
  BY <1>1 DEF TypeOK, CloseRooms, RoomsLinked
<1> QED
  BY <1>1, <1>2, <1>3 DEF RoomsLinked, InvitesFresh

-----------------------------------------------------------------------------
(* Matches that end, are left or are dropped *)

(* What every handler that settles matches has made sure of: only matches   *)
(* being played end, those dropped exist, and whoever goes back to the      *)
(* lobby leaves an ended match, the last one to leave dropping it.          *)
SettleOK(E, L, D) ==
    /\ \A m \in E : phase[m] = "live" /\ m \notin D
    /\ \A m \in D : phase[m] # "unused"
    /\ \A p \in L : LET m == match[p] IN
         /\ m \in Mid /\ (phase[m] = "end" \/ m \in E)
         /\ m \in D \/ \E s \in Side : seat[m][s] \notin L /\ match[seat[m][s]] = m

LEMMA FreedMembers ==
    ASSUME TypeOK, Membership, NEW D, NEW p \in Pid
    PROVE  Freed(D)[p] = IF match[p] # None /\ match[p] \in D THEN None ELSE match[p]
<1>1. match[p] # None => p \in Seats(match[p])
  BY NoneOutside DEF TypeOK, Membership, Seats
<1> QED
  BY <1>1 DEF Freed

LEMMA SettleEffect ==
    ASSUME TypeOK, Membership, NEW E \in SUBSET Mid, NEW L \in SUBSET Pid,
           NEW D \in SUBSET Mid, SettleOK(E, L, D), SettleMatches(E, L, D)
    PROVE  /\ \A m \in Mid : /\ phase'[m] = IF m \in D THEN "unused"
                                            ELSE IF m \in E THEN "end" ELSE phase[m]
                             /\ m \notin D => seat'[m] = seat[m] /\ fixture'[m] = fixture[m]
           /\ \A p \in Pid : match'[p] = IF p \in L \/ (match[p] # None /\ match[p] \in D)
                                         THEN None ELSE match[p]
           /\ ended' = (ended \cup E) \ D
<1>1. \A p \in Pid : match'[p] = IF p \in L THEN None ELSE Freed(D)[p]
  BY DEF SettleMatches
<1>2. \A p \in Pid : match'[p] = IF p \in L \/ (match[p] # None /\ match[p] \in D)
                                 THEN None ELSE match[p]
  BY <1>1, FreedMembers
<1> QED
  BY <1>2 DEF SettleMatches, Cleared

LEMMA SettleMembership ==
    ASSUME TypeOK, Membership, NEW E \in SUBSET Mid, NEW L \in SUBSET Pid,
           NEW D \in SUBSET Mid, SettleOK(E, L, D), SettleMatches(E, L, D),
           \A p \in byID : match'[p] # None => p \in byID'
    PROVE  Membership'
<1> DEFINE Left(p) == p \in L \/ (match[p] # None /\ match[p] \in D)
<1>1. /\ \A m \in Mid : /\ phase'[m] = IF m \in D THEN "unused"
                                       ELSE IF m \in E THEN "end" ELSE phase[m]
                        /\ m \notin D => seat'[m] = seat[m]
      /\ \A p \in Pid : match'[p] = IF Left(p) THEN None ELSE match[p]
      /\ ended' = (ended \cup E) \ D
  BY SettleEffect
<1> HIDE DEF Left
<1>2. ASSUME NEW p \in Pid, match'[p] # None
      PROVE  /\ p \in byID' /\ phase'[match'[p]] # "unused"
             /\ \E s \in Side : seat'[match'[p]][s] = p
  <2>1. match'[p] = match[p] /\ match[p] \in Mid /\ match[p] \notin D
    BY <1>1, <1>2 DEF TypeOK, Left
  <2> QED
    BY <1>1, <1>2, <2>1 DEF TypeOK, Membership
<1>3. ASSUME NEW m \in Mid, phase'[m] # "unused"
      PROVE  /\ seat'[m][0] \in Pid /\ seat'[m][1] \in Pid /\ seat'[m][0] # seat'[m][1]
             /\ \E s \in Side : match'[seat'[m][s]] = m
  <2>1. m \notin D /\ phase[m] # "unused" /\ seat'[m] = seat[m]
    BY <1>1, <1>3 DEF SettleOK
  <2>2. /\ seat[m][0] \in Pid /\ seat[m][1] \in Pid /\ seat[m][0] # seat[m][1]
    BY <2>1 DEF Membership, Matches
  <2>3. PICK s \in Side : match[seat[m][s]] = m
    BY <2>1 DEF Membership, Matches
  <2>4. seat[m][s] \in Pid
    BY <2>2, <2>3 DEF Side
  <2>5. \E r \in Side : seat[m][r] \notin L /\ match[seat[m][r]] = m
    BY <2>1, <2>3, <2>4 DEF SettleOK
  <2>6. \E r \in Side : match'[seat[m][r]] = m
    BY <1>1, <2>1, <2>2, <2>5 DEF Left, Side
  <2> QED
    BY <2>1, <2>2, <2>6
<1>4. ASSUME NEW m \in Mid, phase'[m] \in {"live", "pause"}, NEW s \in Side
      PROVE  match'[seat'[m][s]] = m
  <2>1. m \notin D /\ m \notin E /\ phase'[m] = phase[m] /\ seat'[m] = seat[m]
    BY <1>1, <1>4
  <2>2. seat[m][s] \in Pid /\ match[seat[m][s]] = m
    BY <1>4, <2>1 DEF Membership, Matches, Unfinished, Side
  <2>3. ~Left(seat[m][s])
    BY <1>4, <2>1, <2>2 DEF Left, SettleOK
  <2> QED
    BY <1>1, <2>1, <2>2, <2>3
<1>5. \A m \in Mid : m \in ended' <=> phase'[m] = "end"
  BY <1>1 DEF Membership, SettleOK
<1> QED
  BY <1>2, <1>3, <1>4, <1>5 DEF Membership, Matches, Unfinished

(* No unfinished match is new. *)
LEMMA SettleUnfinished ==
    ASSUME TypeOK, Membership, NEW E \in SUBSET Mid, NEW L \in SUBSET Pid,
           NEW D \in SUBSET Mid, SettleOK(E, L, D), SettleMatches(E, L, D)
    PROVE  /\ Unfinished' = Unfinished \ (E \cup D)
           /\ \A m \in Unfinished' : /\ phase'[m] = phase[m] /\ seat'[m] = seat[m]
                                     /\ fixture'[m] = fixture[m]
           /\ \A m \in Matches' : m \in Matches /\ m \notin D /\ fixture'[m] = fixture[m]
<1>1. \A m \in Mid : phase'[m] = IF m \in D THEN "unused"
                                  ELSE IF m \in E THEN "end" ELSE phase[m]
  BY SettleEffect
<1>2. \A m \in Mid : m \notin D => seat'[m] = seat[m] /\ fixture'[m] = fixture[m]
  BY SettleEffect
<1>3. \A m \in E : phase[m] = "live"
  BY DEF SettleOK
<1>4. \A m \in Mid : m \in Unfinished' <=> m \in Unfinished /\ m \notin E /\ m \notin D
  BY <1>1 DEF TypeOK, Unfinished
<1>5. \A m \in Mid : m \in Matches' => m \in Matches /\ m \notin D
  BY <1>1, <1>3 DEF TypeOK, Matches
<1>6. /\ Unfinished' \subseteq Mid /\ Unfinished \subseteq Mid /\ Matches' \subseteq Mid
  BY DEF Unfinished, Matches
<1> QED
  BY <1>1, <1>2, <1>4, <1>5, <1>6

LEMMA SettlePaused ==
    ASSUME TypeOK, Membership, Paused, NEW E \in SUBSET Mid, NEW L \in SUBSET Pid,
           NEW D \in SUBSET Mid, SettleOK(E, L, D), SettleMatches(E, L, D),
           UNCHANGED pconn
    PROVE  Paused'
BY SettleUnfinished DEF Paused, Online

LEMMA SettlePlaying ==
    ASSUME TypeOK, Membership, Playing, NEW E \in SUBSET Mid, NEW L \in SUBSET Pid,
           NEW D \in SUBSET Mid, SettleOK(E, L, D), Settle(E, L, D)
    PROVE  Playing'
<1>1. /\ Unfinished' = Unfinished \ (E \cup D)
      /\ \A m \in Unfinished' : fixture'[m] = fixture[m]
      /\ comp' = comp
  BY SettleUnfinished DEF Settle
<1>2. \A f \in Fixture : status'[f] = IF f \in Recorded(E) THEN "done"
                                      ELSE IF f \in Released(D \ E) THEN "pending"
                                      ELSE status[f]
  BY DEF Settle, SettleFixtures
<1>3. E \subseteq Unfinished
  BY DEF SettleOK, Unfinished
<1>4. ASSUME NEW m \in Unfinished', fixture'[m] # None
      PROVE  fixture'[m] \in comp' /\ status'[fixture'[m]] = "playing"
  <2>1. m \in Unfinished /\ m \notin E /\ m \notin D /\ fixture'[m] = fixture[m]
    BY <1>1, <1>4
  <2>2. fixture[m] \in comp /\ fixture[m] \in Fixture /\ status[fixture[m]] = "playing"
    BY <1>4, <2>1 DEF TypeOK, Playing
  <2>3. \A n \in Unfinished : fixture[n] = fixture[m] => n = m
    BY <1>4, <2>1 DEF Playing
  <2>4. fixture[m] \notin Recorded(E)
    BY <1>3, <2>1, <2>3 DEF Recorded
  <2>5. fixture[m] \notin Released(D \ E)
    <3>1. ASSUME NEW n \in D, fixture[n] = fixture[m], phase[n] # "end" PROVE FALSE
      BY <2>1, <2>3, <3>1 DEF TypeOK, SettleOK, Unfinished
    <3> QED
      BY <3>1 DEF Released
  <2> QED
    BY <1>1, <1>2, <2>1, <2>2, <2>4, <2>5
<1>5. ASSUME NEW f \in comp', status'[f] = "playing"
      PROVE  \E m \in Unfinished' : fixture'[m] = f
  <2>1. f \in comp /\ f \in Fixture
    BY <1>1 DEF TypeOK
  <2>2. status[f] = "playing" /\ f \notin Recorded(E) /\ f \notin Released(D \ E)
    BY <1>2, <1>5, <2>1
  <2>3. PICK m \in Unfinished : fixture[m] = f
    BY <2>1, <2>2 DEF Playing
  <2>4. m \notin E
    BY <2>1, <2>2, <2>3 DEF Recorded
  <2>5. m \notin D
    BY <2>1, <2>2, <2>3, <2>4 DEF Released, Unfinished
  <2> QED
    BY <1>1, <2>3, <2>4, <2>5
<1>6. ASSUME NEW m \in Unfinished', NEW n \in Unfinished',
             fixture'[m] = fixture'[n], fixture'[m] # None
      PROVE  m = n
  BY <1>1, <1>6 DEF Playing
<1> QED
  BY <1>4, <1>5, <1>6 DEF Playing

-----------------------------------------------------------------------------
(* Matches that start *)

(* What every caller of startMatch has made sure of: two different students *)
(* who are connected and not playing; the matches dropped for it have       *)
(* ended, and every other match keeps somebody; a match of the competition  *)
(* is of a pending fixture, one of the side arena needs the arena open.     *)
StartOK(a, b, f, D) ==
    /\ a # b /\ \A p \in {a, b} : /\ p \in Pid /\ p \in byID /\ Online(p)
                                  /\ match[p] # None => phase[match[p]] = "end"
    /\ \A m \in D : phase[m] = "end"
    /\ \A m \in Matches \ D : \E s \in Side : seat[m][s] \notin {a, b} /\ match[seat[m][s]] = m
    /\ IF f = None THEN ~subClosed ELSE f \in comp /\ status[f] = "pending"

(* The new match m beside the others. *)
Started(m, a, b, f, D) ==
    /\ phase[m] = "unused" /\ \A p \in Pid : match[p] # m
    /\ \A n \in Mid : phase'[n] = IF n = m THEN "live"
                                  ELSE IF n \in D THEN "unused" ELSE phase[n]
    /\ seat'[m][0] = a /\ seat'[m][1] = b /\ fixture'[m] = f
    /\ \A n \in Mid : n # m /\ n \notin D => seat'[n] = seat[n] /\ fixture'[n] = fixture[n]
    /\ \A p \in Pid : match'[p] = IF p \in {a, b} THEN m
                                  ELSE IF match[p] # None /\ match[p] \in D THEN None
                                  ELSE match[p]
    /\ ended' = ended \ D

LEMMA StartEffect ==
    ASSUME TypeOK, Membership, NEW a, NEW b, NEW f \in Fixture \cup {None},
           NEW D \in SUBSET Mid, StartOK(a, b, f, D), StartMatch(a, b, f, D)
    PROVE  \E m \in Mid : Started(m, a, b, f, D)
<1>1. PICK m \in Mid :
        /\ FreshMid(m)
        /\ phase'   = [Cleared(phase, D, "unused") EXCEPT ![m] = "live"]
        /\ seat'    = [Cleared(seat, D, NoSeats) EXCEPT ![m][0] = a, ![m][1] = b]
        /\ fixture' = [Cleared(fixture, D, None) EXCEPT ![m] = f]
        /\ match'   = [Freed(D) EXCEPT ![a] = m, ![b] = m]
  BY DEF StartMatch
<1>2. phase[m] = "unused" /\ \A p \in Pid : match[p] # m
  BY <1>1 DEF FreshMid
<1>3. \A n \in Mid : phase'[n] = IF n = m THEN "live"
                                 ELSE IF n \in D THEN "unused" ELSE phase[n]
  BY <1>1 DEF Cleared
<1>4. seat'[m][0] = a /\ seat'[m][1] = b
  <2>1. NoSeats \in [Side -> Pid \cup {None}]
    BY DEF NoSeats
  <2>2. Cleared(seat, D, NoSeats) \in [Mid -> [Side -> Pid \cup {None}]]
    BY <2>1 DEF TypeOK, Cleared
  <2> QED
    BY <1>1, <2>2 DEF Side
<1>5. fixture'[m] = f
  BY <1>1 DEF Cleared
<1>6. \A n \in Mid : n # m /\ n \notin D => seat'[n] = seat[n] /\ fixture'[n] = fixture[n]
  BY <1>1 DEF Cleared
<1>7. \A p \in Pid : match'[p] = IF p \in {a, b} THEN m ELSE Freed(D)[p]
  BY <1>1 DEF StartOK, Freed
<1>8. \A p \in Pid : match'[p] = IF p \in {a, b} THEN m
                                 ELSE IF match[p] # None /\ match[p] \in D THEN None
                                 ELSE match[p]
  BY <1>7, FreedMembers
<1>9. ended' = ended \ D
  BY DEF StartMatch
<1> QED
  BY <1>2, <1>3, <1>4, <1>5, <1>6, <1>8, <1>9 DEF Started

LEMMA StartMembership ==
    ASSUME TypeOK, Membership, NEW a, NEW b, NEW f \in Fixture \cup {None},
           NEW D \in SUBSET Mid, StartOK(a, b, f, D), NEW m \in Mid, Started(m, a, b, f, D),
           UNCHANGED byID
    PROVE  Membership'
<1>1. a \in Pid /\ b \in Pid /\ a # b /\ a \in byID /\ b \in byID /\ m \notin D
  BY DEF StartOK, Started
<1>2. /\ \A n \in Mid : phase'[n] = IF n = m THEN "live"
                                    ELSE IF n \in D THEN "unused" ELSE phase[n]
      /\ seat'[m][0] = a /\ seat'[m][1] = b
      /\ \A n \in Mid : n # m /\ n \notin D => seat'[n] = seat[n]
  BY DEF Started
<1>3. \A p \in Pid : match'[p] = IF p \in {a, b} THEN m
                                 ELSE IF match[p] # None /\ match[p] \in D THEN None
                                 ELSE match[p]
  BY DEF Started
<1>4. ASSUME NEW p \in Pid, match'[p] # None
      PROVE  /\ p \in byID' /\ phase'[match'[p]] # "unused"
             /\ \E s \in Side : seat'[match'[p]][s] = p
  <2>1. CASE p \in {a, b}
    BY <1>1, <1>2, <1>3, <2>1 DEF Side
  <2>2. CASE p \notin {a, b}
    <3>1. match'[p] = match[p] /\ match[p] \in Mid /\ match[p] \notin D /\ match[p] # m
      BY <1>3, <1>4, <2>2 DEF TypeOK, Started
    <3> QED
      BY <1>2, <1>4, <3>1 DEF Membership
  <2> QED
    BY <2>1, <2>2
<1>5. ASSUME NEW n \in Mid, phase'[n] # "unused"
      PROVE  /\ seat'[n][0] \in Pid /\ seat'[n][1] \in Pid /\ seat'[n][0] # seat'[n][1]
             /\ \E s \in Side : match'[seat'[n][s]] = n
  <2>1. CASE n = m
    BY <1>1, <1>2, <1>3, <2>1 DEF Side
  <2>2. CASE n # m
    <3>1. n \notin D /\ n \in Matches /\ seat'[n] = seat[n]
      BY <1>2, <1>5, <2>2 DEF Matches
    <3>2. seat[n][0] \in Pid /\ seat[n][1] \in Pid /\ seat[n][0] # seat[n][1]
      BY <3>1 DEF Membership
    <3>3. PICK s \in Side : seat[n][s] \notin {a, b} /\ match[seat[n][s]] = n
      BY <3>1 DEF StartOK
    <3>4. match'[seat[n][s]] = n
      BY <1>3, <3>1, <3>2, <3>3, NoneOutside DEF Side
    <3> QED
      BY <3>1, <3>2, <3>4
  <2> QED
    BY <2>1, <2>2
<1>6. ASSUME NEW n \in Mid, phase'[n] \in {"live", "pause"}, NEW s \in Side
      PROVE  match'[seat'[n][s]] = n
  <2>1. CASE n = m
    BY <1>1, <1>2, <1>3, <2>1 DEF Side
  <2>2. CASE n # m
    <3>1. n \notin D /\ n \in Unfinished /\ n \in Matches /\ seat'[n] = seat[n]
      BY <1>2, <1>6, <2>2 DEF Unfinished, Matches
    <3>2. seat[n][s] \in Pid /\ match[seat[n][s]] = n
      BY <3>1 DEF Membership, Side
    <3>3. seat[n][s] \notin {a, b}
      BY <3>1, <3>2, NoneOutside DEF StartOK, Unfinished
    <3> QED
      BY <1>3, <3>1, <3>2, <3>3
  <2> QED
    BY <2>1, <2>2
<1>7. \A n \in Mid : n \in ended' <=> phase'[n] = "end"
  <2>1. ended' = ended \ D /\ phase[m] = "unused"
    BY DEF Started
  <2> QED
    BY <1>2, <2>1 DEF Membership
<1> QED
  BY <1>4, <1>5, <1>6, <1>7 DEF Membership, Matches, Unfinished

LEMMA StartUnfinished ==
    ASSUME TypeOK, NEW a, NEW b, NEW f \in Fixture \cup {None}, NEW D \in SUBSET Mid,
           StartOK(a, b, f, D), NEW m \in Mid, Started(m, a, b, f, D)
    PROVE  /\ m \notin Unfinished /\ Unfinished' = Unfinished \cup {m}
           /\ \A n \in Unfinished : /\ phase'[n] = phase[n] /\ seat'[n] = seat[n]
                                    /\ fixture'[n] = fixture[n]
           /\ \A n \in Matches' \ {m} : n \in Matches /\ fixture'[n] = fixture[n]
<1>1. phase[m] = "unused" /\ m \notin D
  BY DEF Started, StartOK
<1>2. \A n \in Mid : phase'[n] = IF n = m THEN "live"
                                 ELSE IF n \in D THEN "unused" ELSE phase[n]
  BY DEF Started
<1>3. \A n \in D : phase[n] = "end"
  BY DEF StartOK
<1>4. \A n \in Mid : n \in Unfinished' <=> n \in Unfinished \/ n = m
  BY <1>1, <1>2, <1>3 DEF TypeOK, Unfinished
<1>5. \A n \in Unfinished : n \in Mid /\ n # m /\ n \notin D
  BY <1>1, <1>3 DEF Unfinished
<1>6. \A n \in Matches' : n \in Mid /\ (n = m \/ (n \notin D /\ n \in Matches))
  BY <1>1, <1>2 DEF TypeOK, Matches
<1>7. Unfinished' \subseteq Mid /\ Unfinished \subseteq Mid
  BY DEF Unfinished
<1>8. \A n \in Mid : n # m /\ n \notin D => seat'[n] = seat[n] /\ fixture'[n] = fixture[n]
  BY DEF Started
<1> QED
  BY <1>2, <1>4, <1>5, <1>6, <1>7, <1>8

LEMMA StartPaused ==
    ASSUME TypeOK, Paused, NEW a, NEW b, NEW f \in Fixture \cup {None}, NEW D \in SUBSET Mid,
           StartOK(a, b, f, D), NEW m \in Mid, Started(m, a, b, f, D), UNCHANGED pconn
    PROVE  Paused'
<1>1. \A n \in Unfinished' \ {m} : phase'[n] = "pause" <=> \E s \in Side : ~Online(seat'[n][s])
  BY StartUnfinished DEF Paused
<1>2. phase'[m] = "live" /\ \A s \in Side : Online(seat'[m][s])
  BY DEF Started, StartOK, Side
<1> QED
  BY <1>1, <1>2 DEF Paused, Online

LEMMA StartPlaying ==
    ASSUME TypeOK, Playing, NEW a, NEW b, NEW f \in Fixture \cup {None}, NEW D \in SUBSET Mid,
           StartOK(a, b, f, D), NEW m \in Mid, Started(m, a, b, f, D),
           StartMatch(a, b, f, D)
    PROVE  Playing'
<1>1. /\ m \notin Unfinished /\ Unfinished' = Unfinished \cup {m}
      /\ \A n \in Unfinished : fixture'[n] = fixture[n]
  BY StartUnfinished
<1>2. /\ comp' = comp /\ fixture'[m] = f
      /\ \A g \in Fixture : status'[g] = IF g = f THEN "playing" ELSE status[g]
  BY DEF StartMatch, Started
<1>3. f # None => f \in comp /\ f \in Fixture /\ status[f] = "pending"
  BY DEF StartOK
<1>4. \A n \in Unfinished : fixture[n] # None => fixture[n] \in Fixture
  BY DEF TypeOK, Playing
<1>5. \A n \in Unfinished' : fixture'[n] # None =>
        fixture'[n] \in comp' /\ status'[fixture'[n]] = "playing"
  BY <1>1, <1>2, <1>3, <1>4 DEF Playing
<1>6. \A g \in comp' : status'[g] = "playing" => \E n \in Unfinished' : fixture'[n] = g
  BY <1>1, <1>2 DEF TypeOK, Playing
<1>7. \A n, o \in Unfinished' : fixture'[n] = fixture'[o] /\ fixture'[n] # None => n = o
  BY <1>1, <1>2, <1>3 DEF Playing
<1> QED
  BY <1>5, <1>6, <1>7 DEF Playing

LEMMA StartQuiet ==
    ASSUME TypeOK, SubClosedQuiet, NEW a, NEW b, NEW f \in Fixture \cup {None},
           NEW D \in SUBSET Mid, StartOK(a, b, f, D), NEW m \in Mid, Started(m, a, b, f, D),
           UNCHANGED subClosed
    PROVE  SubClosedQuiet'
<1>1. \A n \in Matches' \ {m} : n \in Matches /\ fixture'[n] = fixture[n]
  BY StartUnfinished
<1>2. fixture'[m] = f
  BY DEF Started
<1> QED
  BY <1>1, <1>2 DEF SubClosedQuiet, StartOK

-----------------------------------------------------------------------------
(* The handlers make sure of StartOK and SettleOK *)

LEMMA SenderIsThere ==
    ASSUME TypeOK, Tables, NEW p \in Pid, From(p)
    PROVE  Online(p) /\ p \in byID
BY NoneOutside DEF TypeOK, Tables, From, Online

(* The matches of two students who are in none keep somebody else. *)
LEMMA FreePair ==
    ASSUME Membership, NEW a, NEW b, match[a] = None, match[b] = None
    PROVE  \A m \in Matches \ {} : \E s \in Side : seat[m][s] \notin {a, b}
                                                   /\ match[seat[m][s]] = m
BY NoneOutside DEF Membership, Matches

LEMMA JoinRoomStarts ==
    ASSUME HubInv, NEW p \in Pid, NEW x \in Code, JoinRoom(p, x)
    PROVE  /\ rooms[x] \in Pid /\ UNCHANGED sessionVars
           /\ StartOK(rooms[x], p, None, {}) /\ StartMatch(rooms[x], p, None, {})
<1>1. Online(p) /\ p \in byID /\ match[p] = None /\ ~subClosed
  BY SenderIsThere DEF HubInv, JoinRoom
<1>2. rooms[x] \in Pid /\ rooms[x] # p
  BY DEF HubInv, TypeOK, JoinRoom
<1>3. Online(rooms[x]) /\ match[rooms[x]] = None
  BY <1>2, NoneOutside DEF HubInv, RoomsLinked
<1>4. rooms[x] \in byID
  BY <1>2, <1>3 DEF HubInv, Tables, Online
<1> QED
  BY <1>1, <1>2, <1>3, <1>4, FreePair DEF HubInv, StartOK, JoinRoom

LEMMA AcceptInviteStarts ==
    ASSUME HubInv, NEW p \in Pid, NEW q \in Pid, AcceptInvite(p, q)
    PROVE  /\ UNCHANGED sessionVars
           /\ StartOK(q, p, None, {}) /\ StartMatch(q, p, None, {})
<1>1. Online(p) /\ p \in byID /\ match[p] = None /\ ~subClosed
  BY SenderIsThere DEF HubInv, AcceptInvite
<1>2. Online(q) /\ q \in byID /\ match[q] = None /\ <<p, q>> \in invites
  BY DEF AcceptInvite
<1>3. p # q
  BY <1>2 DEF HubInv, InvitesFresh
<1> QED
  BY <1>1, <1>2, <1>3, FreePair DEF HubInv, StartOK, AcceptInvite

LEMMA TwoSeats ==
    ASSUME TypeOK, Membership, NEW p \in Pid, match[p] # None
    PROVE  LET m == match[p] IN
           /\ m \in Mid /\ m \in Matches /\ p \in byID
           /\ seat[m][0] \in Pid /\ seat[m][1] \in Pid /\ seat[m][0] # seat[m][1]
           /\ Other(p, m) \in Pid /\ Other(p, m) # p
           /\ {seat[m][0], seat[m][1]} = {p, Other(p, m)}
<1> DEFINE m == match[p]
<1>1. m \in Mid /\ m \in Matches /\ p \in byID
  BY DEF TypeOK, Membership, Matches
<1>2. seat[m][0] \in Pid /\ seat[m][1] \in Pid /\ seat[m][0] # seat[m][1]
  BY <1>1 DEF Membership
<1>3. p = seat[m][0] \/ p = seat[m][1]
  BY DEF Membership, Side
<1>4. Other(p, m) = IF seat[m][0] = p THEN seat[m][1] ELSE seat[m][0]
  BY DEF Other, SideOf
<1> QED
  BY <1>1, <1>2, <1>3, <1>4

LEMMA AgreeRematchStarts ==
    ASSUME HubInv, NEW p \in Pid, AgreeRematch(p)
    PROVE  \E a, b \in Pid, D \in SUBSET Mid :
             /\ UNCHANGED sessionVars
             /\ StartOK(a, b, None, D) /\ StartMatch(a, b, None, D)
<1> DEFINE m == match[p]
           o == Other(p, m)
           a == seat[m][1]
           b == seat[m][0]
<1>1. /\ m # None /\ phase[m] = "end" /\ ~subClosed /\ match[o] = m /\ Online(o)
      /\ StartMatch(a, b, None, {m}) /\ UNCHANGED sessionVars
  BY DEF AgreeRematch
<1>2. /\ m \in Mid /\ a \in Pid /\ b \in Pid /\ a # b
      /\ {a, b} = {p, o} /\ o \in Pid
  BY <1>1, TwoSeats DEF HubInv
<1>3. Online(p) /\ p \in byID
  BY SenderIsThere DEF HubInv, AgreeRematch
<1>4. o \in byID
  BY <1>1, <1>2, TwoSeats DEF HubInv, Membership
<1> HIDE DEF m, o, a, b
<1>5. \A q \in {a, b} : q \in byID /\ Online(q) /\ match[q] = m
  BY <1>1, <1>2, <1>3, <1>4 DEF m
<1>6. \A n \in Matches \ {m} : \E s \in Side : seat[n][s] \notin {a, b} /\ match[seat[n][s]] = n
  BY <1>5 DEF HubInv, Membership
<1> QED
  BY <1>1, <1>2, <1>5, <1>6 DEF StartOK

LEMMA StartFixtureStarts ==
    ASSUME HubInv, NEW f \in Fixture, StartFixture(f)
    PROVE  \E a, b \in Pid, D \in SUBSET Mid :
             /\ UNCHANGED sessionVars
             /\ StartOK(a, b, f, D) /\ StartMatch(a, b, f, D)
<1>1. PICK a \in OnlinePlayers(FxA[f]), b \in OnlinePlayers(FxB[f]) :
        /\ ~Busy(a) /\ ~Busy(b)
        /\ StartMatch(a, b, f, {m \in {match[a], match[b]} \ {None} :
                                  \A p \in Seats(m) : match[p] = m => p \in {a, b}})
  BY DEF StartFixture
<1> DEFINE D == {m \in {match[a], match[b]} \ {None} :
                   \A p \in Seats(m) : match[p] = m => p \in {a, b}}
<1>2. /\ a \in Pid /\ a \in byID /\ Online(a) /\ b \in Pid /\ b \in byID /\ Online(b)
      /\ key[a] = FxA[f] /\ key[b] = FxB[f]
  BY DEF HubInv, TypeOK, OnlinePlayers
<1>3. a # b
  BY <1>2, HubAssumption
<1>4. \A p \in {a, b} : match[p] # None => phase[match[p]] = "end"
  BY <1>1 DEF Busy
<1>5. D \in SUBSET Mid
  BY <1>2 DEF HubInv, TypeOK
<1>6. \A m \in D : phase[m] = "end"
  BY <1>4
<1>7. ASSUME NEW m \in Matches \ D
      PROVE  \E s \in Side : seat[m][s] \notin {a, b} /\ match[seat[m][s]] = m
  <2>1. m \in Mid
    BY DEF Matches
  <2>2. CASE m \in {match[a], match[b]}
    <3>1. PICK p \in Seats(m) : match[p] = m /\ p \notin {a, b}
      BY <1>7, <2>1, <2>2, NoneOutside
    <3> QED
      BY <3>1 DEF Seats
  <2>3. CASE m \notin {match[a], match[b]}
    BY <1>7, <2>3 DEF HubInv, Membership
  <2> QED
    BY <2>2, <2>3
<1>8. f \in comp /\ status[f] = "pending" /\ f # None /\ UNCHANGED sessionVars
  BY NoneOutside DEF StartFixture
<1>9. StartMatch(a, b, f, D)
  BY <1>1
<1> HIDE DEF D
<1>10. StartOK(a, b, f, D)
  BY <1>2, <1>3, <1>4, <1>6, <1>7, <1>8 DEF StartOK
<1> QED
  BY <1>2, <1>5, <1>8, <1>9, <1>10

LEMMA LeaveMatchSettles ==
    ASSUME HubInv, NEW p \in Pid, LeaveMatch(p)
    PROVE  \E E, D \in SUBSET Mid, L \in SUBSET Pid : SettleOK(E, L, D) /\ Settle(E, L, D)
<1> DEFINE m == match[p]
           alone == match[Other(p, m)] # m
           last == IF alone THEN {m} ELSE {}
<1>1. m # None
  BY DEF LeaveMatch
<1>2. /\ m \in Mid /\ m \in Matches /\ Other(p, m) \in Pid /\ Other(p, m) # p
      /\ {seat[m][0], seat[m][1]} = {p, Other(p, m)}
  BY <1>1, TwoSeats DEF HubInv
<1>3. PICK s \in Side : seat[m][s] = Other(p, m)
  BY <1>2 DEF Side
<1>4. phase[m] \in {"live", "pause", "end"}
  BY <1>2 DEF HubInv, TypeOK, Matches
<1>5. CASE phase[m] = "pause"
  <2>1. Settle({}, {}, {m})
    BY <1>5 DEF LeaveMatch
  <2>2. SettleOK({}, {}, {m})
    BY <1>5 DEF SettleOK
  <2> QED
    BY <1>2, <2>1, <2>2
<1>6. CASE phase[m] = "live"
  <2>1. ~alone
    BY <1>2, <1>3, <1>6 DEF HubInv, Membership, Unfinished
  <2>2. Settle({m}, {p}, {})
    BY <1>6, <2>1 DEF LeaveMatch
  <2>3. SettleOK({m}, {p}, {})
    BY <1>2, <1>3, <1>6, <2>1 DEF SettleOK
  <2> QED
    BY <1>2, <2>2, <2>3
<1>7. CASE phase[m] = "end"
  <2>1. Settle({}, {p}, last)
    BY <1>7 DEF LeaveMatch
  <2>2. SettleOK({}, {p}, last)
    BY <1>2, <1>3, <1>7 DEF SettleOK
  <2> QED
    BY <1>2, <2>1, <2>2
<1> QED
  BY <1>4, <1>5, <1>6, <1>7

LEMMA TickSettles ==
    ASSUME HubInv, Tick
    PROVE  \E E, D \in SUBSET Mid : SettleOK(E, {}, D) /\ Settle(E, {}, D)
<1>1. PICK E \in SUBSET {m \in Mid : phase[m] = "live"},
           O \in SUBSET {m \in Mid : phase[m] = "end"},
           G \in SUBSET {m \in Mid : phase[m] = "pause" /\ \A p \in Seats(m) : ~Online(p)} :
             Settle(E, {}, O \cup G \cup {m \in Mid : phase[m] = "end" /\ m \notin ended})
  BY DEF Tick
<1> DEFINE D == O \cup G \cup {m \in Mid : phase[m] = "end" /\ m \notin ended}
<1>2. SettleOK(E, {}, D)
  BY DEF SettleOK
<1>3. E \in SUBSET Mid /\ D \in SUBSET Mid
  OBVIOUS
<1> QED
  BY <1>1, <1>2, <1>3

LEMMA TeacherSettles ==
    ASSUME HubInv, NEW f, CloseSubArena \/ CompClose \/ CancelFixture(f)
    PROVE  \E D \in SUBSET Mid : SettleOK({}, {}, D) /\ SettleMatches({}, {}, D)
<1>1. \A D \in SUBSET Matches : D \in SUBSET Mid /\ SettleOK({}, {}, D)
  BY DEF SettleOK, Matches
<1>2. Unfinished \subseteq Matches
  BY DEF Unfinished, Matches
<1>3. \E D \in SUBSET Matches : SettleMatches({}, {}, D)
  BY <1>2 DEF CloseSubArena, Settle, CompClose, CancelFixture
<1> QED
  BY <1>1, <1>3

-----------------------------------------------------------------------------
(* HubInv is inductive *)

LEMMA StartKeeps ==
    ASSUME HubInv, NEW a \in Pid, NEW b \in Pid, NEW f \in Fixture \cup {None},
           NEW D \in SUBSET Mid, StartOK(a, b, f, D), StartMatch(a, b, f, D),
           UNCHANGED sessionVars
    PROVE  HubInv'
<1>1. PICK m \in Mid : Started(m, a, b, f, D)
  BY StartEffect DEF HubInv
<1>2. TypeOK'
  BY TypeStartMatch DEF HubInv
<1>3. /\ UNCHANGED <<ctok, closed, panicked, players, byID, token, key, pconn, subClosed>>
      /\ LeaveLobby({a, b})
  BY DEF StartMatch, sessionVars
<1>4. Tables' /\ HeardOrClosed' /\ ClosedKnown'
  BY <1>3 DEF HubInv, Tables, HeardOrClosed, ClosedKnown, Online
<1>5. FreeOutside({a, b})
  BY <1>1, <1>3 DEF FreeOutside, Started, Online
<1>6. RoomsLinked' /\ InvitesFresh'
  BY <1>3, <1>5, LobbyLeft DEF HubInv
<1>7. Membership' /\ Paused' /\ Playing' /\ SubClosedQuiet'
  BY <1>1, <1>3, StartMembership, StartPaused, StartPlaying, StartQuiet DEF HubInv
<1> QED
  BY <1>2, <1>4, <1>6, <1>7 DEF HubInv

(* A connection that comes or goes only pauses or resumes matches. *)
LEMMA PhasesKeep ==
    ASSUME TypeOK, Membership, Playing, SubClosedQuiet, byID \subseteq byID',
           UNCHANGED <<subClosed, seat, fixture, match, ended, comp, status>>,
           \A m \in Mid : /\ m \in Unfinished' <=> m \in Unfinished
                          /\ phase'[m] = phase[m] \/ m \in Unfinished
    PROVE  Membership' /\ Playing' /\ SubClosedQuiet'
<1>1. \A m \in Mid : /\ phase'[m] = "unused" <=> phase[m] = "unused"
                     /\ phase'[m] = "end" <=> phase[m] = "end"
  BY DEF Unfinished
<1>2. Matches' = Matches /\ Unfinished' = Unfinished
  BY <1>1 DEF Matches, Unfinished
<1>3. \A p \in Pid : match'[p] # None =>
        /\ p \in byID' /\ phase'[match'[p]] # "unused"
        /\ \E s \in Side : seat'[match'[p]][s] = p
  BY <1>1 DEF TypeOK, Membership
<1>4. \A m \in Mid : m \in ended' <=> phase'[m] = "end"
  BY <1>1 DEF Membership
<1>5. Membership'
  BY <1>2, <1>3, <1>4 DEF Membership
<1> QED
  BY <1>2, <1>5 DEF Playing, SubClosedQuiet

LEMMA RegisterPaused ==
    ASSUME HubInv, NEW p \in Pid, NEW c \in Conn, p \in byID,
           pconn' = [pconn EXCEPT ![p] = c], Resume(p), UNCHANGED seat
    PROVE  Paused' /\ \A m \in Mid : /\ m \in Unfinished' <=> m \in Unfinished
                                     /\ phase'[m] = phase[m] \/ m \in Unfinished
<1> DEFINE back(q) == pconn'[q] # None
<1>1. \A m \in Mid : phase'[m] = IF m = match[p] /\ phase[m] = "pause" /\ Online(Other(p, m))
                                 THEN "live" ELSE phase[m]
  BY DEF Resume
<1>2. \A m \in Mid : /\ m \in Unfinished' <=> m \in Unfinished
                     /\ phase'[m] = phase[m] \/ m \in Unfinished
  BY <1>1 DEF Unfinished
<1>3. \A q \in Pid : back(q) <=> Online(q) \/ q = p
  BY NoneOutside DEF HubInv, TypeOK, Online
<1> HIDE DEF back
<1>4. ASSUME NEW m \in Unfinished'
      PROVE  phase'[m] = "pause" <=> \E s \in Side : ~back(seat[m][s])
  <2>1. m \in Mid /\ m \in Unfinished /\ m \in Matches
    BY <1>2, <1>4 DEF Unfinished, Matches
  <2>2. \A s \in Side : seat[m][s] \in Pid /\ match[seat[m][s]] = m
    BY <2>1 DEF HubInv, Membership, Side
  <2>3. phase[m] = "pause" <=> \E s \in Side : ~Online(seat[m][s])
    BY <2>1 DEF HubInv, Paused
  <2>4. CASE m = match[p]
    <3>1. /\ Other(p, m) \in Pid /\ Other(p, m) # p
          /\ {seat[m][0], seat[m][1]} = {p, Other(p, m)}
      BY <2>1, <2>4, NoneOutside, TwoSeats DEF HubInv
    <3>2. (\E s \in Side : ~Online(seat[m][s])) <=> ~Online(p) \/ ~Online(Other(p, m))
      BY <3>1 DEF Side
    <3>3. (\E s \in Side : ~back(seat[m][s])) <=> ~Online(Other(p, m))
      <4>1. \A s \in Side : back(seat[m][s]) <=> Online(seat[m][s]) \/ seat[m][s] = p
        BY <1>3, <2>2
      <4> QED
        BY <3>1, <4>1 DEF Side
    <3>4. phase[m] \in {"live", "pause"}
      BY <2>1 DEF Unfinished
    <3> QED
      BY <1>1, <2>1, <2>3, <2>4, <3>2, <3>3, <3>4
  <2>5. CASE m # match[p]
    <3>1. \A s \in Side : back(seat[m][s]) <=> Online(seat[m][s])
      BY <1>3, <2>2, <2>5
    <3> QED
      BY <1>1, <2>1, <2>3, <2>5, <3>1
  <2> QED
    BY <2>4, <2>5
<1>5. ASSUME NEW m \in Unfinished'
      PROVE  phase'[m] = "pause" <=> \E s \in Side : ~(pconn'[seat'[m][s]] # None)
  BY <1>4 DEF back
<1> QED
  BY <1>2, <1>5 DEF Paused, Online

(* A registration leaves the matches as they are, but that one may resume. *)
LEMMA RegisterMatches ==
    ASSUME HubInv, NEW c \in Conn, NEW t \in Token, NEW k \in Key, Register(c, t, k)
    PROVE  /\ Paused' /\ byID \subseteq byID'
           /\ \A p \in Pid : Online(p) => Online(p)'
           /\ \A m \in Mid : /\ m \in Unfinished' <=> m \in Unfinished
                             /\ phase'[m] = phase[m] \/ m \in Unfinished
<1>1. UNCHANGED seat /\ pconn \in [Pid -> Conn \cup {None}]
  BY DEF HubInv, TypeOK, Register
<1>2. CASE RegisterKnown(c, t, k)
  <2> DEFINE p == players[t]
  <2>1. p \in Pid /\ p \in byID
    BY <1>2 DEF HubInv, TypeOK, Tables, RegisterKnown
  <2>2. pconn' = [pconn EXCEPT ![p] = c] /\ Resume(p) /\ UNCHANGED byID
    BY <1>2 DEF RegisterKnown
  <2> QED
    BY <1>1, <2>1, <2>2, NoneOutside, RegisterPaused DEF Online
<1>3. CASE RegisterReturning(c, t, k)
  <2>1. PICK p \in Waiting(k) : pconn' = [pconn EXCEPT ![p] = c] /\ Resume(p)
    BY <1>3 DEF RegisterReturning
  <2>2. p \in byID /\ p \in Pid /\ UNCHANGED byID
    BY <1>3 DEF HubInv, TypeOK, Waiting, RegisterReturning
  <2> QED
    BY <1>1, <2>1, <2>2, NoneOutside, RegisterPaused DEF Online
<1>4. CASE RegisterNew(c, t, k)
  <2>1. PICK p \in Pid : FreshPid(p) /\ Enter(p, t) /\ pconn' = [pconn EXCEPT ![p] = c]
    BY <1>4 DEF RegisterNew
  <2>2. p \notin byID /\ byID' = byID \cup {p} /\ phase' = phase
    BY <1>4, <2>1 DEF FreshPid, Enter, RegisterNew
  <2>3. match[p] = None
    BY <2>2 DEF HubInv, Membership
  <2>4. \A m \in Unfinished, s \in Side : seat[m][s] \in Pid /\ seat[m][s] # p
    BY <2>3, NoneOutside DEF HubInv, Membership, Matches, Unfinished, Side
  <2>5. \A m \in Unfinished, s \in Side : Online(seat[m][s])' <=> Online(seat[m][s])
    BY <1>1, <2>1, <2>4 DEF Online
  <2>6. Paused'
    BY <1>1, <2>2, <2>5 DEF HubInv, Paused, Unfinished
  <2>7. \A q \in Pid : Online(q) => Online(q)'
    BY <1>1, <2>1, NoneOutside DEF Online
  <2> QED
    BY <2>2, <2>6, <2>7 DEF Unfinished
<1> QED
  BY <1>2, <1>3, <1>4 DEF Register

LEMMA RegisterKeeps ==
    ASSUME HubInv, NEW c \in Conn, NEW t \in Token, NEW k \in Key, Register(c, t, k)
    PROVE  HubInv'
<1>1. TypeOK'
  BY TypeRegister DEF HubInv
<1>2. Tables' /\ HeardOrClosed' /\ ClosedKnown'
  <2>1. Sessions /\ TypeOK
    BY DEF HubInv, Sessions
  <2>2. Sessions'
    BY <2>1, SessionsKnown, SessionsReturning, SessionsNew DEF Register
  <2> QED
    BY <2>2 DEF Sessions
<1>3. UNCHANGED <<rooms, room, invites, subClosed, seat, fixture, match, ended, comp, status>>
  BY DEF Register, lobbyVars, compVars
<1>4. /\ Paused' /\ byID \subseteq byID' /\ \A p \in Pid : Online(p) => Online(p)'
      /\ \A m \in Mid : /\ m \in Unfinished' <=> m \in Unfinished
                        /\ phase'[m] = phase[m] \/ m \in Unfinished
  BY RegisterMatches
<1>5. RoomsLinked' /\ InvitesFresh'
  <2>1. FreeOutside({})
    BY <1>3, <1>4 DEF FreeOutside
  <2> QED
    BY <1>3, <2>1, LobbyKept DEF HubInv
<1>6. Membership' /\ Playing' /\ SubClosedQuiet'
  BY <1>3, <1>4, PhasesKeep DEF HubInv
<1> QED
  BY <1>1, <1>2, <1>4, <1>5, <1>6 DEF HubInv

(* A departure leaves the matches as they are, but that one may pause. *)
LEMMA UnregisterMatches ==
    ASSUME HubInv, NEW c \in Conn, Unregister(c)
    PROVE  /\ Paused'
           /\ \A m \in Mid : /\ m \in Unfinished' <=> m \in Unfinished
                             /\ phase'[m] = phase[m] \/ m \in Unfinished
<1>1. UNCHANGED seat
  BY DEF Unregister
<1>2. CASE UnregisterCurrent(c)
  <2> DEFINE p == players[ctok[c]]
             here(q) == pconn'[q] # None
  <2>1. /\ p \in Pid /\ pconn' = [pconn EXCEPT ![p] = None]
        /\ \A m \in Mid : phase'[m] = IF m = match[p] /\ phase[m] = "live"
                                      THEN "pause" ELSE phase[m]
    BY <1>2 DEF HubInv, TypeOK, Unregister, UnregisterCurrent
  <2>2. \A m \in Mid : /\ m \in Unfinished' <=> m \in Unfinished
                       /\ phase'[m] = phase[m] \/ m \in Unfinished
    BY <2>1 DEF Unfinished
  <2>3. \A q \in Pid : here(q) <=> Online(q) /\ q # p
    BY <2>1 DEF HubInv, TypeOK, Online
  <2> HIDE DEF p, here
  <2>4. ASSUME NEW m \in Unfinished'
        PROVE  phase'[m] = "pause" <=> \E s \in Side : ~here(seat[m][s])
    <3>1. m \in Mid /\ m \in Unfinished /\ m \in Matches
      BY <2>2, <2>4 DEF Unfinished, Matches
    <3>2. \A s \in Side : seat[m][s] \in Pid /\ match[seat[m][s]] = m
      BY <3>1 DEF HubInv, Membership, Side
    <3>3. phase[m] = "pause" <=> \E s \in Side : ~Online(seat[m][s])
      BY <3>1 DEF HubInv, Paused
    <3>4. CASE m = match[p]
      <4>1. \E s \in Side : seat[m][s] = p
        BY <2>1, <3>1, <3>4, NoneOutside DEF HubInv, Membership
      <4>2. phase'[m] = "pause"
        BY <2>1, <3>1, <3>4 DEF Unfinished
      <4> QED
        BY <2>1, <2>3, <4>1, <4>2
    <3>5. CASE m # match[p]
      <4>1. \A s \in Side : here(seat[m][s]) <=> Online(seat[m][s])
        BY <2>3, <3>2, <3>5
      <4>2. phase'[m] = phase[m]
        BY <2>1, <3>1, <3>5
      <4> QED
        BY <3>3, <4>1, <4>2
    <3> QED
      BY <3>4, <3>5
  <2>5. Paused'
    BY <1>1, <2>4 DEF Paused, Online, here
  <2> QED
    BY <2>2, <2>5
<1>3. CASE UnregisterReplaced(c) \/ UnregisterUnknown(c)
  <2>1. UNCHANGED <<phase, pconn>>
    BY <1>3 DEF UnregisterReplaced, UnregisterUnknown
  <2> QED
    BY <1>1, <2>1 DEF HubInv, Paused, Unfinished, Online
<1> QED
  BY <1>2, <1>3 DEF Unregister

LEMMA UnregisterKeeps ==
    ASSUME HubInv, NEW c \in Conn, Unregister(c)
    PROVE  HubInv'
<1>1. TypeOK'
  BY TypeUnregister DEF HubInv
<1>2. Tables' /\ HeardOrClosed' /\ ClosedKnown'
  <2>1. Sessions /\ TypeOK
    BY DEF HubInv, Sessions
  <2> QED
    BY <2>1, SessionsUnregister DEF Sessions
<1>3. UNCHANGED <<byID, subClosed, seat, fixture, match, ended, comp, status>>
  BY DEF Unregister, compVars
<1>4. /\ Paused'
      /\ \A m \in Mid : /\ m \in Unfinished' <=> m \in Unfinished
                        /\ phase'[m] = phase[m] \/ m \in Unfinished
  BY UnregisterMatches
<1>5. RoomsLinked' /\ InvitesFresh'
  <2>1. CASE UnregisterCurrent(c)
    <3> DEFINE p == players[ctok[c]]
    <3>1. p \in Pid /\ pconn' = [pconn EXCEPT ![p] = None] /\ LeaveLobby({p})
      BY <2>1 DEF HubInv, TypeOK, Unregister, UnregisterCurrent
    <3>2. FreeOutside({p})
      BY <1>3, <3>1 DEF HubInv, TypeOK, FreeOutside, Online
    <3> QED
      BY <1>3, <3>1, <3>2, LobbyLeft DEF HubInv
  <2>2. CASE UnregisterReplaced(c) \/ UnregisterUnknown(c)
    <3>1. UNCHANGED <<pconn, rooms, room, invites>>
      BY <2>2 DEF UnregisterReplaced, UnregisterUnknown
    <3>2. FreeOutside({})
      BY <1>3, <3>1 DEF FreeOutside, Online
    <3> QED
      BY <1>3, <3>1, <3>2, LobbyKept DEF HubInv
  <2> QED
    BY <2>1, <2>2 DEF Unregister
<1>6. Membership' /\ Playing' /\ SubClosedQuiet'
  BY <1>3, <1>4, PhasesKeep DEF HubInv
<1> QED
  BY <1>1, <1>2, <1>4, <1>5, <1>6 DEF HubInv

(* Settling frees students and never occupies one. *)
LEMMA SettleFrees ==
    ASSUME TypeOK, Membership, NEW E \in SUBSET Mid, NEW L \in SUBSET Pid,
           NEW D \in SUBSET Mid, SettleOK(E, L, D), SettleMatches(E, L, D),
           NEW p \in Pid
    PROVE  match'[p] = match[p] \/ match'[p] = None
BY SettleEffect

LEMMA SettleQuiet ==
    ASSUME TypeOK, Membership, SubClosedQuiet, NEW E \in SUBSET Mid, NEW L \in SUBSET Pid,
           NEW D \in SUBSET Mid, SettleOK(E, L, D), SettleMatches(E, L, D), UNCHANGED subClosed
    PROVE  SubClosedQuiet'
BY SettleUnfinished DEF SubClosedQuiet

LEMMA TickKeeps ==
    ASSUME HubInv, Tick
    PROVE  HubInv'
<1>1. PICK E \in SUBSET Mid, D \in SUBSET Mid : SettleOK(E, {}, D) /\ Settle(E, {}, D)
  BY TickSettles
<1>2. SettleMatches(E, {}, D)
  BY <1>1 DEF Settle
<1>3. TypeOK'
  BY TypeTick DEF HubInv
<1>4. Tables' /\ HeardOrClosed' /\ ClosedKnown'
  <2>1. Sessions /\ TypeOK
    BY DEF HubInv, Sessions
  <2> QED
    BY <2>1, SessionsTick DEF Sessions
<1>5. UNCHANGED <<pconn, rooms, room, subClosed>> /\ invites' \subseteq invites
  BY DEF Tick
<1>6. \A p \in byID : Online(p) \/ match'[p] # None => p \in byID'
  BY DEF Tick
<1>7. FreeOutside({})
  <2>1. \A p \in Pid : match[p] = None => match'[p] = None
    BY <1>1, <1>2, SettleFrees DEF HubInv
  <2>2. \A p \in byID : p \in byID' \/ ~Online(p)
    BY <1>6
  <2> QED
    BY <1>5, <2>1, <2>2 DEF FreeOutside, Online
<1>8. RoomsLinked' /\ InvitesFresh'
  BY <1>5, <1>7, LobbyKept DEF HubInv
<1>9. Membership' /\ Paused' /\ Playing' /\ SubClosedQuiet'
  BY <1>1, <1>2, <1>5, <1>6, SettleMembership, SettlePaused, SettlePlaying, SettleQuiet
     DEF HubInv
<1> QED
  BY <1>3, <1>4, <1>8, <1>9 DEF HubInv

LEMMA SessionsUnchanged ==
    ASSUME HubInv, UNCHANGED sessionVars
    PROVE  /\ Tables' /\ HeardOrClosed' /\ ClosedKnown'
           /\ UNCHANGED <<byID, pconn>> /\ \A p : Online(p)' <=> Online(p)
BY DEF HubInv, Tables, HeardOrClosed, ClosedKnown, Online, sessionVars

LEMMA LeaveMatchKeeps ==
    ASSUME HubInv, NEW p \in Pid, LeaveMatch(p), TypeOK'
    PROVE  HubInv'
<1>1. PICK E \in SUBSET Mid, D \in SUBSET Mid, L \in SUBSET Pid :
        SettleOK(E, L, D) /\ Settle(E, L, D)
  BY LeaveMatchSettles
<1>2. SettleMatches(E, L, D)
  BY <1>1 DEF Settle
<1>3. UNCHANGED sessionVars /\ UNCHANGED <<rooms, room, invites, subClosed>>
  BY DEF LeaveMatch, lobbyVars
<1>4. FreeOutside({})
  BY <1>1, <1>2, <1>3, SettleFrees, SessionsUnchanged DEF HubInv, FreeOutside
<1>5. RoomsLinked' /\ InvitesFresh'
  BY <1>3, <1>4, LobbyKept DEF HubInv
<1>6. Membership' /\ Paused' /\ Playing' /\ SubClosedQuiet'
  BY <1>1, <1>2, <1>3, SessionsUnchanged, SettleMembership, SettlePaused, SettlePlaying,
     SettleQuiet DEF HubInv
<1> QED
  BY <1>3, <1>5, <1>6, SessionsUnchanged DEF HubInv

(* Dropping matches, as the teacher's commands do. *)
LEMMA DropUnfinished ==
    ASSUME HubInv, NEW D \in SUBSET Mid, SettleOK({}, {}, D), SettleMatches({}, {}, D)
    PROVE  /\ Unfinished' = Unfinished \ D
           /\ \A m \in Unfinished' : fixture'[m] = fixture[m]
           /\ \A m \in Matches' : m \in Matches /\ m \notin D /\ fixture'[m] = fixture[m]
<1>1. {} \in SUBSET Mid /\ {} \in SUBSET Pid /\ TypeOK /\ Membership
  BY DEF HubInv
<1>2. /\ Unfinished' = Unfinished \ ({} \cup D)
      /\ \A m \in Unfinished' : /\ phase'[m] = phase[m] /\ seat'[m] = seat[m]
                                /\ fixture'[m] = fixture[m]
      /\ \A m \in Matches' : m \in Matches /\ m \notin D /\ fixture'[m] = fixture[m]
  BY <1>1, SettleUnfinished, Zenon
<1> QED
  BY <1>2

LEMMA CloseSubArenaKeeps ==
    ASSUME HubInv, CloseSubArena, TypeOK'
    PROVE  HubInv'
<1> DEFINE D == {m \in Matches : fixture[m] = None}
<1>1. D \in SUBSET Mid /\ SettleOK({}, {}, D)
  BY DEF SettleOK, Matches
<1>2. Settle({}, {}, D) /\ SettleMatches({}, {}, D) /\ UNCHANGED sessionVars
  BY DEF CloseSubArena, Settle
<1>3. RoomsLinked' /\ InvitesFresh'
  BY LobbyCloseSubArena DEF HubInv
<1>4. Membership' /\ Paused' /\ Playing'
  BY <1>1, <1>2, SessionsUnchanged, SettleMembership, SettlePaused, SettlePlaying DEF HubInv
<1>5. SubClosedQuiet'
  <2>1. SettleOK({}, {}, D) /\ SettleMatches({}, {}, D) /\ D \in SUBSET Mid
    BY <1>1, <1>2
  <2> HIDE DEF D
  <2>2. \A m \in Matches' : m \in Matches /\ m \notin D /\ fixture'[m] = fixture[m]
    BY <2>1, DropUnfinished
  <2> QED
    BY <2>2 DEF SubClosedQuiet, D
<1> QED
  BY <1>2, <1>3, <1>4, <1>5, SessionsUnchanged DEF HubInv

LEMMA CompCloseKeeps ==
    ASSUME HubInv, CompClose, TypeOK'
    PROVE  HubInv'
<1> DEFINE D == {m \in Unfinished : fixture[m] # None}
<1>1. D \in SUBSET Mid /\ SettleOK({}, {}, D)
  BY DEF SettleOK, Unfinished
<1>2. /\ SettleMatches({}, {}, D) /\ comp' = {}
      /\ UNCHANGED sessionVars /\ UNCHANGED <<rooms, room, invites, subClosed>>
  BY DEF CompClose, lobbyVars
<1>3. FreeOutside({})
  BY <1>1, <1>2, SettleFrees, SessionsUnchanged DEF HubInv, FreeOutside
<1>4. RoomsLinked' /\ InvitesFresh'
  BY <1>2, <1>3, LobbyKept DEF HubInv
<1>5. Membership' /\ Paused' /\ SubClosedQuiet'
  BY <1>1, <1>2, SessionsUnchanged, SettleMembership, SettlePaused, SettleQuiet DEF HubInv
<1>6. Playing'
  <2>1. /\ Unfinished' = Unfinished \ D
        /\ \A m \in Unfinished' : fixture'[m] = fixture[m]
    BY <1>1, <1>2, DropUnfinished
  <2> QED
    BY <1>2, <2>1 DEF Playing
<1> QED
  BY <1>2, <1>4, <1>5, <1>6, SessionsUnchanged DEF HubInv

LEMMA CancelFixtureKeeps ==
    ASSUME HubInv, NEW f \in Fixture, CancelFixture(f), TypeOK'
    PROVE  HubInv'
<1> DEFINE D == {m \in Unfinished : fixture[m] = f}
<1>1. D \in SUBSET Mid /\ SettleOK({}, {}, D)
  BY DEF SettleOK, Unfinished
<1>2. /\ SettleMatches({}, {}, D) /\ comp' = comp /\ status' = [status EXCEPT ![f] = "pending"]
      /\ UNCHANGED sessionVars /\ UNCHANGED <<rooms, room, invites, subClosed>>
  BY DEF CancelFixture, lobbyVars
<1>3. FreeOutside({})
  BY <1>1, <1>2, SettleFrees, SessionsUnchanged DEF HubInv, FreeOutside
<1>4. RoomsLinked' /\ InvitesFresh'
  BY <1>2, <1>3, LobbyKept DEF HubInv
<1>5. Membership' /\ Paused' /\ SubClosedQuiet'
  BY <1>1, <1>2, SessionsUnchanged, SettleMembership, SettlePaused, SettleQuiet DEF HubInv
<1>6. Playing'
  <2>1. /\ Unfinished' = Unfinished \ D
        /\ \A m \in Unfinished' : fixture'[m] = fixture[m]
    BY <1>1, <1>2, DropUnfinished
  <2>2. \A g \in Fixture : status'[g] = IF g = f THEN "pending" ELSE status[g]
    BY <1>2 DEF HubInv, TypeOK
  <2>3. \A m \in Unfinished' : fixture'[m] # None =>
          fixture'[m] \in comp' /\ status'[fixture'[m]] = "playing"
    BY <1>2, <2>1, <2>2 DEF HubInv, TypeOK, Playing
  <2>4. \A g \in comp' : status'[g] = "playing" => \E m \in Unfinished' : fixture'[m] = g
    BY <1>2, <2>1, <2>2 DEF HubInv, TypeOK, Playing
  <2> QED
    BY <2>1, <2>3, <2>4 DEF HubInv, Playing
<1> QED
  BY <1>2, <1>4, <1>5, <1>6, SessionsUnchanged DEF HubInv

(* Steps that leave students and matches alone. *)
LEMMA QuietKeeps ==
    ASSUME HubInv, UNCHANGED sessionVars, UNCHANGED <<phase, seat, fixture, match, ended>>
    PROVE  /\ Membership' /\ Paused' /\ Unfinished' = Unfinished /\ FreeOutside({})
           /\ (subClosed' => subClosed) => SubClosedQuiet'
           /\ UNCHANGED <<comp, status>> => Playing'
<1>1. Matches' = Matches /\ Unfinished' = Unfinished
  BY DEF Matches, Unfinished
<1>2. UNCHANGED <<byID, pconn>>
  BY DEF sessionVars
<1>3. Membership'
  BY <1>1, <1>2 DEF HubInv, Membership
<1>4. Paused'
  BY <1>1, <1>2 DEF HubInv, Paused, Online
<1>5. FreeOutside({})
  BY <1>2 DEF FreeOutside, Online
<1>6. (subClosed' => subClosed) => SubClosedQuiet'
  BY <1>1 DEF HubInv, SubClosedQuiet
<1>7. UNCHANGED <<comp, status>> => Playing'
  BY <1>1 DEF HubInv, Playing
<1> QED
  BY <1>1, <1>3, <1>4, <1>5, <1>6, <1>7

LEMMA LobbyStepKeeps ==
    ASSUME HubInv, TypeOK', NEW p \in Pid,
           \/ CreateRoom(p) \/ CancelRoom(p) \/ AskRematch(p)
           \/ \E q \in Pid : SendInvite(p, q) \/ DropInvite(p, q)
    PROVE  HubInv'
<1>1. /\ UNCHANGED sessionVars /\ UNCHANGED <<phase, seat, fixture, match, ended>>
      /\ UNCHANGED <<subClosed, comp, status>>
  BY DEF CreateRoom, CancelRoom, AskRematch, SendInvite, DropInvite, matchVars, compVars,
         lobbyVars
<1>2. Membership' /\ Paused' /\ SubClosedQuiet' /\ Playing' /\ FreeOutside({})
  BY <1>1, QuietKeeps
<1>3. RoomsLinked' /\ InvitesFresh'
  <2>1. CASE CreateRoom(p)
    <3>1. InvitesFresh'
      BY <1>1, <2>1 DEF CreateRoom, HubInv, InvitesFresh, sessionVars, Online
    <3> QED
      BY <2>1, <3>1, LobbyCreateRoom DEF HubInv
  <2>2. CASE CancelRoom(p)
    <3>1. InvitesFresh'
      BY <1>1, <2>2 DEF CancelRoom, HubInv, InvitesFresh, sessionVars, Online
    <3>2. RoomsLinked'
      BY <1>1, <2>2, NoneOutside
         DEF CancelRoom, CloseRooms, HubInv, TypeOK, RoomsLinked, sessionVars, Online
    <3> QED
      BY <3>1, <3>2
  <2>3. CASE AskRematch(p)
    BY <1>2, <2>3, LobbyKept DEF AskRematch, lobbyVars, HubInv
  <2>4. ASSUME NEW q \in Pid, SendInvite(p, q)
        PROVE  RoomsLinked' /\ InvitesFresh'
    <3>1. Online(p) /\ p \in byID /\ match[p] = None /\ ~subClosed
      BY <2>4, SenderIsThere DEF SendInvite, HubInv
    <3>2. /\ q \in byID /\ Online(q) /\ q # p /\ match[q] = None
          /\ invites' = invites \cup {<<q, p>>} /\ UNCHANGED <<rooms, room>>
      BY <2>4 DEF SendInvite
    <3>3. InvitesFresh'
      BY <1>1, <3>1, <3>2 DEF HubInv, InvitesFresh, sessionVars, Online
    <3>4. RoomsLinked'
      BY <1>1, <3>2 DEF HubInv, RoomsLinked, sessionVars, Online
    <3> QED
      BY <3>3, <3>4
  <2>5. ASSUME NEW q \in Pid, DropInvite(p, q)
        PROVE  RoomsLinked' /\ InvitesFresh'
    <3>1. UNCHANGED <<rooms, room, subClosed>> /\ invites' \subseteq invites
      BY <2>5 DEF DropInvite
    <3> QED
      BY <1>2, <3>1, LobbyKept DEF HubInv
  <2> QED
    BY <2>1, <2>2, <2>3, <2>4, <2>5
<1> QED
  BY <1>1, <1>2, <1>3, SessionsUnchanged DEF HubInv

LEMMA CompStepKeeps ==
    ASSUME HubInv, TypeOK',
           \/ OpenSubArena
           \/ \E K \in SUBSET Key, S \in SUBSET Fixture : CompCreate(K, S)
           \/ \E f \in Fixture : Decide(f) \/ UndoFixture(f)
    PROVE  HubInv'
<1>1. /\ UNCHANGED sessionVars /\ UNCHANGED <<phase, seat, fixture, match, ended>>
      /\ UNCHANGED <<rooms, room, invites>> /\ (subClosed' => subClosed)
  BY DEF OpenSubArena, CompCreate, Decide, UndoFixture, matchVars, lobbyVars
<1>2. Membership' /\ Paused' /\ SubClosedQuiet' /\ FreeOutside({}) /\ Unfinished' = Unfinished
  BY <1>1, QuietKeeps
<1>3. RoomsLinked' /\ InvitesFresh'
  BY <1>1 DEF HubInv, RoomsLinked, InvitesFresh, sessionVars, Online
<1>4. Playing'
  <2>1. CASE OpenSubArena
    BY <1>1, <2>1, QuietKeeps DEF OpenSubArena, compVars
  <2>2. ASSUME NEW K \in SUBSET Key, NEW S \in SUBSET Fixture, CompCreate(K, S) PROVE Playing'
    <3>1. /\ \A f \in comp : status[f] = "done"
          /\ comp' = S
          /\ status' = [f \in Fixture |-> IF f \in S THEN "pending" ELSE status[f]]
      BY <2>2 DEF CompCreate
    <3>2. \A m \in Unfinished : fixture[m] = None
      BY <3>1 DEF HubInv, Playing
    <3> QED
      BY <1>1, <1>2, <3>1, <3>2 DEF Playing
  <2>3. ASSUME NEW f \in Fixture, Decide(f) \/ UndoFixture(f) PROVE Playing'
    <3>1. /\ status[f] # "playing" /\ comp' = comp
          /\ \/ status' = [status EXCEPT ![f] = "done"]
             \/ status' = [status EXCEPT ![f] = "pending"]
      BY <2>3 DEF Decide, UndoFixture
    <3>2. \A g \in Fixture : status'[g] = "playing" <=> status[g] = "playing"
      BY <3>1 DEF HubInv, TypeOK
    <3> QED
      BY <1>1, <1>2, <3>1, <3>2 DEF HubInv, TypeOK, Playing
  <2> QED
    BY <2>1, <2>2, <2>3
<1> QED
  BY <1>1, <1>2, <1>3, <1>4, SessionsUnchanged DEF HubInv

(* A program that has just started: nobody is there, nothing is played. *)
Fresh ==
    /\ ctok = [c \in Conn |-> None] /\ closed = {} /\ byID = {}
    /\ players = [t \in Token |-> None] /\ pconn = [p \in Pid |-> None]
    /\ rooms = [x \in Code |-> None] /\ room = [p \in Pid |-> None]
    /\ invites = {} /\ subClosed = FALSE
    /\ phase = [m \in Mid |-> "unused"] /\ match = [p \in Pid |-> None] /\ ended = {}
    /\ \A f \in comp : status[f] # "playing"

LEMMA FreshInv == TypeOK /\ Fresh => HubInv
<1> SUFFICES ASSUME TypeOK, Fresh PROVE HubInv
  OBVIOUS
<1>1. Tables /\ HeardOrClosed /\ ClosedKnown
  BY NoneOutside DEF Fresh, Tables, HeardOrClosed, ClosedKnown, Online
<1>2. RoomsLinked /\ InvitesFresh
  BY DEF Fresh, RoomsLinked, InvitesFresh
<1>3. Matches = {} /\ Unfinished = {}
  BY DEF Fresh, Matches, Unfinished
<1>4. SubClosedQuiet /\ Membership /\ Paused /\ Playing
  BY <1>3 DEF Fresh, SubClosedQuiet, Membership, Paused, Playing
<1> QED
  BY <1>1, <1>2, <1>4 DEF HubInv

LEMMA RestartKeeps ==
    ASSUME HubInv, Restart
    PROVE  HubInv'
<1>1. TypeOK'
  BY TypeRestart DEF HubInv
<1>2. Fresh'
  BY DEF HubInv, TypeOK, Restart, Fresh
<1> QED
  BY <1>1, <1>2, FreshInv, PTL

LEMMA HubInit == Init => HubInv
BY TypeInit, FreshInv DEF Init, Fresh

LEMMA HubNext == HubInv /\ [Next]_vars => HubInv'
<1> SUFFICES ASSUME HubInv, [Next]_vars PROVE HubInv'
  OBVIOUS
<1>1. TypeOK'
  BY TypeNext DEF HubInv
<1>2. ASSUME NEW c \in Conn, NEW t \in Token, NEW k \in Key, Register(c, t, k) PROVE HubInv'
  BY <1>2, RegisterKeeps
<1>3. ASSUME NEW c \in Conn, Unregister(c) PROVE HubInv'
  BY <1>3, UnregisterKeeps
<1>4. ASSUME NEW p \in Pid, StudentStep(p) PROVE HubInv'
  <2>1. CASE \/ CreateRoom(p) \/ CancelRoom(p) \/ AskRematch(p)
             \/ \E q \in Pid : SendInvite(p, q) \/ DropInvite(p, q)
    BY <1>1, <2>1, LobbyStepKeeps
  <2>2. ASSUME NEW x \in Code, JoinRoom(p, x) PROVE HubInv'
    <3>1. /\ rooms[x] \in Pid /\ UNCHANGED sessionVars
          /\ StartOK(rooms[x], p, None, {}) /\ StartMatch(rooms[x], p, None, {})
      BY <2>2, JoinRoomStarts
    <3> QED
      BY <3>1, StartKeeps
  <2>3. ASSUME NEW q \in Pid, AcceptInvite(p, q) PROVE HubInv'
    BY <2>3, AcceptInviteStarts, StartKeeps
  <2>4. CASE AgreeRematch(p)
    BY <2>4, AgreeRematchStarts, StartKeeps
  <2>5. CASE LeaveMatch(p)
    BY <1>1, <2>5, LeaveMatchKeeps
  <2> QED
    BY <1>4, <2>1, <2>2, <2>3, <2>4, <2>5 DEF StudentStep
<1>5. CASE TeacherStep
  <2>1. CASE CloseSubArena
    BY <1>1, <2>1, CloseSubArenaKeeps
  <2>2. CASE CompClose
    BY <1>1, <2>2, CompCloseKeeps
  <2>3. CASE \/ OpenSubArena
             \/ \E K \in SUBSET Key, S \in SUBSET Fixture : CompCreate(K, S)
             \/ \E f \in Fixture : Decide(f) \/ UndoFixture(f)
    BY <1>1, <2>3, CompStepKeeps
  <2>4. ASSUME NEW f \in Fixture, StartFixture(f) PROVE HubInv'
    BY <2>4, StartFixtureStarts, StartKeeps
  <2>5. ASSUME NEW f \in Fixture, CancelFixture(f) PROVE HubInv'
    BY <1>1, <2>5, CancelFixtureKeeps
  <2> QED
    BY <1>5, <2>1, <2>2, <2>3, <2>4, <2>5 DEF TeacherStep
<1>6. CASE UNCHANGED vars
  <2>1. /\ UNCHANGED sessionVars /\ UNCHANGED <<phase, seat, fixture, match, ended>>
        /\ UNCHANGED <<rooms, room, invites, subClosed, comp, status>>
    BY <1>6 DEF vars, lobbyVars, matchVars, compVars
  <2>2. RoomsLinked' /\ InvitesFresh'
    BY <2>1 DEF HubInv, RoomsLinked, InvitesFresh, sessionVars, Online
  <2> QED
    BY <1>1, <2>1, <2>2, SessionsUnchanged, QuietKeeps DEF HubInv
<1> QED
  BY <1>2, <1>3, <1>4, <1>5, <1>6, TickKeeps, RestartKeeps DEF Next

-----------------------------------------------------------------------------
(* The theorems *)

(* HubInv holds in every reachable state: it holds at the start and every   *)
(* handler of the hub keeps it, in whatever order the channels deliver.     *)
THEOREM HubCorrect == Spec => []HubInv
<1> QED
  BY HubInit, HubNext, PTL DEF Spec

(* Every field and table has the type the code gives it. *)
THEOREM HubTypeCorrect == Spec => []TypeOK
<1>1. HubInv => TypeOK
  BY DEF HubInv
<1> QED
  BY <1>1, HubCorrect, PTL

(* The tables of students agree: a token finds the student who holds it,    *)
(* and a forgotten student has no connection, match or room.                *)
THEOREM SessionMapsCorrect == Spec => []SessionMaps
<1>1. HubInv => SessionMaps
  BY DEF HubInv, TypeOK, Tables, Membership, RoomsLinked, Online, SessionMaps
<1> QED
  BY <1>1, HubCorrect, PTL

(* The current connection of a student is open and carries the student's    *)
(* token; every other connection whose departure is outstanding is closed.  *)
THEOREM HeardOrClosedCorrect == Spec => []HeardOrClosed
<1>1. HubInv => HeardOrClosed
  BY DEF HubInv
<1> QED
  BY <1>1, HubCorrect, PTL

(* Rooms and their owners agree, and an owner is connected and free. *)
THEOREM RoomsCorrect == Spec => []RoomsLinked
<1>1. HubInv => RoomsLinked
  BY DEF HubInv
<1> QED
  BY <1>1, HubCorrect, PTL

(* An open invitation is between two students who are connected and free. *)
THEOREM InvitesCorrect == Spec => []InvitesFresh
<1>1. HubInv => InvitesFresh
  BY DEF HubInv
<1> QED
  BY <1>1, HubCorrect, PTL

(* A closed side arena has no match. *)
THEOREM SubClosedCorrect == Spec => []SubClosedQuiet
<1>1. HubInv => SubClosedQuiet
  BY DEF HubInv
<1> QED
  BY <1>1, HubCorrect, PTL

LEMMA MembersSeats ==
    ASSUME TypeOK, Membership, NEW m \in Matches
    PROVE  \A p : p \in Seats(m) <=> \E s \in Side : p = seat[m][s]
BY NoneOutside DEF Membership, Seats, Side

(* Matches and their students agree: nobody is in two unfinished matches or *)
(* in one that is gone, and an ended match has somebody looking at it.      *)
THEOREM SeatsCorrect == Spec => []SeatsHeld
<1>1. HubInv => SeatsHeld
  <2> SUFFICES ASSUME HubInv PROVE SeatsHeld
    OBVIOUS
  <2>1. ASSUME NEW p \in Pid, match[p] # None PROVE p \in Seats(match[p])
    BY <2>1, NoneOutside DEF HubInv, Membership, Seats
  <2>2. ASSUME NEW m \in Unfinished
        PROVE  /\ seat[m][0] # seat[m][1]
               /\ \A s \in Side : seat[m][s] \in byID /\ match[seat[m][s]] = m
    <3>1. m \in Matches /\ m \in Mid
      BY DEF Unfinished, Matches
    <3>2. seat[m][0] \in Pid /\ seat[m][1] \in Pid /\ seat[m][0] # seat[m][1]
      BY <3>1 DEF HubInv, Membership
    <3>3. \A s \in Side : seat[m][s] \in Pid /\ match[seat[m][s]] = m
      BY <3>2 DEF HubInv, Membership, Side
    <3> QED
      BY <3>1, <3>2, <3>3, NoneOutside DEF HubInv, Membership
  <2>3. ASSUME NEW m \in Matches PROVE \E p \in Seats(m) : match[p] = m
    BY MembersSeats DEF HubInv, Membership
  <2>4. ended = {m \in Mid : phase[m] = "end"}
    BY DEF HubInv, TypeOK, Membership
  <2> QED
    BY <2>1, <2>2, <2>3, <2>4 DEF SeatsHeld
<1> QED
  BY <1>1, HubCorrect, PTL

(* An unfinished match stands still exactly while one of its students is    *)
(* away, whichever connections come and go in which order.                  *)
THEOREM PausedCorrect == Spec => []PausedIffAway
<1>1. HubInv => PausedIffAway
  <2> SUFFICES ASSUME HubInv, NEW m \in Unfinished
               PROVE  phase[m] = "pause" <=> \E p \in Seats(m) : ~Online(p)
    BY DEF PausedIffAway
  <2>1. m \in Matches
    BY DEF Unfinished, Matches
  <2> QED
    BY <2>1, MembersSeats DEF HubInv, Paused
<1> QED
  BY <1>1, HubCorrect, PTL

(* A fixture is "playing" exactly while one unfinished match plays it. *)
THEOREM FixtureCorrect == Spec => []FixturePlaying
<1>1. HubInv => FixturePlaying
  <2> SUFFICES ASSUME HubInv PROVE FixturePlaying
    OBVIOUS
  <2>1. ASSUME NEW f \in comp
        PROVE  Cardinality({m \in Unfinished : fixture[m] = f}) =
                 (IF status[f] = "playing" THEN 1 ELSE 0)
    <3> DEFINE of == {m \in Unfinished : fixture[m] = f}
    <3>1. f # None
      BY NoneOutside DEF HubInv, TypeOK
    <3>2. CASE status[f] = "playing"
      <4>1. PICK m \in Unfinished : fixture[m] = f
        BY <3>2 DEF HubInv, Playing
      <4>2. of = {m}
        BY <3>1, <4>1 DEF HubInv, Playing
      <4> QED
        BY <3>2, <4>2, FS_Singleton
    <3>3. CASE status[f] # "playing"
      <4>1. of = {}
        BY <3>1, <3>3 DEF HubInv, Playing
      <4> QED
        BY <3>3, <4>1, FS_EmptySet
    <3> QED
      BY <3>2, <3>3
  <2>2. \A m \in Unfinished : fixture[m] \in comp \cup {None}
    BY DEF HubInv, Playing
  <2> QED
    BY <2>1, <2>2 DEF FixturePlaying
<1> QED
  BY <1>1, HubCorrect, PTL

(* No student is taken from an unfinished match into another one. *)
THEOREM PulledAwayNever == Spec => NotPulledAway
<1> DEFINE Away(p) == match[p] \in Unfinished /\ match'[p] # match[p]
                        => match'[p] = None /\ phase'[match[p]] \in {"end", "unused"}
<1>1. ASSUME HubInv, [Next]_vars, NEW p \in Pid, match[p] \in Unfinished, match'[p] # match[p]
      PROVE  match'[p] = None /\ phase'[match[p]] \in {"end", "unused"}
  <2>0. match[p] \in Mid /\ phase[match[p]] \in {"live", "pause"}
    BY <1>1 DEF Unfinished
  <2>1. ASSUME NEW a \in Pid, NEW b \in Pid, NEW f \in Fixture \cup {None},
               NEW D \in SUBSET Mid, StartOK(a, b, f, D), StartMatch(a, b, f, D)
        PROVE  match'[p] = match[p]
    <3>1. PICK m \in Mid : Started(m, a, b, f, D)
      BY <1>1, <2>1, StartEffect DEF HubInv
    <3>2. p \notin {a, b} /\ match[p] \notin D
      BY <2>0, <2>1, NoneOutside DEF StartOK
    <3> QED
      BY <3>1, <3>2 DEF Started
  <2>2. ASSUME NEW E \in SUBSET Mid, NEW L \in SUBSET Pid, NEW D \in SUBSET Mid,
               SettleOK(E, L, D), SettleMatches(E, L, D)
        PROVE  match'[p] = None /\ phase'[match[p]] \in {"end", "unused"}
    <3>1. /\ phase'[match[p]] = IF match[p] \in D THEN "unused"
                                ELSE IF match[p] \in E THEN "end" ELSE phase[match[p]]
          /\ match'[p] = IF p \in L \/ (match[p] # None /\ match[p] \in D)
                         THEN None ELSE match[p]
      BY <1>1, <2>0, <2>2, SettleEffect DEF HubInv
    <3>2. match'[p] = None /\ (match[p] \in D \/ p \in L)
      BY <1>1, <3>1
    <3>3. p \in L => match[p] \in E
      BY <2>0, <2>2 DEF SettleOK
    <3> QED
      BY <3>1, <3>2, <3>3
  <2>3. CASE UNCHANGED match
    BY <1>1, <2>3
  <2>4. CASE \E q \in Pid : StudentStep(q)
    <3>1. PICK q \in Pid : StudentStep(q)
      BY <2>4
    <3>2. ASSUME NEW x \in Code, JoinRoom(q, x) PROVE FALSE
      <4>1. /\ rooms[x] \in Pid
            /\ StartOK(rooms[x], q, None, {}) /\ StartMatch(rooms[x], q, None, {})
        BY <1>1, <3>2, JoinRoomStarts
      <4> QED
        BY <1>1, <2>1, <4>1
    <3>3. ASSUME NEW r \in Pid, AcceptInvite(q, r) PROVE FALSE
      BY <1>1, <2>1, <3>3, AcceptInviteStarts
    <3>4. CASE AgreeRematch(q)
      BY <1>1, <2>1, <3>4, AgreeRematchStarts
    <3>5. CASE LeaveMatch(q)
      BY <1>1, <2>2, <3>5, LeaveMatchSettles DEF Settle
    <3>6. CASE \/ CreateRoom(q) \/ CancelRoom(q) \/ AskRematch(q)
               \/ \E r \in Pid : SendInvite(q, r) \/ DropInvite(q, r)
      BY <2>3, <3>6 DEF CreateRoom, CancelRoom, AskRematch, SendInvite, DropInvite, matchVars
    <3> QED
      BY <3>1, <3>2, <3>3, <3>4, <3>5, <3>6 DEF StudentStep
  <2>5. CASE TeacherStep
    <3>1. ASSUME NEW f, CloseSubArena \/ CompClose \/ CancelFixture(f)
          PROVE  match'[p] = None /\ phase'[match[p]] \in {"end", "unused"}
      <4>1. PICK D \in SUBSET Mid : SettleOK({}, {}, D) /\ SettleMatches({}, {}, D)
        BY <1>1, <3>1, TeacherSettles
      <4> QED
        BY <2>2, <4>1
    <3>2. ASSUME NEW f \in Fixture, StartFixture(f) PROVE FALSE
      BY <1>1, <2>1, <3>2, StartFixtureStarts
    <3>3. CASE \/ OpenSubArena
               \/ \E K \in SUBSET Key, S \in SUBSET Fixture : CompCreate(K, S)
               \/ \E f \in Fixture : Decide(f) \/ UndoFixture(f)
      BY <2>3, <3>3 DEF OpenSubArena, CompCreate, Decide, UndoFixture, matchVars
    <3> QED
      BY <2>5, <3>1, <3>2, <3>3 DEF TeacherStep
  <2>6. CASE Tick
    <3>1. PICK E \in SUBSET Mid, D \in SUBSET Mid : SettleOK(E, {}, D) /\ SettleMatches(E, {}, D)
      BY <1>1, <2>6, TickSettles DEF Settle
    <3> QED
      BY <2>2, <3>1
  <2>7. CASE Restart
    BY <2>0, <2>7 DEF Restart
  <2>8. CASE \/ \E c \in Conn, t \in Token, k \in Key : Register(c, t, k)
             \/ \E c \in Conn : Unregister(c)
             \/ UNCHANGED vars
    BY <2>3, <2>8 DEF Register, Unregister, vars, matchVars
  <2> QED
    BY <1>1, <2>4, <2>5, <2>6, <2>7, <2>8 DEF Next
<1>2. HubInv /\ [Next]_vars => [\A p \in Pid : Away(p)]_vars
  BY <1>1
<1> QED
  BY <1>2, HubCorrect, PTL DEF Spec, NotPulledAway

(* A result enters the competition only from a match of the fixture that    *)
(* ends in this step, was not paused and had both its students connected.   *)
THEOREM RecordsArePlayed == Spec => RecordOnlyPlayed
<1> DEFINE Played(f) == by'[f] = "match" /\ by[f] # "match"
                          => \E m \in Mid : /\ fixture[m] = f /\ phase[m] = "live"
                                            /\ phase'[m] = "end"
                                            /\ \A s \in Side : Online(seat[m][s])
<1>1. ASSUME HubInv, [Next]_vars, NEW f \in Fixture, by'[f] = "match", by[f] # "match"
      PROVE  \E m \in Mid : /\ fixture[m] = f /\ phase[m] = "live" /\ phase'[m] = "end"
                            /\ \A s \in Side : Online(seat[m][s])
  <2>1. ASSUME NEW E \in SUBSET Mid, NEW L \in SUBSET Pid, NEW D \in SUBSET Mid,
               SettleOK(E, L, D), SettleMatches(E, L, D), SettleFixtures(E, D)
        PROVE  \E m \in Mid : /\ fixture[m] = f /\ phase[m] = "live" /\ phase'[m] = "end"
                              /\ \A s \in Side : Online(seat[m][s])
    <3>1. f \in Recorded(E)
      BY <1>1, <2>1 DEF SettleFixtures
    <3>2. PICK m \in E : fixture[m] = f
      BY <3>1 DEF Recorded
    <3>3. phase[m] = "live" /\ m \notin D
      BY <2>1 DEF SettleOK
    <3>4. phase'[m] = "end"
      BY <1>1, <2>1, <3>3, SettleEffect DEF HubInv
    <3>5. \A s \in Side : Online(seat[m][s])
      BY <1>1, <3>3 DEF HubInv, Paused, Unfinished
    <3> QED
      BY <3>2, <3>3, <3>4, <3>5
  <2>2. CASE \E q \in Pid : LeaveMatch(q)
    BY <1>1, <2>1, <2>2, LeaveMatchSettles DEF Settle
  <2>3. CASE Tick
    <3>1. PICK E \in SUBSET Mid, D \in SUBSET Mid : SettleOK(E, {}, D) /\ Settle(E, {}, D)
      BY <1>1, <2>3, TickSettles
    <3> QED
      BY <2>1, <3>1 DEF Settle
  <2>4. CASE CloseSubArena \/ CompClose
    <3>1. PICK D \in SUBSET Matches : SettleMatches({}, {}, D) /\ SettleFixtures({}, D)
      BY <2>4 DEF CloseSubArena, CompClose, Settle, Unfinished, Matches
    <3>2. SettleOK({}, {}, D) /\ D \in SUBSET Mid
      BY DEF SettleOK, Matches
    <3> QED
      BY <2>1, <3>1, <3>2
  <2>5. CASE UNCHANGED by
    BY <1>1, <2>5
  <2>6. ASSUME NEW g \in Fixture, Decide(g) \/ UndoFixture(g) PROVE FALSE
    <3>1. by' = [by EXCEPT ![g] = "teacher"] \/ by' = [by EXCEPT ![g] = None]
      BY <2>6 DEF Decide, UndoFixture
    <3>2. by \in [Fixture -> {None, "match", "teacher"}]
      BY <1>1 DEF HubInv, TypeOK
    <3> QED
      BY <1>1, <3>1, <3>2, HubAssumption
  <2>7. ASSUME NEW K, NEW S, CompCreate(K, S) PROVE FALSE
    <3>1. by'[f] = None \/ by'[f] = by[f]
      BY <2>7 DEF CompCreate
    <3> QED
      BY <1>1, <3>1, HubAssumption
  <2>8. CASE \/ \E q \in Pid : \/ CreateRoom(q) \/ CancelRoom(q) \/ AskRematch(q) \/ AgreeRematch(q)
                               \/ \E x \in Code : JoinRoom(q, x)
                               \/ \E r \in Pid : \/ SendInvite(q, r) \/ DropInvite(q, r)
                                                \/ AcceptInvite(q, r)
             \/ OpenSubArena \/ \E g \in Fixture : StartFixture(g) \/ CancelFixture(g)
    <3>1. CASE \E q \in Pid : \/ CreateRoom(q) \/ CancelRoom(q) \/ AskRematch(q) \/ AgreeRematch(q)
                             \/ \E x \in Code : JoinRoom(q, x)
      <4>1. UNCHANGED by
        BY <3>1 DEF CreateRoom, CancelRoom, AskRematch, AgreeRematch, JoinRoom, StartMatch, compVars
      <4> QED
        BY <2>5, <4>1
    <3>2. CASE \E q, r \in Pid : \/ SendInvite(q, r) \/ DropInvite(q, r) \/ AcceptInvite(q, r)
      <4>1. UNCHANGED by
        BY <3>2 DEF SendInvite, DropInvite, AcceptInvite, StartMatch, compVars
      <4> QED
        BY <2>5, <4>1
    <3>3. CASE OpenSubArena \/ \E g \in Fixture : StartFixture(g) \/ CancelFixture(g)
      <4>1. UNCHANGED by
        BY <3>3 DEF OpenSubArena, StartFixture, CancelFixture, StartMatch, compVars
      <4> QED
        BY <2>5, <4>1
    <3> QED
      BY <2>8, <3>1, <3>2, <3>3
  <2>9. CASE \/ \E c \in Conn, t \in Token, k \in Key : Register(c, t, k)
             \/ \E c \in Conn : Unregister(c)
             \/ Restart \/ UNCHANGED vars
    BY <2>5, <2>9 DEF Register, Unregister, Restart, vars, compVars
  <2> QED
    BY <1>1, <2>2, <2>3, <2>4, <2>6, <2>7, <2>8, <2>9 DEF Next, StudentStep, TeacherStep
<1>2. HubInv /\ [Next]_vars => [\A f \in Fixture : Played(f)]_vars
  BY <1>1
<1> QED
  BY <1>2, HubCorrect, PTL DEF Spec, RecordOnlyPlayed

(* The process is killed only, and always, by the departure of a connection *)
(* whose token is no longer in the list of students: closing the channel of *)
(* a replaced tab or of a current connection never is the second close      *)
(* (hub.go:154-163, 208-216).                                               *)
THEOREM KilledByUnknownOnly ==
    Spec => [][/\ \A c \in Conn : Unregister(c) => (panicked' <=> players[ctok[c]] = None)
               /\ panicked' /\ ~panicked => \E c \in Conn : Unregister(c)]_vars
<1> DEFINE Kills == /\ \A c \in Conn : Unregister(c) => (panicked' <=> players[ctok[c]] = None)
                    /\ panicked' /\ ~panicked => \E c \in Conn : Unregister(c)
<1>1. ASSUME HubInv, [Next]_vars PROVE Kills
  <2>1. TypeOK /\ Sessions
    BY <1>1 DEF HubInv, Sessions
  <2>2. \A c \in Conn : Unregister(c) => (panicked' <=> players[ctok[c]] = None)
    BY <2>1, UnregisterHarm
  <2>3. CASE \E c \in Conn, t \in Token, k \in Key : Register(c, t, k)
    BY <2>1, <2>2, <2>3, RegisterHarmless
  <2>4. CASE UNCHANGED panicked
    BY <2>2, <2>4
  <2>5. CASE \E p \in Pid : StudentStep(p)
    BY <2>4, <2>5 DEF StudentStep, CreateRoom, CancelRoom, JoinRoom, SendInvite, DropInvite,
         AcceptInvite, AskRematch, AgreeRematch, LeaveMatch, sessionVars
  <2>6. CASE TeacherStep
    BY <2>4, <2>6 DEF TeacherStep, CloseSubArena, OpenSubArena, CompClose, CompCreate,
         StartFixture, Decide, CancelFixture, UndoFixture, sessionVars
  <2>7. CASE Tick \/ UNCHANGED vars
    BY <2>4, <2>7 DEF Tick, vars, sessionVars
  <2>8. CASE Restart
    BY <2>2, <2>8 DEF Restart
  <2>9. CASE \E c \in Conn : Unregister(c)
    BY <2>2, <2>9
  <2> QED
    BY <1>1, <2>3, <2>5, <2>6, <2>7, <2>8, <2>9 DEF Next
<1>2. HubInv /\ [Next]_vars => [Kills]_vars
  BY <1>1
<1> QED
  BY <1>2, HubCorrect, PTL DEF Spec
=============================================================================
