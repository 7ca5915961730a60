------------------------------ MODULE Delivery ------------------------------
(***************************************************************************)
(* What one student's screen shows of what the hub knows: the messages of  *)
(* the hub (hub.go, hub_comp.go), the buffered connection they take, and   *)
(* the page that reads them (student.html).                                *)
(*                                                                         *)
(* The hub never waits for a connection: a message for which the buffer    *)
(* has no room is dropped (sendTo).  The states of a running match are     *)
(* sent again and again; a start, an end, a cancellation and a lobby list  *)
(* are sent once.  A page that has no match ignores states, and a state    *)
(* does not say which match it is of.                                      *)
(*                                                                         *)
(* The opponent, the teacher and the rest of the class may do anything at  *)
(* any time; Hub.tla has what they can do and when.  The buffer stands for *)
(* client.send and the network behind it.                                  *)
(***************************************************************************)
EXTENDS Integers, Sequences

CONSTANTS
    Cap,        \* messages under way to the page
    MatchCap,   \* bound: matches the student is put into
    VerCap      \* bound: changes in one match

ASSUME DeliveryAssumption ==
    /\ Cap \in Nat /\ Cap >= 2    \* what onRegister sends fits
    /\ MatchCap \in Nat /\ VerCap \in Nat

VARIABLES
    cur, last,   \* Player.match as a number, 0 for nil; the last number given
    main,        \* it plays a fixture (Match.fixture)
    phase, ver,  \* Match.phase and the number of changes since its start
    behind,      \* an ended side match the student has left is still kept
    dirty,       \* Hub.lobbyDirty
    conn,        \* "up"; "broken", not noticed by the hub; "none", Player.conn = nil
    chan,        \* what is under way to the page
    leaving,     \* a "leave" is under way to the hub
    pmatch,      \* the page: match, 0 for null
    shown,       \* the page: st, the state it shows
    plob,        \* the page: lobby; of the list it holds, whether it says that
                 \* the student is in a match
    apart        \* history: since the connection was registered, a message that
                 \* is not sent again was dropped, or one about another match was
                 \* sent; or the page was in a match that was gone by then

hubVars  == <<cur, last, main, phase, ver, behind, dirty>>
pageVars == <<pmatch, shown, plob>>
vars     == <<hubVars, conn, chan, leaving, pageVars, apart>>

NoFrame == [match |-> 0, ver |-> 0, phase |-> "none"]
Frames  == [match : 1..MatchCap, ver : 0..VerCap, phase : {"on", "pause", "end"}]
Lobbies == {"none", "idle", "match"}

(* matchState, matchStartMsg, cancelMatch, broadcastLobby *)
Frame          == [match |-> cur, ver |-> ver, phase |-> phase]
StateMsg(ph)   == [t |-> "s", frame |-> [Frame EXCEPT !.phase = ph]]
StartMsg(m)    == [t |-> "match", match |-> m]
CancelMsg      == [t |-> "cancelled"]
LobbyNow       == IF cur # 0 THEN "match" ELSE "idle"
LobbyMsg       == [t |-> "lobby", lobby |-> LobbyNow]
Live           == cur # 0 /\ phase # "end"

Messages ==
    [t : {"s"}, frame : Frames] \cup [t : {"match"}, match : 1..MatchCap]
      \cup [t : {"cancelled"}] \cup [t : {"lobby"}, lobby : Lobbies]

Init ==
    /\ cur = 0 /\ last = 0 /\ main = FALSE /\ phase = "none" /\ ver = 0
    /\ behind = FALSE /\ dirty = FALSE
    /\ conn = "none" /\ chan = <<>> /\ leaving = FALSE
    /\ pmatch = 0 /\ shown = NoFrame /\ plob = "none" /\ apart = FALSE

-----------------------------------------------------------------------------
(* Sending *)

Least(a, b) == IF a < b THEN a ELSE b
SentAgain(msg) == msg.t = "s" /\ msg.frame.phase # "end"

(* Mutant: the hub queues without limit. *)
SendUnlimited(msgs, stray) ==
    /\ chan' = IF conn = "up" THEN chan \o msgs ELSE chan
    /\ apart' = (apart \/ (conn = "up" /\ stray))

(* sendTo for the messages of one handler: what does not fit is dropped. *)
Send(msgs, stray) ==
    LET fit == Least(Cap - Len(chan), Len(msgs))
    IN  /\ chan' = IF conn = "up" THEN chan \o SubSeq(msgs, 1, fit) ELSE chan
        /\ apart' = (apart \/ (conn = "up" /\
                       (stray \/ \E i \in (fit + 1)..Len(msgs) : ~SentAgain(msgs[i]))))

NoMatch == cur' = 0 /\ main' = FALSE /\ phase' = "none" /\ ver' = 0

-----------------------------------------------------------------------------
(* Matches *)

(* A match the student is in is left by the student alone; a side match is  *)
(* kept while the opponent looks at its end.                                *)
LeftBehind == behind' \in {behind, behind \/ ~main}

(* startMatch: of a room or an invitation from the lobby, of a fixture also *)
(* from an end screen (detachEnded).                                        *)
Start(fx) ==
    /\ conn # "none" /\ last < MatchCap
    /\ \/ cur = 0 /\ UNCHANGED behind
       \/ fx /\ phase = "end" /\ LeftBehind
    /\ cur' = last + 1 /\ last' = last + 1 /\ main' = fx /\ phase' = "on" /\ ver' = 0
    /\ Send(<<StartMsg(last + 1)>>, FALSE)
    /\ dirty' = TRUE
    /\ UNCHANGED <<conn, leaving, pageVars>>

(* requestRematch by the first of the two *)
AskRematch ==
    /\ phase = "end" /\ ~main
    /\ Send(<<StateMsg("end")>>, FALSE)
    /\ UNCHANGED <<hubVars, conn, leaving, pageVars>>

(* requestRematch by the second: the ended match is shown once more, then   *)
(* the new one starts.                                                      *)
Rematch ==
    /\ phase = "end" /\ ~main /\ conn # "none" /\ last < MatchCap
    /\ cur' = last + 1 /\ last' = last + 1 /\ phase' = "on" /\ ver' = 0
    /\ Send(<<StateMsg("end"), StartMsg(last + 1)>>, FALSE)
    /\ dirty' = TRUE
    /\ UNCHANGED <<main, behind, conn, leaving, pageVars>>

(* The match goes on; the opponent is gone, or back. *)
Change ==
    /\ \/ phase = "on" /\ ver < VerCap /\ ver' = ver + 1 /\ UNCHANGED phase
       \/ phase = "on" /\ phase' = "pause" /\ UNCHANGED ver
       \/ phase = "pause" /\ conn # "none" /\ phase' = "on" /\ UNCHANGED ver
    /\ dirty' \in {dirty, TRUE}
    /\ UNCHANGED <<cur, last, main, behind, conn, chan, leaving, pageVars, apart>>

(* Mutant: the end of a match is left to the broadcast. *)
EndSilently ==
    /\ phase = "on" /\ phase' = "end" /\ dirty' = TRUE
    /\ UNCHANGED <<cur, last, main, ver, behind, conn, chan, leaving, pageVars, apart>>

(* endMatch by the rules or by the opponent who leaves *)
End ==
    /\ phase = "on" /\ phase' = "end"
    /\ Send(<<StateMsg("end")>>, FALSE)
    /\ dirty' = TRUE
    /\ UNCHANGED <<cur, last, main, ver, behind, conn, leaving, pageVars>>

(* cancelMatch: by the teacher, or by the opponent who does not wait *)
Cancel ==
    /\ Live /\ (main \/ phase = "pause")
    /\ NoMatch /\ Send(<<CancelMsg>>, FALSE)
    /\ dirty' = TRUE
    /\ UNCHANGED <<last, behind, conn, leaving, pageVars>>

(* closeSubArena: every side match is cancelled, and whoever played in it   *)
(* is told so, also who has left it since.                                  *)
CloseArena ==
    LET mine  == IF cur # 0 /\ ~main THEN <<CancelMsg>> ELSE <<>>
        other == IF behind THEN <<CancelMsg>> ELSE <<>>
    IN  /\ IF cur # 0 /\ ~main THEN NoMatch ELSE UNCHANGED <<cur, main, phase, ver>>
        /\ Send(mine \o other, behind /\ main)
        /\ behind' = FALSE /\ dirty' = TRUE
        /\ UNCHANGED <<last, conn, leaving, pageVars>>

(* dropMatch after the end screen has lingered, or both were away for long: *)
(* nobody is told.                                                          *)
Drop ==
    /\ cur # 0 /\ (phase = "end" \/ (phase = "pause" /\ conn = "none"))
    /\ NoMatch /\ dirty' = TRUE
    /\ UNCHANGED <<last, behind, conn, chan, leaving, pageVars, apart>>

(* dropMatch of the side match the student has left *)
DropBehind ==
    /\ behind /\ behind' = FALSE /\ dirty' = TRUE
    /\ UNCHANGED <<cur, last, main, phase, ver, conn, chan, leaving, pageVars, apart>>

(* Anything else in the lobby list changes. *)
LobbyChange ==
    /\ dirty' = TRUE
    /\ UNCHANGED <<cur, last, main, phase, ver, behind, conn, chan, leaving, pageVars, apart>>

(* leaveMatch: the student's "leave", read by the match of this moment. *)
HandleLeave ==
    /\ leaving /\ conn # "none" /\ leaving' = FALSE
    /\ CASE phase = "none"  -> /\ Send(<<>>, FALSE)
                               /\ UNCHANGED <<cur, main, phase, ver, behind, dirty>>
         [] phase = "pause" -> /\ NoMatch /\ Send(<<CancelMsg>>, FALSE)
                               /\ dirty' = TRUE /\ UNCHANGED behind
         [] phase = "on"    -> /\ NoMatch /\ Send(<<StateMsg("end")>>, FALSE)
                               /\ dirty' = TRUE /\ behind' = (behind \/ ~main)
         [] phase = "end"   -> /\ NoMatch /\ Send(<<>>, FALSE)
                               /\ dirty' = TRUE /\ LeftBehind
    /\ UNCHANGED <<last, conn, pageVars>>

-----------------------------------------------------------------------------
(* Mutant: a match that waits for a student is not sent any more. *)
TickMsgsRunning(six) ==
    (IF cur # 0 /\ phase = "on" THEN <<StateMsg(phase)>> ELSE <<>>)
      \o (IF six /\ dirty THEN <<LobbyMsg>> ELSE <<>>)

(* What a tick sends: the match, in every sixth tick then the lobby list. *)
TickMsgs(six) ==
    (IF Live THEN <<StateMsg(phase)>> ELSE <<>>)
      \o (IF six /\ dirty THEN <<LobbyMsg>> ELSE <<>>)

(* onTick: the flag is cleared whether the list was dropped or not. *)
Tick(six) ==
    /\ Send(TickMsgs(six), FALSE)
    /\ dirty' = (dirty /\ ~six)
    /\ UNCHANGED <<cur, last, main, phase, ver, behind, conn, leaving, pageVars>>

-----------------------------------------------------------------------------
(* The connection *)

(* It breaks; what was under way is lost, a "leave" perhaps not yet. *)
Lose ==
    /\ conn = "up" /\ conn' = "broken" /\ chan' = <<>>
    /\ leaving' \in {leaving, FALSE}
    /\ UNCHANGED <<hubVars, pageVars, apart>>

(* onUnregister *)
Unregister ==
    /\ conn = "broken" /\ conn' = "none" /\ leaving' = FALSE
    /\ phase' = IF phase = "on" THEN "pause" ELSE phase
    /\ dirty' = TRUE
    /\ UNCHANGED <<cur, last, main, ver, behind, chan, pageVars, apart>>

(* onRegister: the page connects again (student.html, connect), before or   *)
(* after the loss was noticed; the match goes on if the opponent is there.  *)
Register ==
    /\ conn # "up" /\ conn' = "up" /\ leaving' = FALSE
    /\ phase' \in IF phase = "pause" THEN {"pause", "on"} ELSE {phase}
    /\ chan' = IF cur # 0 THEN <<StartMsg(cur), StateMsg(phase')>> ELSE <<>>
    /\ dirty' = TRUE
    /\ apart' = (cur = 0 /\ pmatch # 0 /\ shown.phase # "end")
    /\ UNCHANGED <<cur, last, main, ver, behind, pageVars>>

-----------------------------------------------------------------------------
(* The page *)

(* Mutant: the last state of the old match stays on the screen. *)
StartGameKeep(m) == pmatch' = m /\ UNCHANGED shown

(* startGame: a match that is new to the page starts with an empty field. *)
StartGame(m) ==
    /\ pmatch' = m
    /\ shown' = IF m = pmatch THEN shown ELSE NoFrame

(* onMsg *)
Receive ==
    /\ chan # <<>> /\ chan' = Tail(chan)
    /\ LET msg == Head(chan) IN
        CASE msg.t = "match"     -> StartGame(msg.match) /\ UNCHANGED plob
          [] msg.t = "s"         -> /\ shown' = IF pmatch = 0 THEN shown ELSE msg.frame
                                    /\ UNCHANGED <<pmatch, plob>>
          [] msg.t = "cancelled" -> pmatch' = 0 /\ shown' = NoFrame /\ UNCHANGED plob
          [] msg.t = "lobby"     -> plob' = msg.lobby /\ UNCHANGED <<pmatch, shown>>
    /\ UNCHANGED <<hubVars, conn, leaving, apart>>

(* leaveGame: the page is in the lobby at once; the message is only sent    *)
(* over an open connection.                                                 *)
LeaveGame ==
    /\ pmatch # 0 /\ ~leaving
    /\ pmatch' = 0 /\ shown' = NoFrame
    /\ leaving' = (conn = "up")
    /\ UNCHANGED <<hubVars, conn, chan, plob, apart>>

(* The page is loaded again: it has forgotten everything. *)
Reload ==
    /\ conn' = IF conn = "up" THEN "broken" ELSE conn
    /\ chan' = <<>>
    /\ pmatch' = 0 /\ shown' = NoFrame /\ plob' = "none"
    /\ UNCHANGED <<hubVars, leaving, apart>>

Next ==
    \/ \E fx \in BOOLEAN : Start(fx)
    \/ AskRematch \/ Rematch \/ Change \/ End \/ Cancel \/ CloseArena \/ Drop \/ DropBehind
    \/ LobbyChange \/ HandleLeave
    \/ \E six \in BOOLEAN : Tick(six)
    \/ Lose \/ Unregister \/ Register
    \/ Receive \/ LeaveGame \/ Reload

Spec == Init /\ [][Next]_vars

(* The hub ticks for ever, and what is under way on a connection that stays *)
(* open arrives.                                                            *)
FairSpec == Spec /\ WF_vars(\E six \in BOOLEAN : Tick(six)) /\ WF_vars(Receive)

-----------------------------------------------------------------------------
(* No more is under way than the buffer holds, and the page shows nothing   *)
(* that was never the case.                                                 *)
TypeOK ==
    /\ cur \in 0..last /\ last \in 0..MatchCap /\ main \in BOOLEAN
    /\ phase \in {"none", "on", "pause", "end"} /\ (phase = "none" <=> cur = 0)
    /\ ver \in 0..VerCap /\ behind \in BOOLEAN
    /\ dirty \in BOOLEAN
    /\ conn \in {"up", "broken", "none"} /\ leaving \in BOOLEAN /\ apart \in BOOLEAN
    /\ chan \in Seq(Messages) /\ Len(chan) <= Cap
    /\ pmatch \in 0..last /\ shown \in Frames \cup {NoFrame} /\ plob \in Lobbies

(* Whenever everything that was sent has arrived, the screen agrees with    *)
(* the hub, however connections were lost and the page left and reloaded:   *)
(* it is in the student's match, shows the end of one that has ended, is in *)
(* no match that is gone except on its end screen, and has the lobby list.  *)
(* Only a dropped message that is not sent again, a message about another   *)
(* match, and a match that ended while the student was away, are excepted.  *)
InStep ==
    conn = "up" /\ chan = <<>> /\ ~leaving /\ ~apart =>
      /\ cur = 0 => pmatch = 0 \/ shown.phase = "end"
      /\ cur # 0 => /\ pmatch = cur /\ shown.match \in {0, cur}
                    /\ phase = "end" => shown = Frame
      /\ ~dirty => plob = LobbyNow

(* What a page shows of a match only moves forward and never mixes two      *)
(* matches, although states do not name their match.                        *)
NeverBack ==
    [][pmatch' = pmatch /\ shown # NoFrame /\ shown' # NoFrame /\ ~apart'
          => /\ shown'.match = shown.match /\ shown'.ver >= shown.ver
             /\ shown.phase = "end" => shown' = shown]_vars

(* "The next state sends everything again" (hub.go:239): however many       *)
(* states of a running or waiting match are dropped, a page that is in the  *)
(* match and keeps its connection gets to show it as it is.                 *)
Watching  == conn = "up" /\ Live /\ pmatch = cur
CatchesUp ==
    \/ []<>(~Watching \/ shown = Frame)
    \/ []<><<Frame' # Frame>>_vars

-----------------------------------------------------------------------------
(* What the program says of itself and does not keep *)

(* Closing the side arena leaves the main arena, the matches of the         *)
(* competition, alone (hub_comp.go:169): a student who plays a fixture is   *)
(* put out of it on the screen only by leaving it or by loading the page.   *)
MainArenaLeftAlone ==
    [][main /\ cur # 0 /\ main' /\ cur' = cur /\ pmatch = cur /\ pmatch' # pmatch
          => leaving' \/ conn' # "up"]_vars
=============================================================================
