-------------------------------- MODULE Presence --------------------------------
(* Who else is here: the room of a document or a page in CollaborationHub           *)
(* (services/collaboration.py), the socket's handler (api/collaboration.py) and the   *)
(* list each client keeps of it (lib/collaboration.ts).                               *)
(*                                                                                   *)
(* The hub lives in one event loop: what lies between two awaits is one step.  The     *)
(* slots of a room are keyed by the session of a login, which several windows share.   *)
(* What a socket was sent before it closed arrives or is lost with it.                 *)
(*                                                                                   *)
(* A socket's undone are the sessions whose coming or going it was told of before its  *)
(* snapshot, which is older and has them otherwise.                                    *)
EXTENDS Screen, Naturals, Sequences

CONSTANTS
    CoSessions,  \* how many sessions; they are numbered as they come
    CoOps        \* bound on what users do: the sockets they open and the events they send

VARIABLE co

Sockets == DOMAIN co.sockets
Sessions == 1..CoSessions

\* A client's list is how often each session is on it; a message from the hub has each once.
OnList(users) == [s \in Sessions |-> IF s \in users THEN 1 ELSE 0]
Holders(s) == {s.room[session] : session \in DOMAIN s.room}

-------------------------------------------------------------------------------
(* The client *)

Connect ==
    /\ co.ops > 0
    /\ \E session \in Sessions :
          /\ \A s \in 1..(session - 1) : \E c \in Sockets : co.sockets[c].session = s
          /\ co' = [co EXCEPT !.ops = @ - 1,
                              !.sockets = Append(@, [session |-> session, open |-> TRUE, step |-> "asked",
                                                     inbox |-> <<>>, shown |-> OnList({}), tell |-> Null, to |-> {},
                                                     undone |-> {}])]

\* A mutant: whoever joined is put on the list, be they there already or not.
PutOnList(shown, session) == [shown EXCEPT ![session] = @ + 1]

ListedOnce(shown, session) == [shown EXCEPT ![session] = IF @ = 0 THEN 1 ELSE @]
GoneFrom(shown, session) == [shown EXCEPT ![session] = 0]

Receive(c) ==
    /\ co.sockets[c].open /\ co.sockets[c].inbox # <<>>
    /\ LET m == Head(co.sockets[c].inbox)
           now == CASE m.type = "snapshot" -> OnList(m.users)
                    [] m.type = "joined" -> ListedOnce(co.sockets[c].shown, m.user)
                    [] m.type = "left" -> GoneFrom(co.sockets[c].shown, m.user)
                    [] m.type = "event" -> co.sockets[c].shown
       IN co' = [co EXCEPT !.sockets[c].inbox = Tail(@), !.sockets[c].shown = now]

\* Leaving the page closes the socket; the service hears of it later.
CloseSocket(c) ==
    /\ co.sockets[c].open
    /\ co' = [co EXCEPT !.sockets[c] = [@ EXCEPT !.open = FALSE, !.shown = OnList({}), !.inbox = <<>>,
                                               !.undone = {}]]

-------------------------------------------------------------------------------
(* The handler of a socket *)

\* While a handler has yet to send its snapshot, that is what it tells.
Outdates(m, socket) == socket.step = "greeting" /\ (m.type = "joined" <=> m.user \notin socket.tell.users)
Undone(m, socket) ==
    IF m.type \notin {"joined", "left"} THEN socket.undone
    ELSE IF Outdates(m, socket) THEN socket.undone \cup {m.user}
    ELSE socket.undone \ {m.user}

Delivered(s, c, m) ==
    LET socket == s.sockets[c]
        got == [socket EXCEPT !.inbox = Append(@, m), !.undone = Undone(m, socket)]
    IN IF socket.open THEN [s EXCEPT !.sockets[c] = got] ELSE s

Refuse(c) ==
    /\ co.sockets[c].step = "asked"
    /\ co' = [co EXCEPT !.sockets[c] = [@ EXCEPT !.open = FALSE, !.step = "over"]]

\* The slot is taken, and the snapshot, under the lock.
Join(c) ==
    /\ co.sockets[c].step = "asked"
    /\ LET s == co.sockets[c].session
           room == [k \in DOMAIN co.room \cup {s} |-> IF k = s THEN c ELSE co.room[k]]
       IN co' = [co EXCEPT !.room = room,
                           !.torn = @ \/ \E b \in Sockets \ {c} : /\ co.sockets[b].session = s
                                                                  /\ co.sockets[b].step \notin {"asked", "over"},
                           !.sockets[c].step = "greeting",
                           !.sockets[c].tell = [type |-> "snapshot", users |-> DOMAIN room]]

\* The snapshot is sent after it.  Sending to a socket that has closed fails; the join is
\* outside the handler's try, so its slot is never given up.
Greet(c) ==
    /\ co.sockets[c].step = "greeting"
    /\ LET me == co.sockets[c]
           told == Delivered(co, c, me.tell)
       IN co' = IF me.open
                THEN [told EXCEPT !.sockets[c].step = "broadcast",
                                  !.sockets[c].tell = [type |-> "joined", user |-> me.session]]
                ELSE [co EXCEPT !.sockets[c].step = "over", !.sockets[c].tell = Null, !.torn = TRUE]

\* To whom a handler still tells what; then it waits for what its client says, or is over.
Telling(s, c, targets) ==
    IF targets # {} THEN [s EXCEPT !.sockets[c].to = targets]
    ELSE [s EXCEPT !.sockets[c] = [@ EXCEPT !.tell = Null, !.to = {},
                                            !.step = IF co.sockets[c].tell.type = "left" THEN "over" ELSE "receiving"]]

\* Only the targets are chosen under the lock; the messages are sent after it.
Broadcast(c) ==
    /\ co.sockets[c].step = "broadcast"
    /\ LET others == {co.room[k] : k \in DOMAIN co.room \ {co.sockets[c].session}}
           targets == IF co.sockets[c].tell.type = "left" THEN Holders(co) ELSE others
       IN co' = Telling([co EXCEPT !.sockets[c].step = "telling"], c, targets)

\* To a socket that has closed a message is lost, or sending it fails with an error that
\* ends the telling: what was left untold stays so, and the handler leaves or is over.
Tell(c) ==
    /\ co.sockets[c].step = "telling"
    /\ \E d \in co.sockets[c].to :
          \/ co' = Telling(Delivered(co, d, co.sockets[c].tell), c, co.sockets[c].to \ {d})
          \/ /\ ~co.sockets[d].open
             /\ co' = [co EXCEPT !.torn = TRUE,
                                 !.sockets[c] = [@ EXCEPT !.tell = Null, !.to = {},
                                    !.step = IF co.sockets[c].tell.type = "event" THEN "leaving" ELSE "over"]]

Say(c) ==
    /\ co.sockets[c].step = "receiving" /\ co.sockets[c].open /\ co.ops > 0
    /\ co' = [co EXCEPT !.ops = @ - 1, !.sockets[c].step = "broadcast", !.sockets[c].tell = [type |-> "event"]]

Disconnected(c) ==
    /\ co.sockets[c].step = "receiving" /\ ~co.sockets[c].open
    /\ co' = [co EXCEPT !.sockets[c].step = "leaving"]

\* The slot of the session is given up, whichever socket holds it by now.
Leave(c) ==
    /\ co.sockets[c].step = "leaving"
    /\ LET s == co.sockets[c].session
           room == [k \in DOMAIN co.room \ {s} |-> co.room[k]]
       IN co' = IF s \in DOMAIN co.room
                THEN [co EXCEPT !.room = room, !.sockets[c].step = "broadcast",
                                !.sockets[c].tell = [type |-> "left", user |-> s]]
                ELSE [co EXCEPT !.sockets[c].step = "over"]

Handler(c) == \/ Refuse(c) \/ Join(c) \/ Greet(c) \/ Broadcast(c)
              \/ Tell(c) \/ Say(c) \/ Disconnected(c) \/ Leave(c)

-------------------------------------------------------------------------------
CoInit == co = [sockets |-> <<>>, room |-> <<>>, ops |-> CoOps, torn |-> FALSE]

CoNext == \/ Connect
          \/ \E c \in Sockets : Receive(c) \/ CloseSocket(c) \/ Handler(c)

CoSpec == CoInit /\ [][CoNext]_co

-------------------------------------------------------------------------------
(* Properties *)

\* With nothing under way each open window lists the sessions in the room, each once, in
\* whatever order joining, leaving, events and broadcasts overlapped; but those that came or
\* went while its snapshot was still to be sent it has as the snapshot had them, until it
\* hears of them again.  Unless a session had two sockets at once, or sending to a socket
\* that had closed failed (join, leave, broadcast, useCollaboration).
EveryoneListed ==
    (co # Closed /\ ~co.torn /\ \A c \in Sockets : /\ co.sockets[c].step \in {"receiving", "over"}
                                                   /\ co.sockets[c].inbox = <<>>
                                                   /\ co.sockets[c].step = "receiving" => co.sockets[c].open)
       => LET here == OnList({s \in Sessions : \E b \in Sockets : /\ co.sockets[b].open
                                                                  /\ co.sockets[b].session = s})
          IN \A c \in Sockets : co.sockets[c].step = "receiving" =>
                \A s \in Sessions \ co.sockets[c].undone : co.sockets[c].shown[s] = here[s]

===============================================================================
