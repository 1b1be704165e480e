----------------------------- MODULE LanSession -----------------------------
(***************************************************************************)
(* The local route to an Android device: the page's pairing panel and its  *)
(* engine ask the browser extension (apps/web/src/components/Pair.tsx,     *)
(* lib/app.ts, lib/companion.ts), which serialises their requests over one *)
(* native port (apps/companion-extension/background.js), to the desktop    *)
(* agent, which holds one TLS listener that one device may use once        *)
(* (apps/agent/src/lan.ts, companion.ts).  The agent's events share the    *)
(* port with its replies, which carry no request id.                       *)
(***************************************************************************)
EXTENDS Integers, Sequences, SequencesExt

CONSTANTS
  MaxRequests,   (* bound: requests of the page                             *)
  MaxHosts       (* bound: times the native port is lost                    *)

ASSUME RequestsAreBounded == MaxRequests \in Nat /\ MaxHosts \in Nat

VARIABLES
  \* the page; a session is named by the number of the request that starts it
  issued,    \* the requests made, in order: kind, and the session meant
  result,    \* what each request was resolved with, "pending" or "dropped"
  lanPeer,   \* lanPeers: it believes to have a local route to the device
  open,      \* the pairing panel is open
  panel,     \* lanSession: the session the panel shows, or NoId
  code,      \* lanEndpoint: the session named in the code shown, or NoId
  busy,      \* the request the buttons wait for, or NoId
  \* the extension
  queued, active, port,     \* waiting requests, the one posted, the port is open
  \* the port, in both directions
  toHost, fromHost,
  \* the agent
  session,   \* its LAN session, or NoSession
  starting,  \* the request whose startLanSession awaits the listener
  route,     \* the selected interface is there
  written,   \* history: the requests whose envelope was written to the socket
  crossed,   \* history: a disconnection was reported to an open request
  hosts

page  == <<issued, result, lanPeer, open, panel, code, busy>>
ext   == <<queued, active, port>>
pipes  == <<toHost, fromHost>>
agent == <<session, starting, route>>
hist  == <<written, crossed, hosts>>
lanVars  == <<page, ext, pipes, agent, hist>>

NoId == 0
NoSession == [status |-> "none", id |-> NoId]
Live(s) == s.status \in {"listening", "connected"}
Used(s) == s.status \in {"connected", "gone"}     \* remoteDeviceId is set

(* What the agent answers: a session (id NoId: null, or an error), whether  *)
(* the envelope was sent, or that a session was stopped.                    *)
Reply(kind, s, up) == [type |-> kind, id |-> s, up |-> up]
Event(t) == [type |-> t, id |-> NoId, up |-> FALSE]

LanInit ==
  /\ issued = <<>> /\ result = <<>> /\ lanPeer = FALSE
  /\ open = TRUE /\ panel = NoId /\ code = NoId /\ busy = NoId
  /\ queued = <<>> /\ active = NoId /\ port = FALSE
  /\ toHost = <<>> /\ fromHost = <<>>
  /\ session = NoSession /\ starting = NoId /\ route = TRUE
  /\ written = {} /\ crossed = FALSE /\ hosts = 0

----------------------------------------------------------------------------
(* The page.  A request is issued whether or not earlier ones are answered: *)
(* the panel polls, its user clicks, and every envelope is a request.       *)

Pending(n) == n \in DOMAIN result /\ result[n] = "pending"
OfPanel(n) == issued[n].kind \in {"start", "stop", "renew", "poll", "mount"}

Issue(kind, s, results) ==
  /\ Len(issued) < MaxRequests
  /\ issued' = Append(issued, [kind |-> kind, id |-> s])
  /\ result' = Append(results, "pending")
  /\ queued' = Append(queued, Len(issued'))
  /\ UNCHANGED <<active, port, pipes, agent, hist>>

(* An envelope goes to the local route only if the page knows of one.       *)
SendEnvelope ==
  lanPeer /\ Issue("send", NoId, result) /\ UNCHANGED <<lanPeer, open, panel, code, busy>>

Activate ==
  /\ open /\ panel = NoId /\ busy = NoId
  /\ Issue("start", NoId, result) /\ busy' = Len(issued')
  /\ UNCHANGED <<lanPeer, open, panel, code>>

StopListener ==
  /\ open /\ panel # NoId /\ busy = NoId
  /\ Issue("stop", panel, result) /\ busy' = Len(issued')
  /\ UNCHANGED <<lanPeer, open, panel, code>>

(* A new code: first the listener that is shown, if any, is stopped.        *)
NewCode ==
  /\ open
  /\ \/ /\ panel # NoId /\ Issue("renew", panel, result)
        /\ UNCHANGED <<lanPeer, open, panel, code, busy>>
     \/ /\ panel = NoId /\ code # NoId /\ code' = NoId
        /\ UNCHANGED <<issued, result, lanPeer, open, panel, busy, ext, pipes, agent, hist>>

Poll ==
  /\ open /\ panel # NoId /\ Issue("poll", panel, result)
  /\ UNCHANGED <<lanPeer, open, panel, code, busy>>

(* What the panel knows goes with it, and answers to it find it gone.       *)
ResultsOnClose ==
  [n \in DOMAIN result |-> IF Pending(n) /\ OfPanel(n) THEN "dropped" ELSE result[n]]

ReopenPanel ==
  /\ Issue("mount", NoId, ResultsOnClose)
  /\ open' = TRUE /\ panel' = NoId /\ code' = NoId /\ busy' = NoId
  /\ UNCHANGED lanPeer

(* The page is reloaded, and asks for a route that is up already.           *)
PageReload ==
  /\ Issue("restore", NoId, [n \in DOMAIN result |-> IF Pending(n) THEN "dropped" ELSE result[n]])
  /\ open' = FALSE /\ panel' = NoId /\ code' = NoId /\ busy' = NoId /\ lanPeer' = FALSE

IsSession(m) == m.type = "session"

Hidden(m) == NoId                   \* mutant: only the code learns of it
Shows(m) == m.id

(* The promise of request n is resolved with the message m.  The reply to   *)
(* another request is taken for its own if it has the field looked for.     *)
Resolve(n, m, failure) ==
  LET kind == issued[n].kind
      ok   == \/ kind = "send" /\ m.type = "sent" /\ m.up
              \/ kind \in {"stop", "renew"} /\ m.type = "stopped"
              \/ kind \in {"poll", "mount", "restore"} /\ IsSession(m)
              \/ kind = "start" /\ IsSession(m) /\ m.id # NoId
      ends == (kind = "stop" /\ ok) \/ kind = "renew"
  IN  IF ~Pending(n) THEN UNCHANGED page
      ELSE /\ result' = [result EXCEPT ![n] =
                           IF ~ok THEN failure ELSE IF kind = "send" THEN "sent" ELSE "answered"]
           /\ lanPeer' = IF kind = "send" THEN lanPeer /\ ok
                         ELSE lanPeer \/ (kind = "restore" /\ ok /\ m.up)
           /\ busy' = IF busy = n THEN NoId ELSE busy
           /\ panel' = CASE ends -> NoId
                         [] kind = "start" /\ ok -> Shows(m)
                         [] kind = "mount" /\ ok -> m.id
                         [] kind = "poll" /\ ok /\ panel = issued[n].id -> m.id
                         [] OTHER -> panel
           /\ code' = IF ends THEN NoId ELSE IF kind = "start" /\ ok THEN m.id ELSE code
           /\ UNCHANGED <<issued, open>>

NoAnswer == Reply("none", NoId, FALSE)

Timeout(n) ==
  /\ Pending(n) /\ Resolve(n, NoAnswer, "timeout")
  /\ UNCHANGED <<ext, pipes, agent, hist>>

----------------------------------------------------------------------------
(* The extension                                                            *)

Pump ==
  /\ active = NoId /\ queued # <<>>
  /\ active' = Head(queued) /\ queued' = Tail(queued)
  /\ port' = TRUE
  /\ toHost' = Append(toHost, Head(queued))
  /\ UNCHANGED <<page, fromHost, agent, hist>>

Broadcast == {"envelope", "connected"}

(* What the page makes of an event that reaches it, and of the loss of the  *)
(* port, which the extension reports as a disconnection.                    *)
Connected(m) == lanPeer' = (lanPeer \/ m.type = "connected")
RouteGone == lanPeer' = FALSE

StaysOpen == active                    \* mutant: the request is not cleared
AfterReply == NoId

(* Any other message resolves the open request, if there is one.            *)
OnMessage ==
  /\ port /\ fromHost # <<>> /\ fromHost' = Tail(fromHost)
  /\ LET m == Head(fromHost)
     IN  \/ /\ m.type \in Broadcast
            /\ Connected(m)
            /\ UNCHANGED <<issued, result, open, panel, code, busy, active, crossed>>
         \/ /\ m.type \notin Broadcast /\ active = NoId
            /\ UNCHANGED <<page, active, crossed>>
         \/ /\ m.type \notin Broadcast /\ active # NoId
            /\ active' = AfterReply
            /\ Resolve(active, m, "error")
            /\ crossed' = (crossed \/ m.type = "disconnected")
  /\ UNCHANGED <<queued, port, toHost, agent, written, hosts>>

(* The agent stops its session with its input, but not a listener that it   *)
(* is still binding: that stays open until it expires, in an agent that     *)
(* nobody can ask any more.                                                 *)
HostEnds == starting' = NoId /\ session' = NoSession

(* The port is lost: every request fails.                                   *)
OnDisconnect ==
  /\ port /\ hosts < MaxHosts /\ hosts' = hosts + 1
  /\ port' = FALSE /\ queued' = <<>> /\ active' = NoId
  /\ LET failing == {n \in DOMAIN issued : Pending(n) /\ (n = active \/ Contains(queued, n))}
         renewed == \E n \in failing : issued[n].kind = "renew"
     IN  /\ result' = [n \in DOMAIN result |-> IF n \in failing THEN "error" ELSE result[n]]
         /\ busy' = IF busy \in failing THEN NoId ELSE busy
         /\ panel' = IF renewed THEN NoId ELSE panel
         /\ code' = IF renewed THEN NoId ELSE code
  /\ RouteGone
  /\ toHost' = <<>> /\ fromHost' = <<>>
  /\ HostEnds
  /\ UNCHANGED <<issued, open, route, written, crossed>>

----------------------------------------------------------------------------
(* The agent: it takes one request after the other                          *)

Emits(t) == fromHost' = Append(fromHost, Event(t))
AgentReplies(m) == toHost' = Tail(toHost) /\ fromHost' = Append(fromHost, m)
AgentTakes(kinds) ==
  toHost # <<>> /\ starting = NoId /\ issued[Head(toHost)].kind \in kinds
SessionReply(s) == Reply("session", s.id, s.status = "connected")

(* A check that the interface is still there comes with every question; its *)
(* loss is told before the answer.                                          *)
GetLanSession ==
  /\ AgentTakes({"poll", "mount", "restore"})
  /\ LET lost == Live(session) /\ ~route
         told == IF lost /\ Used(session) THEN <<Event("disconnected")>> ELSE <<>>
     IN  /\ session' = IF lost THEN [session EXCEPT !.status = "gone"] ELSE session
         /\ fromHost' = fromHost \o told \o <<SessionReply(session')>>
  /\ toHost' = Tail(toHost)
  /\ UNCHANGED <<page, ext, starting, route, hist>>

HasPeer(s) == Used(s)                \* mutant: the closed socket is not forgotten
HasSocket(s) == s.status = "connected"

SendLanEnvelope ==
  /\ AgentTakes({"send"})
  /\ AgentReplies(Reply("sent", NoId, HasSocket(session)))
  /\ written' = IF session.status = "connected" THEN written \cup {Head(toHost)} ELSE written
  /\ UNCHANGED <<page, ext, agent, crossed, hosts>>

StopLanSession ==
  /\ AgentTakes({"stop", "renew"})
  /\ session' = IF session.id = issued[Head(toHost)].id THEN NoSession ELSE session
  /\ AgentReplies(Reply("stopped", NoId, FALSE))
  /\ UNCHANGED <<page, ext, starting, route, hist>>

(* A certificate is made and the listener bound while the request waits.    *)
StartLanSession ==
  /\ AgentTakes({"start"})
  /\ IF session # NoSession \/ ~route
     THEN AgentReplies(NoAnswer) /\ UNCHANGED starting
     ELSE starting' = Head(toHost) /\ UNCHANGED pipes
  /\ UNCHANGED <<page, ext, session, route, hist>>

Started ==
  /\ starting # NoId /\ starting' = NoId
  /\ session' = [status |-> "listening", id |-> starting]
  /\ AgentReplies(SessionReply(session'))
  /\ UNCHANGED <<page, ext, route, hist>>

(* The timer of the session, also while a device is connected.              *)
Expire ==
  /\ session # NoSession /\ session' = NoSession
  /\ UNCHANGED <<page, ext, pipes, starting, route, hist>>

(* The handshake: the first device with the token consumes it.              *)
Connect ==
  /\ session.status = "listening"
  /\ session' = [session EXCEPT !.status = "connected"]
  /\ Emits("connected")
  /\ UNCHANGED <<page, ext, toHost, starting, route, hist>>

(* The socket closes: the session stays, but no one else may use it.        *)
ClientGone ==
  /\ session.status = "connected"
  /\ session' = [session EXCEPT !.status = "gone"]
  /\ Emits("disconnected")
  /\ UNCHANGED <<page, ext, toHost, starting, route, hist>>

RouteLost ==
  /\ route /\ route' = FALSE
  /\ UNCHANGED <<page, ext, pipes, session, starting, hist>>

LanNext ==
  \/ SendEnvelope \/ Activate \/ StopListener \/ NewCode \/ Poll \/ ReopenPanel \/ PageReload
  \/ \E n \in DOMAIN issued : Timeout(n)
  \/ Pump \/ OnMessage \/ OnDisconnect
  \/ GetLanSession \/ SendLanEnvelope \/ StopLanSession \/ StartLanSession \/ Started
  \/ Expire \/ RouteLost \/ Connect \/ ClientGone

LanSpec == LanInit /\ [][LanNext]_lanVars

(* Each process goes on with what it has.                                   *)
LanFairSpec ==
  /\ LanSpec /\ WF_lanVars(Pump) /\ WF_lanVars(OnMessage) /\ WF_lanVars(Started)
  /\ WF_lanVars(GetLanSession \/ SendLanEnvelope \/ StopLanSession \/ StartLanSession)

----------------------------------------------------------------------------
(* "True only when the connected Android identity owns this listener        *)
(* session": an envelope taken for sent was written to its socket, unless a *)
(* disconnection was reported while a request was open.  The extension      *)
(* takes the report for that request's reply, and every reply after it for  *)
(* the next request's.                                                      *)
SentWasWritten ==
  \A n \in DOMAIN issued :
    result[n] = "sent" /\ ~crossed => issued[n].kind = "send" /\ n \in written

Quiet ==
  queued = <<>> /\ active = NoId /\ toHost = <<>> /\ fromHost = <<>> /\ starting = NoId

(* A listener that is open is one its user can see and stop: once all that  *)
(* was asked is answered, an open panel shows the session, unless the panel *)
(* gave up waiting for the answer that would have told it, replies were     *)
(* mixed up, or a new code was asked for while an earlier session was shown *)
(* (when that request is done, the panel forgets whatever it shows).        *)
LiveIsShown ==
  Quiet /\ Live(session) /\ open /\ ~crossed
    => \/ panel = session.id
       \/ \E n \in DOMAIN issued : result[n] = "timeout" /\ issued[n].kind \in {"start", "mount"}
       \/ \E n \in DOMAIN issued : issued[n].kind = "renew" /\ issued[n].id < session.id /\ session.id < n

(* The extension never stops serving: each request is resolved, also after  *)
(* replies were mixed up and across lost ports.                             *)
EveryRequestEnds ==
  \A n \in 1..MaxRequests :
    (n \in DOMAIN issued) ~> (n \in DOMAIN result /\ result[n] # "pending")
=============================================================================
