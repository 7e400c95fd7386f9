------------------------------ MODULE ClientUI ------------------------------
(***************************************************************************)
(* `gopublic start` with a project file in a terminal: runWithTUI           *)
(* (internal/client/cli/root.go) runs the tunnel of SharedTunnelClient in   *)
(* one goroutine and the terminal UI (internal/client/tui/tui.go) in        *)
(* another; all that passes between them is the event bus                   *)
(* (internal/client/events/events.go) and the context.                      *)
(***************************************************************************)
EXTENDS SharedTunnelClient, Sequences

CONSTANTS
    Tunnel,          \* the subdomains of the project file
    BufferSize       \* capacity of a subscriber's channel

ASSUME UIAssumption ==
    /\ BufferSize \in Nat \ {0}
    /\ Tunnel \intersect {"connecting", "connected", "other", "armed"} = {}

VARIABLES
    ui,         \* runWithTUI: before NewModel, in Run, after it, finished
    queue,      \* the UI's channel
    wait,       \* the waitForEvent command: waiting, or the event it returned
    screen,     \* the model's status and its tunnels
    out,        \* events the runner is about to publish
    granted,    \* tunnels the server has bound in this session
    missed      \* events of the current attempt that were dropped (history)

busVars == <<queue, missed>>
screenVars == <<ui, wait, screen>>
uiVars == <<busVars, screenVars, out, granted>>

\* A tunnel's name stands for its EventTunnelReady; "other" for the events
\* that change neither the status nor the tunnels (logs, stages, requests).
Event == {"connecting", "connected", "other"} \union Tunnel

UIInit ==
    /\ Init
    /\ ui = "starting"
    /\ queue = << >> /\ wait = "armed"
    /\ screen = [status |-> "connecting", tunnels |-> {}]
    /\ out = {} /\ granted = {} /\ missed = {}

-----------------------------------------------------------------------------
(* The bus.                                                                 *)

Subscribed == ui # "starting"

\* Mutation: the buffer grows.
PublishUnbounded(e) ==
    /\ Len(queue) <= BufferSize
    /\ queue' = IF Subscribed THEN Append(queue, e) ELSE queue
    /\ UNCHANGED missed

\* Mutation: every event is sent by a goroutine of its own.
PublishUnordered(e) ==
    IF Subscribed /\ Len(queue) < BufferSize
    THEN /\ queue' \in {Append(queue, e), <<e>> \o queue}
         /\ missed' = missed \ {e}
    ELSE /\ missed' = missed \union {e}
         /\ UNCHANGED queue

\* A new attempt makes what was missed of the last one immaterial.
Recent(e) == IF e = "connecting" THEN {} ELSE missed

\* Publish sends without waiting: an event that finds no room is dropped.
Publish(e) ==
    IF Subscribed /\ Len(queue) < BufferSize
    THEN /\ queue' = Append(queue, e)
         /\ missed' = Recent(e)
    ELSE /\ missed' = Recent(e) \union ({e} \ {"other"})
         /\ UNCHANGED queue

-----------------------------------------------------------------------------
(* The tunnel's goroutine.                                                  *)

\* "connected" goes out before the tunnels, in the order a map is visited.
PublishNext ==
    /\ \E e \in out :
          /\ "connected" \in out => e = "connected"
          /\ Publish(e)
          /\ out' = out \ {e}
    /\ UNCHANGED <<vars, screenVars, granted>>

\* Start begins with EventConnecting.
TopPublishes ==
    /\ Top
    /\ out' = IF runner' = "dial" THEN {"connecting"} ELSE {}
    /\ UNCHANGED granted

\* Those of the tunnels that the server has bound become ready.
ReadReplyPublishes ==
    /\ ReadReply
    /\ IF runner' = "established"
       THEN /\ granted' \in SUBSET Tunnel \ {{}}
            /\ out' = {"connected"} \union granted'
       ELSE UNCHANGED <<out, granted>>

TunnelStep ==
    /\ out = {}
    /\ \/ TopPublishes \/ ReadReplyPublishes
       \/ /\ AfterStart \/ Wait \/ Dial \/ OpenSession \/ SendRequests
               \/ AwaitFails \/ SessionEnds \/ Cleanup
          /\ UNCHANGED <<out, granted>>
    /\ UNCHANGED <<busVars, screenVars>>

\* Logs, stages and requests, from any goroutine of the client.
Chatter ==
    /\ ui # "exited"
    /\ Publish("other")
    /\ UNCHANGED <<vars, screenVars, out, granted>>

-----------------------------------------------------------------------------
(* The terminal UI.                                                         *)

\* NewModel subscribes, some time after the tunnel's goroutine was started.
NewModel ==
    /\ ui = "starting"
    /\ ui' = "running"
    /\ UNCHANGED <<vars, busVars, wait, screen, out, granted>>

waitForEvent ==
    /\ ui = "running" /\ wait = "armed" /\ queue # << >>
    /\ wait' = Head(queue) /\ queue' = Tail(queue)
    /\ UNCHANGED <<vars, missed, ui, screen, out, granted>>

handleEvent(e) ==
    screen' = CASE e = "connecting" -> [screen EXCEPT !.status = "connecting"]
                [] e = "connected" -> [screen EXCEPT !.status = "online"]
                [] e \in Tunnel -> [screen EXCEPT !.tunnels = @ \union {e}]
                [] OTHER -> screen

\* Mutation: only events that change the screen are followed by another wait.
UpdateRearms(e) == wait' = IF e = "other" THEN "off" ELSE "armed"

\* The command is issued again after each event.
Rearm(e) == wait' = "armed"

Update ==
    /\ ui = "running" /\ wait \in Event
    /\ handleEvent(wait)
    /\ Rearm(wait)
    /\ UNCHANGED <<vars, busVars, ui, out, granted>>

\* A key, a signal or an error ends Run; runWithTUI cancels the tunnel.
Quit ==
    /\ ui = "running"
    /\ ui' = "left"
    /\ ctxDone' = TRUE
    /\ UNCHANGED <<runner, linkVars, reply, retryVars, result, held,
                   busVars, wait, screen, out, granted>>

\* runWithTUI has waited for the tunnel's goroutine.
Exit ==
    /\ ui = "left" /\ runner = "returned"
    /\ ui' = "exited"
    /\ UNCHANGED <<vars, busVars, wait, screen, out, granted>>

-----------------------------------------------------------------------------

UINext ==
    \/ /\ Cancel \/ ServerAnswers \/ LinkDrops \/ ServerCloses \/ ServerForgets \/ WatcherCloses
       /\ UNCHANGED uiVars
    \/ PublishNext \/ TunnelStep \/ Chatter
    \/ NewModel \/ waitForEvent \/ Update \/ Quit \/ Exit

UISpec == UIInit /\ [][UINext]_<<vars, uiVars>>

\* The goroutines of SharedTunnelClient and of the UI run; nobody has to press
\* a key, and nothing has to be logged.
UIFairness ==
    /\ WF_<<vars, uiVars>>(PublishNext \/ TunnelStep)
    /\ WF_<<vars, uiVars>>(WatcherCloses /\ UNCHANGED uiVars)
    /\ WF_<<vars, uiVars>>(NewModel)
    /\ WF_<<vars, uiVars>>(waitForEvent)
    /\ WF_<<vars, uiVars>>(Update)
    /\ WF_<<vars, uiVars>>(Exit)

UIFairSpec == UISpec /\ UIFairness

-----------------------------------------------------------------------------
(* Properties.                                                              *)

\* Types of the tunnel, the bus and the UI: the retry delay stays capped, and
\* the buffer within its capacity.
UITypeOK ==
    /\ TypeOK
    /\ ui \in {"starting", "running", "left", "exited"}
    /\ queue \in Seq(Event) /\ Len(queue) <= BufferSize
    /\ wait \in Event \union {"armed"}
    /\ screen \in [status : {"connecting", "online"}, tunnels : SUBSET Tunnel]
    /\ out \subseteq Event \ {"other"} /\ missed \subseteq Event \ {"other"}
    /\ granted \subseteq Tunnel

\* The attempt in progress has its tunnels.
Online == runner = "established"

\* Start has not lost a session, and its loop goes on.
Trying == result # "ended" /\ runner # "returned"

\* While the tunnel is being set up, retried or kept: once the UI has taken what
\* was published, and none of it was dropped, the screen says what the tunnel is,
\* connecting, or online with its tunnels.  When the session is lost, or the
\* loop gives up, nothing is published and the screen stays as it was.
ScreenFollows ==
    /\ Trying /\ ui = "running"
    /\ out = {} /\ queue = << >> /\ wait = "armed" /\ missed = {}
    => /\ screen.status = IF Online THEN "online" ELSE "connecting"
       /\ Online => granted \subseteq screen.tunnels

\* An established tunnel gets onto the screen, whatever else floods the bus,
\* unless its own events found no room or somebody quits.
EstablishedIsShown ==
    runner = "established" ~>
        \/ screen.status = "online" /\ granted \subseteq screen.tunnels
        \/ missed # {} \/ ui # "running"

\* Leaving the UI ends the program, although nobody reads the bus any more
\* and the tunnel may be at any step of an attempt.
QuitEnds == ui = "left" ~> ui = "exited"

=============================================================================
