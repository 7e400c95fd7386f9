--------------------------- MODULE ClientUIProofs ---------------------------
(***************************************************************************)
(* Machine-checked facts about a client with a terminal UI, for any project *)
(* file, buffer and reconnect configuration: the tunnel's own invariants,   *)
(* and that a screen which missed nothing tells the truth while the tunnel  *)
(* goes on.                                                                 *)
(***************************************************************************)
EXTENDS ClientUI, TLAPS

USE ForceAssumption, DelayAssumption, UIAssumption

-----------------------------------------------------------------------------
(* The tunnel's goroutine.                                                  *)

Flags == ctxDone \in BOOLEAN /\ watched \in BOOLEAN

Places ==
    /\ runner \in {"top", "dial", "register", "send", "await", "established",
                   "cleanup", "after", "wait", "returned"}
    /\ link \in {"none", "open", "closed"}
    /\ reply \in {"none", "success", "conflict", "error"}
    /\ result \in {"none", "error", "conflict", "ended", "cancelled", "exhausted"}
    /\ held \in {"free", "ours", "stale"}

Retries == attempt \in 0..AttemptCap /\ delay \in InitialDelay..MaxDelay

\* A session that has ended is the last one.
EndedForGood == result = "ended" => runner \in {"cleanup", "after", "returned"}

\* The attempt in progress, or the last one, got its tunnels and published that:
\* the end of the session is not an event.
Announced == runner = "established" \/ result = "ended"

SharedInv == Flags /\ Places /\ Retries /\ OneSession /\ EndedForGood

\* Steps of the server, the network, the user and the session's watcher.
Outside ==
    \/ Cancel \/ ServerAnswers \/ LinkDrops \/ ServerCloses \/ ServerForgets \/ WatcherCloses

LEMMA DelayBounded ==
    ASSUME delay \in InitialDelay..MaxDelay PROVE NextDelay \in InitialDelay..MaxDelay
<1> DEFINE d == delay * Multiplier
<1>1. d \in Nat /\ delay <= d
  OBVIOUS
<1>2. NextDelay = IF d > MaxDelay THEN MaxDelay ELSE d
  BY DEF NextDelay
<1> HIDE DEF d
<1> QED BY <1>1, <1>2

LEMMA OutsideStep ==
    ASSUME SharedInv, Outside
    PROVE  SharedInv' /\ UNCHANGED <<runner, result>>
<1>1. UNCHANGED <<runner, result, retryVars>>
  BY DEF Outside, Cancel, ServerAnswers, LinkDrops, ServerCloses, ServerForgets, WatcherCloses,
         retryVars
<1>2. Flags'
  BY Zenon DEF SharedInv, Flags, Outside, Cancel, ServerAnswers, LinkDrops, ServerCloses,
               ServerForgets, WatcherCloses, linkVars
<1>3. Places'
  BY <1>1 DEF SharedInv, Places, Outside, Cancel, ServerAnswers, LinkDrops, ServerCloses,
              ServerForgets, WatcherCloses, linkVars, Forsaken
<1>4. OneSession'
  BY <1>1 DEF SharedInv, OneSession, Places, Outside, Cancel, ServerAnswers, LinkDrops,
              ServerCloses, ServerForgets, WatcherCloses, linkVars
<1>5. Retries' /\ EndedForGood'
  BY <1>1 DEF SharedInv, Retries, EndedForGood, retryVars
<1> QED BY <1>1, <1>2, <1>3, <1>4, <1>5 DEF SharedInv

LEMMA RunnerStep == ASSUME SharedInv, Runner PROVE SharedInv' /\ (Announced => Announced')
<1> USE DEF SharedInv
<1>1. Flags'
  <2>1. UNCHANGED <<ctxDone, watched>> \/ (UNCHANGED ctxDone /\ watched' = TRUE)
    BY DEF Runner, Top, AfterStart, Wait, Dial, OpenSession, SendRequests, ReadReply,
           AwaitFails, SessionEnds, Cleanup, linkVars
  <2> QED BY <2>1, Zenon DEF Flags
<1>2. Retries'
  <2>1. CASE Top
    BY <2>1 DEF Top, Retries, AttemptCap
  <2>2. CASE Wait
    BY <2>2, DelayBounded DEF Wait, Retries
  <2>3. CASE UNCHANGED retryVars
    BY <2>3 DEF Retries, retryVars
  <2> QED BY <2>1, <2>2, <2>3
          DEF Runner, AfterStart, Dial, OpenSession, SendRequests, ReadReply, AwaitFails,
              SessionEnds, Cleanup
<1>3. Places' /\ EndedForGood'
  <2>1. CASE Top \/ AfterStart \/ Wait
    BY <2>1 DEF Top, AfterStart, Wait, Return, Places, EndedForGood, linkVars
  <2>2. CASE Dial \/ OpenSession \/ SendRequests
    BY <2>2 DEF Dial, OpenSession, SendRequests, Fail, Places, EndedForGood, linkVars
  <2>3. CASE ReadReply \/ AwaitFails \/ SessionEnds
    BY <2>3 DEF ReadReply, AwaitFails, SessionEnds, Fail, Places, EndedForGood, linkVars
  <2>4. CASE Cleanup
    BY <2>4 DEF Cleanup, Forsaken, Places, EndedForGood
  <2> QED BY <2>1, <2>2, <2>3, <2>4 DEF Runner
<1>4. OneSession'
  <2>1. CASE OpenSession
    BY <2>1 DEF OpenSession, Fail, OneSession, linkVars
  <2>2. CASE Top \/ AfterStart \/ Wait \/ Dial \/ SendRequests \/ ReadReply \/ AwaitFails
                \/ SessionEnds
    BY <2>2 DEF Top, AfterStart, Wait, Dial, SendRequests, ReadReply, AwaitFails, SessionEnds,
                Fail, OneSession, linkVars
  <2>3. CASE Cleanup
    BY <2>3 DEF Cleanup, OneSession
  <2> QED BY <2>1, <2>2, <2>3 DEF Runner
<1>5. Announced => Announced'
  <2> SUFFICES ASSUME Announced PROVE Announced'
    OBVIOUS
  <2>1. CASE runner = "established"
    BY <2>1 DEF Runner, Top, AfterStart, Wait, Dial, OpenSession, SendRequests, ReadReply,
                AwaitFails, SessionEnds, Cleanup, Fail, Announced
  <2>2. CASE result = "ended"
    BY <2>2 DEF Runner, Top, AfterStart, Wait, Dial, OpenSession, SendRequests, ReadReply,
                AwaitFails, SessionEnds, Cleanup, Announced, EndedForGood
  <2> QED BY <2>1, <2>2 DEF Announced
<1> QED BY <1>1, <1>2, <1>3, <1>4, <1>5

-----------------------------------------------------------------------------
(* The bus and the screen.                                                  *)

UITypes ==
    /\ ui \in {"starting", "running", "left", "exited"}
    /\ queue \in Seq(Event) /\ Len(queue) <= BufferSize
    /\ wait \in Event \union {"armed"}
    /\ screen \in [status : {"connecting", "online"}, tunnels : SUBSET Tunnel]
    /\ out \subseteq Event \ {"other"} /\ missed \subseteq Event \ {"other"}
    /\ granted \subseteq Tunnel

Says == {"connecting", "connected"}

\* What was published of the status last, and the event that says so.
Truth == IF Announced THEN "online" ELSE "connecting"
Herald == IF Announced THEN "connected" ELSE "connecting"

\* What is yet to be published belongs to the attempt in progress.
OutInv ==
    /\ "connecting" \in out => out = {"connecting"} /\ ~Announced
    /\ out # {} => "connecting" \in out \/ Announced

\* The last event about the status that is on its way says what was published
\* last; if there is none, the screen does.
Heralded ==
    \/ \E i \in 1..Len(queue) :
          /\ queue[i] = Herald
          /\ \A j \in i + 1..Len(queue) : queue[j] \notin Says
    \/ /\ \A j \in 1..Len(queue) : queue[j] \notin Says
       /\ \/ wait = Herald
          \/ wait \notin Says /\ screen.status = Truth

StatusInv == missed = {} /\ out \intersect Says = {} => Heralded

\* A tunnel is on the screen, on its way, or missed.
TunnelsInv ==
    Announced => \A t \in granted :
        \/ t \in screen.tunnels \/ t = wait \/ t \in out \/ t \in missed
        \/ \E i \in 1..Len(queue) : queue[i] = t

UIInv == SharedInv /\ UITypes /\ OutInv /\ StatusInv /\ TunnelsInv

LEMMA UITypesFacts ==
    ASSUME UITypes
    PROVE  /\ queue \in Seq(Event) /\ Len(queue) \in Nat
           /\ \A i \in 1..Len(queue) : queue[i] \in Event
           /\ {"connecting", "connected", "other"} \subseteq Event /\ Tunnel \subseteq Event
           /\ "other" \notin Says /\ Says \intersect Tunnel = {} /\ "armed" \notin Event
BY DEF UITypes, Event, Says

\* A dropped or queued event: what remains true of those on their way.
LEMMA PublishStep ==
    ASSUME UITypes, NEW e \in Event, Publish(e), UNCHANGED <<ui, wait, screen, granted>>,
           Announced' <=> Announced
    PROVE  /\ queue' \in Seq(Event) /\ Len(queue') <= BufferSize
           /\ missed' \subseteq Event \ {"other"}
           /\ missed' = {} /\ e \in Says => (e = Herald => Heralded')
           /\ missed' = {} /\ e \notin Says /\ Heralded => Heralded'
           /\ e # "connecting" /\ missed' = {} => missed = {}
           /\ \A t \in Tunnel :
                 (\/ t = e
                  \/ e # "connecting" /\ t \in missed
                  \/ \E i \in 1..Len(queue) : queue[i] = t)
                    => t \in missed' \/ \E i \in 1..Len(queue') : queue'[i] = t
<1> USE UITypesFacts
<1>0. Herald' = Herald /\ Truth' = Truth
  BY DEF Herald, Truth
<1>1. CASE Subscribed /\ Len(queue) < BufferSize
  <2>1. queue' = Append(queue, e) /\ missed' = Recent(e)
    BY <1>1 DEF Publish
  <2>2. /\ queue' \in Seq(Event) /\ Len(queue') = Len(queue) + 1
        /\ \A i \in 1..Len(queue) : queue'[i] = queue[i]
        /\ queue'[Len(queue) + 1] = e
    BY <2>1
  <2>3. missed' \subseteq Event \ {"other"} /\ (e # "connecting" => missed' = missed)
    BY <2>1 DEF Recent, UITypes
  <2>4. e = Herald => Heralded'
    <3> SUFFICES ASSUME e = Herald PROVE Heralded'
      OBVIOUS
    <3>1. Len(queue') \in 1..Len(queue') /\ queue'[Len(queue')] = Herald'
      BY <1>0, <2>2
    <3>2. \A j \in Len(queue') + 1..Len(queue') : queue'[j] \notin Says
      BY <2>2
    <3> QED BY <3>1, <3>2 DEF Heralded
  <2>5. e \notin Says /\ Heralded => Heralded'
    <3> SUFFICES ASSUME e \notin Says, Heralded PROVE Heralded'
      OBVIOUS
    <3>1. ASSUME NEW i \in 1..Len(queue), queue[i] = Herald,
                 \A j \in i + 1..Len(queue) : queue[j] \notin Says
          PROVE  Heralded'
      <4>1. i \in 1..Len(queue') /\ queue'[i] = Herald'
        BY <1>0, <2>2, <3>1
      <4>2. \A j \in i + 1..Len(queue') : queue'[j] \notin Says
        BY <2>2, <3>1
      <4> QED BY <4>1, <4>2 DEF Heralded
    <3>2. CASE /\ \A j \in 1..Len(queue) : queue[j] \notin Says
               /\ wait = Herald \/ (wait \notin Says /\ screen.status = Truth)
      <4>1. \A j \in 1..Len(queue') : queue'[j] \notin Says
        BY <2>2, <3>2
      <4> QED BY <1>0, <3>2, <4>1 DEF Heralded
    <3> QED BY <3>1, <3>2 DEF Heralded
  <2>6. ASSUME NEW t \in Tunnel,
               \/ t = e
               \/ e # "connecting" /\ t \in missed
               \/ \E i \in 1..Len(queue) : queue[i] = t
        PROVE  t \in missed' \/ \E i \in 1..Len(queue') : queue'[i] = t
    BY <2>2, <2>3, <2>6
  <2> QED BY <1>1, <2>2, <2>3, <2>4, <2>5, <2>6 DEF UITypes
<1>2. CASE ~(Subscribed /\ Len(queue) < BufferSize)
  <2>1. queue' = queue /\ missed' = Recent(e) \union ({e} \ {"other"})
    BY <1>2 DEF Publish
  <2>2. missed' \subseteq Event \ {"other"}
    BY <2>1 DEF Recent, UITypes
  <2>3. missed' = {} => e = "other" /\ missed = {}
    BY <2>1 DEF Recent
  <2>4. Heralded => Heralded'
    BY <1>0, <2>1 DEF Heralded
  <2>5. ASSUME NEW t \in Tunnel,
               \/ t = e
               \/ e # "connecting" /\ t \in missed
               \/ \E i \in 1..Len(queue) : queue[i] = t
        PROVE  t \in missed' \/ \E i \in 1..Len(queue') : queue'[i] = t
    BY <2>1, <2>5 DEF Recent
  <2> QED BY <2>1, <2>2, <2>3, <2>4, <2>5 DEF UITypes
<1> QED BY <1>1, <1>2

\* The runner publishes what it has to.
LEMMA PublishNextStep == ASSUME UIInv, PublishNext PROVE UIInv'
<1> USE UITypesFacts
<1>1. PICK e \in out : /\ "connected" \in out => e = "connected"
                       /\ Publish(e) /\ out' = out \ {e}
  BY DEF PublishNext
<1>2. /\ SharedInv /\ UITypes /\ OutInv /\ StatusInv /\ TunnelsInv
      /\ UNCHANGED <<vars, screenVars, granted>> /\ UNCHANGED <<ui, wait, screen>>
  BY DEF UIInv, PublishNext, screenVars
<1>3. UNCHANGED <<runner, result>> /\ e \in Event /\ e # "other"
  BY <1>1, <1>2 DEF vars, UITypes
<1>4. Announced' <=> Announced
  BY <1>3 DEF Announced
<1>5. /\ queue' \in Seq(Event) /\ Len(queue') <= BufferSize
      /\ missed' \subseteq Event \ {"other"}
      /\ missed' = {} /\ e \in Says => (e = Herald => Heralded')
      /\ missed' = {} /\ e \notin Says /\ Heralded => Heralded'
      /\ e # "connecting" /\ missed' = {} => missed = {}
      /\ \A t \in Tunnel :
            (\/ t = e
             \/ e # "connecting" /\ t \in missed
             \/ \E i \in 1..Len(queue) : queue[i] = t)
               => t \in missed' \/ \E i \in 1..Len(queue') : queue'[i] = t
  BY <1>1, <1>2, <1>3, <1>4, PublishStep
<1>6. SharedInv'
  BY <1>2 DEF vars, linkVars, retryVars, SharedInv, Flags, Places, Retries, OneSession, EndedForGood
<1>7. UITypes'
  BY <1>1, <1>2, <1>5 DEF UITypes
<1>8. OutInv'
  BY <1>1, <1>2, <1>4 DEF OutInv
<1>9. e \in Says => e = Herald
  BY <1>1, <1>2 DEF OutInv, Herald, Says
<1>10. StatusInv'
  <2> SUFFICES ASSUME missed' = {}, out' \intersect Says = {} PROVE Heralded'
    BY DEF StatusInv
  <2>1. CASE e \in Says
    BY <1>5, <1>9, <2>1
  <2>2. CASE e \notin Says
    <3>1. missed = {} /\ out \intersect Says = {}
      BY <1>1, <1>5, <2>2 DEF Says
    <3>2. Heralded
      BY <1>2, <3>1 DEF StatusInv
    <3> QED BY <1>5, <2>2, <3>2
  <2> QED BY <2>1, <2>2
<1>11. TunnelsInv'
  <2> SUFFICES ASSUME Announced, NEW t \in granted,
                      ~(t \in screen.tunnels \/ t = wait \/ t \in out')
               PROVE  t \in missed' \/ \E i \in 1..Len(queue') : queue'[i] = t
    BY <1>2, <1>4 DEF TunnelsInv
  <2>1. t \in Tunnel
    BY <1>2 DEF UITypes
  <2>2. e # "connecting"
    BY <1>1, <1>2 DEF OutInv
  <2>3. t \in out \/ t \in missed \/ \E i \in 1..Len(queue) : queue[i] = t
    BY <1>1, <1>2 DEF TunnelsInv
  <2>4. t \in out => t = e
    BY <1>1
  <2> QED BY <1>5, <2>1, <2>2, <2>3, <2>4
<1> QED BY <1>6, <1>7, <1>8, <1>10, <1>11 DEF UIInv

\* Anybody logs.
LEMMA ChatterStep == ASSUME UIInv, Chatter PROVE UIInv'
<1> USE UITypesFacts
<1>2. /\ SharedInv /\ UITypes /\ OutInv /\ StatusInv /\ TunnelsInv /\ Publish("other")
      /\ UNCHANGED <<vars, screenVars, out, granted>> /\ UNCHANGED <<ui, wait, screen>>
  BY DEF UIInv, Chatter, screenVars
<1>3. UNCHANGED <<runner, result>> /\ "other" \in Event
  BY <1>2 DEF vars
<1>4. Announced' <=> Announced
  BY <1>3 DEF Announced
<1>5. /\ queue' \in Seq(Event) /\ Len(queue') <= BufferSize
      /\ missed' \subseteq Event \ {"other"}
      /\ missed' = {} /\ Heralded => Heralded'
      /\ missed' = {} => missed = {}
      /\ \A t \in Tunnel :
            t \in missed \/ (\E i \in 1..Len(queue) : queue[i] = t)
               => t \in missed' \/ \E i \in 1..Len(queue') : queue'[i] = t
  BY <1>2, <1>3, <1>4, PublishStep
<1>6. SharedInv'
  BY <1>2 DEF vars, linkVars, retryVars, SharedInv, Flags, Places, Retries, OneSession, EndedForGood
<1>7. UITypes'
  BY <1>2, <1>5 DEF UITypes
<1>8. OutInv'
  BY <1>2, <1>4 DEF OutInv
<1>9. StatusInv'
  BY <1>2, <1>5 DEF StatusInv
<1>10. TunnelsInv'
  <2> SUFFICES ASSUME Announced, NEW t \in granted,
                      ~(t \in screen.tunnels \/ t = wait \/ t \in out)
               PROVE  t \in missed' \/ \E i \in 1..Len(queue') : queue'[i] = t
    BY <1>2, <1>4 DEF TunnelsInv
  <2>1. t \in Tunnel
    BY <1>2 DEF UITypes
  <2>2. t \in missed \/ \E i \in 1..Len(queue) : queue[i] = t
    BY <1>2 DEF TunnelsInv
  <2> QED BY <1>5, <2>1, <2>2
<1> QED BY <1>6, <1>7, <1>8, <1>9, <1>10 DEF UIInv

\* The tunnel moves on; what it has to say is set aside.
LEMMA TunnelStepKeeps == ASSUME UIInv, TunnelStep PROVE UIInv'
<1>0. /\ SharedInv /\ UITypes /\ OutInv /\ StatusInv /\ TunnelsInv /\ out = {}
      /\ UNCHANGED <<queue, missed, ui, wait, screen>>
  BY DEF UIInv, TunnelStep, busVars, screenVars
<1>1. Runner
  BY DEF TunnelStep, TopPublishes, ReadReplyPublishes, Runner
<1>2. SharedInv' /\ (Announced => Announced')
  BY <1>0, <1>1, RunnerStep
<1>3. CASE TopPublishes
  <2>1. /\ Top /\ out' = (IF runner' = "dial" THEN {"connecting"} ELSE {}) /\ UNCHANGED granted
    BY <1>3 DEF TopPublishes
  <2>2. ~Announced /\ ~Announced'
    BY <1>0, <2>1 DEF Top, Return, Announced, SharedInv, EndedForGood
  <2>3. UITypes'
    BY <1>0, <2>1, UITypesFacts DEF UITypes
  <2>4. OutInv'
    BY <2>1, <2>2 DEF OutInv
  <2>5. StatusInv'
    <3>1. CASE "connecting" \in out'
      BY <3>1 DEF StatusInv, Says
    <3>2. CASE out' = {}
      BY <1>0, <2>2, <3>2 DEF StatusInv, Heralded, Herald, Truth, Says
    <3> QED BY <2>1, <3>1, <3>2
  <2>6. TunnelsInv'
    BY <2>2 DEF TunnelsInv
  <2> QED BY <1>2, <2>3, <2>4, <2>5, <2>6 DEF UIInv
<1>4. CASE ReadReplyPublishes /\ runner' = "established"
  <2>1. /\ granted' \in SUBSET Tunnel /\ out' = {"connected"} \union granted'
    BY <1>4 DEF ReadReplyPublishes
  <2>2. Announced'
    BY <1>4 DEF Announced
  <2>3. UITypes'
    BY <1>0, <2>1, UITypesFacts DEF UITypes
  <2>4. OutInv'
    BY <1>0, <2>1, <2>2, UITypesFacts DEF OutInv, Says
  <2>5. StatusInv' /\ TunnelsInv'
    BY <2>1 DEF StatusInv, TunnelsInv, Says
  <2> QED BY <1>2, <2>3, <2>4, <2>5 DEF UIInv
<1>5. CASE UNCHANGED <<out, granted>> /\ (Announced' <=> Announced)
  BY <1>0, <1>2, <1>5
     DEF UIInv, UITypes, OutInv, StatusInv, TunnelsInv, Heralded, Herald, Truth
<1>6. CASE /\ UNCHANGED <<out, granted>>
           /\ \/ AfterStart \/ Wait \/ Dial \/ OpenSession \/ SendRequests \/ AwaitFails
              \/ SessionEnds \/ Cleanup
  <2>1. Announced' => Announced
    BY <1>6 DEF AfterStart, Wait, Dial, OpenSession, SendRequests, AwaitFails, SessionEnds,
                Cleanup, Return, Fail, Announced
  <2> QED BY <1>2, <1>5, <1>6, <2>1
<1>7. CASE ReadReplyPublishes /\ runner' # "established"
  <2>1. UNCHANGED <<out, granted>> /\ ReadReply
    BY <1>7 DEF ReadReplyPublishes
  <2>2. Announced' => Announced
    BY <1>0, <1>7, <2>1 DEF ReadReply, Fail, Announced, SharedInv, Places
  <2> QED BY <1>2, <1>5, <2>1, <2>2
<1> QED BY <1>3, <1>4, <1>6, <1>7 DEF TunnelStep

\* The UI takes an event from the bus.
LEMMA waitForEventStep == ASSUME UIInv, waitForEvent PROVE UIInv'
<1> USE UITypesFacts
<1>0. /\ SharedInv /\ UITypes /\ OutInv /\ StatusInv /\ TunnelsInv
      /\ wait = "armed" /\ queue # << >> /\ wait' = Head(queue) /\ queue' = Tail(queue)
      /\ UNCHANGED <<vars, missed, ui, screen, out, granted>>
  BY DEF UIInv, waitForEvent
<1>1. /\ queue' \in Seq(Event) /\ Len(queue') = Len(queue) - 1 /\ Len(queue) >= 1
      /\ wait' = queue[1] /\ wait' \in Event
      /\ \A i \in 1..Len(queue') : queue'[i] = queue[i + 1]
  BY <1>0
<1>2. (Announced' <=> Announced) /\ Herald' = Herald /\ Truth' = Truth
  BY <1>0 DEF vars, Announced, Herald, Truth
<1>3. SharedInv'
  BY <1>0 DEF vars, linkVars, retryVars, SharedInv, Flags, Places, Retries, OneSession, EndedForGood
<1>4. UITypes'
  <2>1. Len(queue') <= BufferSize
    BY <1>0, <1>1 DEF UITypes
  <2> QED BY <1>0, <1>1, <2>1 DEF UITypes
<1>5. OutInv'
  BY <1>0, <1>2 DEF OutInv
<1>6. Heralded => Heralded'
  <2>1. ASSUME NEW i \in 1..Len(queue), queue[i] = Herald,
               \A j \in i + 1..Len(queue) : queue[j] \notin Says
        PROVE  Heralded'
    <3>1. CASE i = 1
      <4>1. wait' = Herald'
        BY <1>1, <1>2, <2>1, <3>1
      <4>2. \A j \in 1..Len(queue') : queue'[j] \notin Says
        BY <1>1, <2>1, <3>1
      <4> QED BY <4>1, <4>2 DEF Heralded
    <3>2. CASE i > 1
      <4>1. i - 1 \in 1..Len(queue') /\ queue'[i - 1] = Herald'
        BY <1>1, <1>2, <2>1, <3>2
      <4>2. \A j \in i - 1 + 1..Len(queue') : queue'[j] \notin Says
        BY <1>1, <2>1, <3>2
      <4> QED BY <4>1, <4>2 DEF Heralded
    <3> QED BY <3>1, <3>2
  <2>2. CASE /\ \A j \in 1..Len(queue) : queue[j] \notin Says
             /\ wait = Herald \/ (wait \notin Says /\ screen.status = Truth)
    <3>1. screen.status = Truth
      BY <1>0, <2>2 DEF Herald
    <3>2. wait' \notin Says /\ \A j \in 1..Len(queue') : queue'[j] \notin Says
      BY <1>1, <2>2
    <3> QED BY <1>0, <1>2, <3>1, <3>2 DEF Heralded
  <2> QED BY <2>1, <2>2 DEF Heralded
<1>7. StatusInv'
  BY <1>0, <1>6 DEF StatusInv
<1>8. TunnelsInv'
  <2> SUFFICES ASSUME Announced, NEW t \in granted,
                      ~(t \in screen.tunnels \/ t \in out \/ t \in missed)
               PROVE  t = wait' \/ \E i \in 1..Len(queue') : queue'[i] = t
    BY <1>0, <1>2 DEF TunnelsInv
  <2>1. t # wait
    BY <1>0 DEF UITypes
  <2>2. PICK i \in 1..Len(queue) : queue[i] = t
    BY <1>0, <2>1 DEF TunnelsInv
  <2>3. CASE i = 1
    BY <1>1, <2>2, <2>3
  <2>4. CASE i > 1
    <3>1. i - 1 \in 1..Len(queue') /\ queue'[i - 1] = t
      BY <1>1, <2>2, <2>4
    <3> QED BY <3>1
  <2> QED BY <2>3, <2>4
<1> QED BY <1>3, <1>4, <1>5, <1>7, <1>8 DEF UIInv

\* The model takes the event in, and asks for the next.
LEMMA UpdateStep == ASSUME UIInv, Update PROVE UIInv'
<1> USE UITypesFacts
<1>0. /\ SharedInv /\ UITypes /\ OutInv /\ StatusInv /\ TunnelsInv
      /\ wait \in Event /\ handleEvent(wait) /\ wait' = "armed"
      /\ UNCHANGED <<vars, queue, missed, ui, out, granted>>
      /\ screen \in [status : {"connecting", "online"}, tunnels : SUBSET Tunnel]
  BY DEF UIInv, Update, Rearm, busVars, UITypes
<1>1. (Announced' <=> Announced) /\ Herald' = Herald /\ Truth' = Truth
  BY <1>0 DEF vars, Announced, Herald, Truth
<1>2. SharedInv'
  BY <1>0 DEF vars, linkVars, retryVars, SharedInv, Flags, Places, Retries, OneSession, EndedForGood
<1>3. /\ screen' \in [status : {"connecting", "online"}, tunnels : SUBSET Tunnel]
      /\ screen'.status = CASE wait = "connecting" -> "connecting"
                            [] wait = "connected" -> "online"
                            [] OTHER -> screen.status
      /\ screen.tunnels \subseteq screen'.tunnels
      /\ wait \in Tunnel => wait \in screen'.tunnels
  <2>1. CASE wait = "connecting"
    BY <1>0, <2>1 DEF handleEvent
  <2>2. CASE wait = "connected"
    BY <1>0, <2>2 DEF handleEvent
  <2>3. CASE wait \in Tunnel
    <3>1. screen' = [screen EXCEPT !.tunnels = screen.tunnels \union {wait}]
      BY <1>0, <2>3 DEF handleEvent
    <3> QED BY <1>0, <2>3, <3>1
  <2>4. CASE wait = "other"
    BY <1>0, <2>4 DEF handleEvent
  <2> QED BY <1>0, <2>1, <2>2, <2>3, <2>4 DEF Event
<1>4. UITypes'
  BY <1>0, <1>3 DEF UITypes
<1>5. OutInv'
  BY <1>0, <1>1 DEF OutInv
<1>6. Heralded => Heralded'
  <2>1. ASSUME NEW i \in 1..Len(queue), queue[i] = Herald,
               \A j \in i + 1..Len(queue) : queue[j] \notin Says
        PROVE  Heralded'
    BY <1>0, <1>1, <2>1 DEF Heralded
  <2>2. CASE /\ \A j \in 1..Len(queue) : queue[j] \notin Says
             /\ wait = Herald \/ (wait \notin Says /\ screen.status = Truth)
    <3>1. screen'.status = Truth
      BY <1>3, <2>2 DEF Herald, Truth, Says
    <3> QED BY <1>0, <1>1, <2>2, <3>1 DEF Heralded, Says
  <2> QED BY <2>1, <2>2 DEF Heralded
<1>7. StatusInv'
  BY <1>0, <1>6 DEF StatusInv
<1>8. TunnelsInv'
  <2>1. granted \subseteq Tunnel
    BY <1>0 DEF UITypes
  <2> QED BY <1>0, <1>1, <1>3, <2>1 DEF TunnelsInv
<1> QED BY <1>2, <1>4, <1>5, <1>7, <1>8 DEF UIInv

\* Nothing on its way changes, nor what the tunnel is.
LEMMA QuietUIStep ==
    ASSUME UIInv, SharedInv', UNCHANGED <<runner, result, queue, missed, wait, screen, out, granted>>,
           ui' \in {"starting", "running", "left", "exited"}
    PROVE  UIInv'
<1>1. (Announced' <=> Announced) /\ Herald' = Herald /\ Truth' = Truth
  BY DEF Announced, Herald, Truth
<1>2. UITypes' /\ OutInv' /\ StatusInv' /\ TunnelsInv'
  BY <1>1 DEF UIInv, UITypes, OutInv, StatusInv, TunnelsInv, Heralded
<1> QED BY <1>2 DEF UIInv

LEMMA UIStarts == UIInit => UIInv
<1> SUFFICES ASSUME UIInit PROVE UIInv
  OBVIOUS
<1>1. SharedInv
  <2>1. Flags
    BY Zenon DEF UIInit, Init, Flags
  <2> QED BY <2>1 DEF UIInit, Init, SharedInv, Places, Retries, OneSession, EndedForGood, AttemptCap
<1>2. ~Announced
  BY DEF UIInit, Init, Announced
<1>3. UITypes
  BY DEF UIInit, UITypes, Event
<1>4. OutInv /\ StatusInv /\ TunnelsInv
  BY <1>2 DEF UIInit, OutInv, StatusInv, TunnelsInv, Heralded, Herald, Truth, Says
<1> QED BY <1>1, <1>3, <1>4 DEF UIInv

LEMMA UIKeeps == UIInv /\ [UINext]_<<vars, uiVars>> => UIInv'
<1> SUFFICES ASSUME UIInv, [UINext]_<<vars, uiVars>> PROVE UIInv'
  OBVIOUS
<1>0. SharedInv /\ ui \in {"starting", "running", "left", "exited"}
  BY DEF UIInv, UITypes
<1>1. CASE Outside /\ UNCHANGED uiVars
  BY <1>0, <1>1, OutsideStep, QuietUIStep DEF uiVars, busVars, screenVars
<1>2. CASE NewModel \/ Exit
  <2>1. UNCHANGED vars
    BY <1>2 DEF NewModel, Exit
  <2>2. SharedInv'
    BY <1>0, <2>1 DEF vars, linkVars, retryVars, SharedInv, Flags, Places, Retries, OneSession,
                      EndedForGood
  <2> QED BY <1>2, <2>1, <2>2, QuietUIStep DEF NewModel, Exit, busVars, vars
<1>3. CASE Quit
  <2>1. Flags'
    BY <1>0, <1>3, Zenon DEF SharedInv, Flags, Quit, linkVars
  <2>2. SharedInv'
    BY <1>0, <1>3, <2>1 DEF Quit, linkVars, retryVars, SharedInv, Places, Retries, OneSession,
                            EndedForGood
  <2> QED BY <1>3, <2>2, QuietUIStep DEF Quit, busVars
<1>4. CASE UNCHANGED <<vars, uiVars>>
  <2>1. SharedInv'
    BY <1>0, <1>4 DEF vars, linkVars, retryVars, SharedInv, Flags, Places, Retries, OneSession,
                      EndedForGood
  <2> QED BY <1>0, <1>4, <2>1, QuietUIStep DEF vars, uiVars, busVars, screenVars
<1> QED BY <1>1, <1>2, <1>3, <1>4, PublishNextStep, ChatterStep, TunnelStepKeeps,
           waitForEventStep, UpdateStep DEF UINext, Outside

LEMMA UIInvariant == UISpec => []UIInv
BY UIStarts, UIKeeps, PTL DEF UISpec

\* The tunnel, the bus and the UI are well typed in every reachable state.
THEOREM UITyped == UISpec => []UITypeOK
<1>1. UIInv => UITypeOK
  BY DEF UIInv, UITypes, UITypeOK, TypeOK, SharedInv, Flags, Places, Retries
<1> QED BY <1>1, UIInvariant, PTL

\* One session at most is alive, and it ends with the context.
THEOREM OneSessionHolds == UISpec => []OneSession
BY UIInvariant, PTL DEF UIInv, SharedInv

\* While the tunnel is being set up, retried or kept, a screen that missed nothing
\* of this attempt, and has taken everything in, says what the tunnel is.
THEOREM ScreenFollowsHolds == UISpec => []ScreenFollows
<1>1. UIInv => ScreenFollows
  <2> SUFFICES ASSUME UIInv, Trying, out = {}, queue = << >>, wait = "armed", missed = {}
               PROVE  /\ screen.status = IF Online THEN "online" ELSE "connecting"
                      /\ Online => granted \subseteq screen.tunnels
    BY DEF ScreenFollows
  <2>1. Heralded
    BY DEF UIInv, StatusInv
  <2>2. screen.status = Truth
    BY <2>1 DEF Heralded, Herald
  <2>3. Announced <=> Online
    BY DEF Announced, Online, Trying
  <2>4. "armed" \notin Tunnel
    OBVIOUS
  <2>5. Online => granted \subseteq screen.tunnels
    BY <2>3, <2>4 DEF UIInv, UITypes, TunnelsInv
  <2> QED BY <2>2, <2>3, <2>5 DEF Truth
<1> QED BY <1>1, UIInvariant, PTL

-----------------------------------------------------------------------------
(* The UI does not interfere with the tunnel.                               *)

\* A step of the client under its UI is a step of the tunnel or none.
LEMMA TunnelSimulation == UIInv /\ [UINext]_<<vars, uiVars>> => [Next]_vars
<1> SUFFICES ASSUME UIInv, [UINext]_<<vars, uiVars>> PROVE [Next]_vars
  OBVIOUS
<1>1. CASE Cancel \/ ServerAnswers \/ LinkDrops \/ ServerCloses \/ ServerForgets \/ WatcherCloses
  BY <1>1 DEF Next
<1>2. CASE TunnelStep
  <2>1. Runner
    BY <1>2 DEF TunnelStep, TopPublishes, ReadReplyPublishes, Runner
  <2> QED BY <2>1 DEF Next
<1>3. CASE PublishNext \/ Chatter
  BY <1>3 DEF PublishNext, Chatter
<1>4. CASE NewModel \/ waitForEvent \/ Update \/ Exit
  BY <1>4 DEF NewModel, waitForEvent, Update, Exit
<1>5. CASE Quit
  <2>1. CASE ~ctxDone
    BY <1>5, <2>1 DEF Quit, Cancel, Next
  <2>2. CASE ctxDone = TRUE
    BY <1>5, <2>2 DEF Quit, vars
  <2>3. ctxDone \in BOOLEAN
    BY DEF UIInv, SharedInv, Flags
  <2> QED BY <2>1, <2>2, <2>3
<1>6. CASE UNCHANGED <<vars, uiVars>>
  BY <1>6
<1> QED BY <1>1, <1>2, <1>3, <1>4, <1>5, <1>6 DEF UINext

\* The tunnel under the UI behaves as the tunnel does alone: whatever the UI
\* does with the bus, whether it has quit or hangs, is to the tunnel at most a
\* cancelled context.  Every safety property of SharedTunnelClient holds here.
THEOREM TunnelUndisturbed == UISpec => Spec
<1>1. UIInit => Init
  BY DEF UIInit
<1>2. UIInv /\ [UINext]_<<vars, uiVars>> => [Next]_vars
  BY TunnelSimulation
<1> QED BY <1>1, <1>2, UIInvariant, PTL DEF UISpec, Spec

=============================================================================
