---------------------------- MODULE TerminalProofs ----------------------------
(***************************************************************************)
(* Proofs about Terminal for all symbols and every bound.  What TWS serves *)
(* follows the screen, as OnExit() and OnEnter() are never apart; what     *)
(* makes this inductive is the flag `connected': once set it stays, and so *)
(* does a failure of the socket.  A screen with a service is on display    *)
(* only after a connection was made, hence a connection newly made finds   *)
(* no such screen, no request and no message from before.                  *)
(***************************************************************************)
EXTENDS Terminal, TLAPS

ScreenType ==
    [kind : Services \union {"Splash", "Body", "Debug"}, of : Targets,
     shows : Targets, loaded : BOOLEAN, reading : BOOLEAN, due : BOOLEAN]

\* The screen has entered and not left.
Serving == pc \notin {"start", "enter", "disconnect", "stopped"}

\* The flag outlives the socket; who needs it has it.
ClientInv ==
    /\ client.socket => client.connected
    /\ screen.kind \in Services /\ pc # "stopped" => client.connected
    /\ pc = "leave" /\ next.kind \in Services => client.connected
    /\ pc = "pump" => client.connected
    /\ ~client.connected /\ pc # "stopped" => status_queue = <<>>

\* Nothing is shown by a screen that has not entered, or that has no service.
FreshInv ==
    /\ next.shows = Nothing /\ ~next.loaded
    /\ screen.kind \notin Services \/ pc \in {"start", "enter"}
         => screen.shows = Nothing /\ ~screen.loaded

\* What TWS serves.
ServedInv ==
    tws.asked = IF Serving /\ IsConnected /\ screen.kind \in Services
                THEN {[kind |-> screen.kind, of |-> screen.of]}
                ELSE {}

\* What the services hold: with the socket gone, the cancels are skipped.
HeldInv ==
    IsConnected \/ ~client.connected =>
      service = [k \in Services |->
                   IF Serving /\ screen.kind = k THEN screen.of ELSE Nothing]

ShownInv == IsConnected => screen.shows \in {Nothing, screen.of}

\* A message that the news are loaded never outlives the session it is about.
SaysLoaded(statuses) == \E i \in DOMAIN statuses : statuses[i] = "loaded"
LoadedInv ==
    /\ screen.loaded /\ pc \notin {"disconnect", "stopped"} =>
         streaming /\ service["News"] = screen.of
    /\ pc = "pump" /\ SaysLoaded(status_queue) => streaming
    /\ SaysLoaded(frame_statuses) => pc = "draw" /\ streaming

IInv ==
    /\ TypeOK /\ ClientInv /\ FreshInv /\ ServedInv /\ HeldInv /\ ShownInv
    /\ LoadedInv /\ NoStatusWaits

USE TerminalAssumption

-----------------------------------------------------------------------------
(* Screens and sequences. *)

\* A screen as its constructor leaves it has the type of one and nothing on it.
LEMMA NewScreenFresh ==
    ASSUME NEW kind \in Services \union {"Splash", "Body", "Debug"}, NEW of \in Targets
    PROVE  LET s == NewScreen(kind, of)
           IN  /\ s \in ScreenType /\ s.kind = kind
               /\ s.shows = Nothing /\ ~s.loaded
<1>1. Nothing \in Targets
  BY DEF Targets
<1> QED BY <1>1 DEF NewScreen, ScreenType

LEMMA FreshScreens ==
    /\ Splash \in ScreenType /\ Splash.kind = "Splash"
    /\ Splash.shows = Nothing /\ ~Splash.loaded
    /\ \A s \in Openable :
         s \in ScreenType /\ s.shows = Nothing /\ ~s.loaded
<1>1. /\ Nothing \in Targets /\ Everything \in Targets
      /\ \A s \in Symbols : s \in Targets
  BY DEF Targets
<1>2. \A k \in {"News", "Portfolio", "Chart", "Quote", "Splash", "Body", "Debug"} :
        k \in Services \union {"Splash", "Body", "Debug"}
  BY DEF Services
<1>3. ASSUME NEW s \in Openable
      PROVE  s \in ScreenType /\ s.shows = Nothing /\ ~s.loaded
  <2>1. \E kind \in {"News", "Portfolio", "Chart", "Quote", "Splash", "Body", "Debug"} :
          \E of \in Targets : s = NewScreen(kind, of)
    <3>1. CASE s \in {NewScreen(kind, Nothing) : kind \in {"Body", "Debug"}}
      BY <1>1, <3>1
    <3>2. CASE s \in {NewScreen(kind, Everything) : kind \in {"News", "Portfolio"}}
      BY <1>1, <3>2
    <3>3. CASE s \in {NewScreen(kind, t) : kind \in {"News", "Chart", "Quote"}, t \in Symbols}
      BY <1>1, <3>3
    <3> QED BY <3>1, <3>2, <3>3 DEF Openable
  <2> QED BY <1>2, <2>1, NewScreenFresh
<1> QED BY <1>1, <1>2, <1>3, NewScreenFresh DEF Splash

LEMMA AppendedStatus ==
    ASSUME NEW q \in Seq(Statuses), NEW s \in Statuses
    PROVE  /\ Append(q, s) \in Seq(Statuses)
           /\ SaysLoaded(Append(q, s)) => SaysLoaded(q) \/ s = "loaded"
           /\ Append(q, s) # <<>>
           /\ q = <<>> => Append(q, s) = <<s>>
<1>1. /\ Append(q, s) \in Seq(Statuses) /\ Append(q, s) # <<>>
      /\ SaysLoaded(Append(q, s)) => SaysLoaded(q) \/ s = "loaded"
  BY DEF SaysLoaded
<1>2. Append(<<>>, s) = <<s>>
  OBVIOUS
<1> QED BY <1>1, <1>2

LEMMA NoneLoaded == <<>> \in Seq(Statuses) /\ ~SaysLoaded(<<>>)
BY DEF SaysLoaded

\* A frame changes what a screen shows, and only while connected, but for the
\* quote screen.
LEMMA ScreenAfterFrame ==
    ASSUME TypeOK
    PROVE  LET s == AfterFrame(screen)
           IN  /\ s \in ScreenType
               /\ s.kind = screen.kind /\ s.of = screen.of
               /\ s.shows # screen.shows =>
                    screen.kind \in Services /\ s.shows = service[screen.kind]
               /\ s.loaded # screen.loaded =>
                    /\ screen.kind = "News" /\ IsConnected
                    /\ SaysLoaded(frame_statuses)
               /\ s.loaded = screen.loaded \/ s.loaded
<1> USE DEF ScreenType, Services
<1>1. screen \in ScreenType /\ service \in [Services -> Targets]
  BY DEF TypeOK
<1>2. CASE screen.kind = "Quote"
  BY <1>1, <1>2 DEF AfterFrame
<1>3. CASE screen.kind \in {"Chart", "Portfolio"} /\ IsConnected
  BY <1>1, <1>3 DEF AfterFrame
<1>4. CASE screen.kind = "News" /\ IsConnected
  <2>1. AfterFrame(screen) =
          [screen EXCEPT !.loaded = @ \/ SaysLoaded(frame_statuses)]
    BY <1>4 DEF AfterFrame, SaysLoaded
  <2> QED BY <1>1, <1>4, <2>1 DEF SaysLoaded
<1>5. CASE screen.kind = "Splash" /\ IsConnected
  BY <1>1, <1>5 DEF AfterFrame
<1>6. CASE /\ screen.kind # "Quote"
           /\ ~(screen.kind \in {"Chart", "Portfolio"} /\ IsConnected)
           /\ ~(screen.kind = "News" /\ IsConnected)
           /\ ~(screen.kind = "Splash" /\ IsConnected)
  <2>1. AfterFrame(screen) = screen
    BY <1>6 DEF AfterFrame
  <2> QED BY <1>1, <2>1
<1> QED BY <1>2, <1>3, <1>4, <1>5, <1>6

-----------------------------------------------------------------------------
(* The state before a step, in the terms the steps below use. *)

\* What IInv says of the variables by themselves.
LEMMA Typed ==
    ASSUME IInv
    PROVE  /\ screen \in ScreenType /\ next \in ScreenType
           /\ client = [connected |-> client.connected, socket |-> client.socket]
           /\ client.connected \in BOOLEAN /\ client.socket \in BOOLEAN
           /\ service \in [Services -> Targets]
           /\ tws = [asked |-> tws.asked, clock |-> tws.clock]
           /\ tws.asked \in SUBSET [kind : Services, of : Targets]
           /\ tws.clock \in BOOLEAN
           /\ status_queue \in Seq(Statuses) /\ frame_statuses \in Seq(Statuses)
           /\ bar_status \in Statuses /\ info \subseteq Facts
           /\ running \in BOOLEAN /\ streaming \in BOOLEAN
BY DEF IInv, TypeOK, ScreenType

LEMMA InitInv == Init => IInv
<1> SUFFICES ASSUME Init PROVE IInv
  OBVIOUS
<1> USE FreshScreens, NoneLoaded DEF Init
<1>1. TypeOK
  <2>1. NoService \in [Services -> Targets]
    BY DEF NoService, Targets
  <2>3. NoTws \in [asked : SUBSET [kind : Services, of : Targets], clock : BOOLEAN]
    BY DEF NoTws
  <2> QED BY <2>1, <2>3 DEF TypeOK, ScreenType, Statuses
<1>2. ClientInv /\ FreshInv /\ ShownInv /\ LoadedInv /\ NoStatusWaits
  BY DEF ClientInv, FreshInv, ShownInv, LoadedInv, NoStatusWaits, Services
<1>3. ServedInv /\ HeldInv
  BY DEF ServedInv, HeldInv, Serving, NoTws, NoService, IsConnected
<1> QED BY <1>1, <1>2, <1>3 DEF IInv

-----------------------------------------------------------------------------
(* One lemma per action. *)

LEMMA CloseInv == IInv /\ Close => IInv'
<1> SUFFICES ASSUME IInv, Close PROVE IInv'
  OBVIOUS
<1> USE Typed DEF IInv, Close, IsConnected, loopVars, serviceVars
<1>1. /\ client' = [connected |-> TRUE, socket |-> FALSE]
      /\ status_queue' \in Seq(Statuses)
      /\ SaysLoaded(status_queue') => SaysLoaded(status_queue)
  BY AppendedStatus DEF Statuses
<1>2. TypeOK'
  BY <1>1 DEF TypeOK, NoTws
<1>3. ClientInv' /\ FreshInv' /\ ShownInv'
  BY <1>1 DEF ClientInv, FreshInv, ShownInv
<1>4. ServedInv' /\ HeldInv'
  BY <1>1 DEF ServedInv, HeldInv, Serving, NoTws
<1>5. LoadedInv'
  BY <1>1 DEF LoadedInv, SaysLoaded
<1>6. NoStatusWaits'
  BY <1>1, AppendedStatus DEF NoStatusWaits, Statuses
<1> QED BY <1>2, <1>3, <1>4, <1>5, <1>6

\* What Cancel() leaves, of the screen on display.
LEMMA OnExitCancels ==
    ASSUME IInv, Serving, OnExit
    PROVE  /\ tws' = [asked |-> {}, clock |-> tws.clock]
           /\ service' \in [Services -> Targets] /\ streaming' \in BOOLEAN
           /\ IsConnected \/ ~client.connected => service' = NoService
<1> USE Typed DEF IInv, OnExit, Cancel, ServedInv, HeldInv, NoService, Targets
<1>1. CASE IsConnected /\ screen.kind \in Services
  <2>1. /\ tws.asked = {[kind |-> screen.kind, of |-> screen.of]}
        /\ service = [k \in Services |->
                        IF screen.kind = k THEN screen.of ELSE Nothing]
    BY <1>1
  <2>2. {r \in tws.asked : r.kind # screen.kind} = {}
    BY <2>1
  <2>3. /\ service' = [service EXCEPT ![screen.kind] = Nothing]
        /\ streaming' = (streaming /\ screen.kind # "News")
        /\ tws' = [tws EXCEPT !.asked = {}]
    BY <1>1, <2>2
  <2>4. service' = NoService
    BY <2>1, <2>3
  <2>5. NoService \in [Services -> Targets]
    OBVIOUS
  <2> QED BY <2>3, <2>4, <2>5
<1>2. CASE ~(IsConnected /\ screen.kind \in Services)
  <2>1. UNCHANGED <<service, streaming, tws>> /\ tws.asked = {}
    BY <1>2
  <2>2. IsConnected \/ ~client.connected => screen.kind \notin Services
    BY <1>2 DEF ClientInv, Serving
  <2> QED BY <2>1, <2>2
<1> QED BY <1>1, <1>2

\* Without a socket there is nothing to cancel.
LEMMA NoneAsked ==
    ASSUME IInv, tws' = [asked |-> {}, clock |-> tws.clock]
    PROVE  client.socket \/ tws' = NoTws
<1>1. CASE tws = NoTws
  <2>1. tws.clock = FALSE
    BY <1>1 DEF NoTws
  <2> QED BY <2>1 DEF NoTws
<1> QED BY <1>1 DEF IInv, TypeOK

LEMMA LeaveInv == IInv /\ Leave => IInv'
<1> SUFFICES ASSUME IInv, Leave PROVE IInv'
  OBVIOUS
<1> USE Typed, FreshScreens DEF IInv, Leave
<1>1. /\ tws' = [asked |-> {}, clock |-> tws.clock]
      /\ service' \in [Services -> Targets] /\ streaming' \in BOOLEAN
      /\ IsConnected \/ ~client.connected => service' = NoService
  BY OnExitCancels DEF Serving
<1>2. screen'.shows = Nothing /\ ~screen'.loaded
  BY DEF FreshInv
<1>3. TypeOK'
  <2>1. {screen', next'} \subseteq ScreenType /\ client' = client
    OBVIOUS
  <2>2. tws' \in [asked : SUBSET [kind : Services, of : Targets], clock : BOOLEAN]
    BY <1>1
  <2>3. client'.socket \/ tws' = NoTws
    BY <1>1, <2>1, NoneAsked
  <2> QED BY <1>1, <2>1, <2>2, <2>3 DEF TypeOK, ScreenType
<1>4. ClientInv' /\ FreshInv' /\ ShownInv'
  BY <1>2 DEF ClientInv, FreshInv, ShownInv, Services
<1>5. ServedInv' /\ HeldInv'
  BY <1>1 DEF ServedInv, HeldInv, Serving, NoService, IsConnected
<1>6. LoadedInv' /\ NoStatusWaits'
  BY <1>2 DEF LoadedInv, NoStatusWaits, SaysLoaded
<1> QED BY <1>3, <1>4, <1>5, <1>6

\* Connect() changes the client only when nothing was there before.
LEMMA ConnectMakes ==
    ASSUME IInv, NEW ok \in BOOLEAN, ConnectIfNeeded(ok)
    PROVE  /\ client' \in [connected : BOOLEAN, socket : BOOLEAN]
           /\ client'.socket => client'.connected
           /\ client.connected \/ client.socket => client' = client
           /\ ok => client'.connected
<1> USE Typed DEF IInv, ConnectIfNeeded, Connect, IsConnected, ClientInv
<1>1. CASE client.connected
  <2>1. client' = client
    BY <1>1
  <2> QED BY <1>1, <2>1
<1>2. CASE ~client.connected
  BY <1>2
<1> QED BY <1>1, <1>2

\* Hence what TWS and the services hold is right with the new client too.
LEMMA ConnectKeeps ==
    ASSUME IInv,
           client' \in [connected : BOOLEAN, socket : BOOLEAN],
           client'.socket => client'.connected,
           client.connected \/ client.socket => client' = client
    PROVE  /\ client'.socket \/ tws = NoTws
           /\ client'.connected /\ client'.socket /\ ~IsConnected =>
                screen.kind \notin Services \/ pc = "stopped"
           /\ IsConnected => client'.connected /\ client'.socket
           /\ (client'.connected /\ client'.socket) \/ ~client'.connected =>
                IsConnected \/ ~client.connected
           /\ client.connected => client'.connected
<1> USE DEF IInv, IsConnected, ClientInv, TypeOK
<1>1. CASE client.connected \/ client.socket
  BY <1>1
<1>2. CASE ~client.connected /\ ~client.socket
  BY <1>2
<1> QED BY <1>1, <1>2

LEMMA EnterSplashInv ==
    ASSUME IInv, Enter, EnterSplash
    PROVE  IInv'
<1> USE Typed DEF IInv, Enter, EnterSplash
<1>1. PICK ok \in BOOLEAN :
        /\ ConnectIfNeeded(ok)
        /\ bar_status' = AfterEntering(IF ok THEN bar_status ELSE "connect failed")
  OBVIOUS
<1>2. /\ client' \in [connected : BOOLEAN, socket : BOOLEAN]
      /\ client'.socket => client'.connected
      /\ client.connected \/ client.socket => client' = client
  BY <1>1, ConnectMakes
<1>3. /\ client'.socket \/ tws = NoTws
      /\ (client'.connected /\ client'.socket) \/ ~client'.connected =>
           IsConnected \/ ~client.connected
      /\ client.connected => client'.connected
  BY <1>2, ConnectKeeps
<1>4. screen.kind \notin Services /\ screen' = screen /\ next' = next
  BY DEF Services
<1>5. /\ tws' = [asked |-> {}, clock |-> tws.clock \/ AsksTime]
      /\ AsksTime \in BOOLEAN
  BY <1>2, <1>4 DEF ServedInv, Serving, AsksTime
<1>6. TypeOK'
  <2>1. bar_status' \in Statuses
    BY <1>1 DEF AfterEntering, Statuses
  <2>2. client'.socket \/ tws' = NoTws
    <3>1. CASE client'.socket
      BY <3>1
    <3>2. CASE ~client'.socket
      <4> HIDE Typed DEF IInv, Enter, EnterSplash
      <4>1. tws.clock = FALSE
        BY <1>3, <3>2 DEF NoTws
      <4>2. AsksTime = FALSE
        BY <3>2 DEF AsksTime
      <4> QED BY <1>5, <4>1, <4>2 DEF NoTws
    <3> QED BY <3>1, <3>2
  <2>3. tws' \in [asked : SUBSET [kind : Services, of : Targets], clock : BOOLEAN]
    BY <1>5
  <2>4. {screen', next'} \subseteq ScreenType
    BY <1>4
  <2> QED BY <1>2, <2>1, <2>2, <2>3, <2>4 DEF TypeOK, ScreenType
<1>7. ClientInv'
  BY <1>2, <1>3, <1>4 DEF ClientInv
<1>8. FreshInv' /\ ShownInv' /\ LoadedInv'
  BY <1>4 DEF FreshInv, ShownInv, LoadedInv, SaysLoaded
<1>9. ServedInv'
  BY <1>4, <1>5 DEF ServedInv
<1>10. HeldInv'
  BY <1>3, <1>4 DEF HeldInv, Serving, IsConnected, Services
<1>11. NoStatusWaits'
  BY <1>2 DEF NoStatusWaits, ClientInv
<1> QED BY <1>6, <1>7, <1>8, <1>9, <1>10, <1>11

LEMMA EnterOtherInv ==
    ASSUME IInv, Enter, EnterOther
    PROVE  IInv'
<1> USE Typed DEF IInv, Enter, EnterOther
<1>1. ~Serving /\ Serving' /\ tws.asked = {} /\ IsConnected' = IsConnected
  BY DEF Serving, ServedInv, IsConnected
<1>2. screen' = screen /\ screen.shows = Nothing /\ ~screen.loaded
  BY DEF FreshInv
<1>3. CASE screen.kind \in Services /\ IsConnected
  <2>1. service = [k \in Services |-> Nothing]
    BY <1>1, <1>3 DEF HeldInv
  <2>2. {r \in tws.asked : r.kind # screen.kind} = {}
    BY <1>1
  <2>3. /\ service' = [service EXCEPT ![screen.kind] = screen.of]
        /\ streaming' = (streaming /\ screen.kind # "News")
        /\ tws' = [tws EXCEPT !.asked = {[kind |-> screen.kind, of |-> screen.of]}]
    BY <1>3, <2>2 DEF Request
  <2>4. /\ service' = [k \in Services |-> IF screen.kind = k THEN screen.of ELSE Nothing]
        /\ tws' = [asked |-> {[kind |-> screen.kind, of |-> screen.of]},
                   clock |-> tws.clock]
    BY <2>1, <2>3
  <2>5. TypeOK'
    <3>1. screen.of \in Targets /\ client.socket
      BY <1>3 DEF ScreenType, IsConnected
    <3>2. service' \in [Services -> Targets]
      BY <2>4, <3>1 DEF Targets
    <3>3. tws' \in [asked : SUBSET [kind : Services, of : Targets], clock : BOOLEAN]
      BY <1>3, <2>4, <3>1
    <3>4. bar_status' \in Statuses
      BY DEF AfterEntering, Statuses
    <3> QED BY <1>2, <2>3, <3>1, <3>2, <3>3, <3>4 DEF TypeOK, ScreenType
  <2>6. ClientInv' /\ FreshInv' /\ ShownInv'
    BY <1>2, <1>3 DEF ClientInv, FreshInv, ShownInv
  <2>7. ServedInv' /\ HeldInv'
    BY <1>1, <1>2, <1>3, <2>4 DEF ServedInv, HeldInv
  <2>8. LoadedInv' /\ NoStatusWaits'
    BY <1>2 DEF LoadedInv, SaysLoaded, NoStatusWaits
  <2> QED BY <2>5, <2>6, <2>7, <2>8
<1>4. CASE ~(screen.kind \in Services /\ IsConnected)
  <2>1. UNCHANGED <<service, streaming, tws>>
    BY <1>4 DEF Request
  <2>2. TypeOK'
    BY <1>2, <2>1 DEF TypeOK, AfterEntering, Statuses
  <2>3. ClientInv' /\ FreshInv' /\ ShownInv'
    BY <1>2, <1>4 DEF ClientInv, FreshInv, ShownInv
  <2>4. ServedInv'
    BY <1>1, <1>2, <1>4, <2>1 DEF ServedInv
  <2>5. HeldInv'
    <3>1. IsConnected \/ ~client.connected => screen.kind \notin Services
      BY <1>4 DEF ClientInv
    <3> QED BY <1>1, <1>2, <2>1, <3>1 DEF HeldInv
  <2>6. LoadedInv' /\ NoStatusWaits'
    BY <1>2, <2>1 DEF LoadedInv, SaysLoaded, NoStatusWaits
  <2> QED BY <2>2, <2>3, <2>4, <2>5, <2>6
<1> QED BY <1>3, <1>4

LEMMA OpenInv == ASSUME NEW s \in Openable, IInv, Open(s) PROVE IInv'
<1> USE Typed, FreshScreens DEF IInv, Open, Event
<1>1. PICK ok \in BOOLEAN :
        /\ IF s.kind \in Services THEN ConnectIfNeeded(ok) ELSE ok /\ UNCHANGED client
        /\ IF ok
           THEN Install(s)
           ELSE bar_status' = "connect failed" /\ UNCHANGED loopVars
  OBVIOUS
<1>2. /\ client' \in [connected : BOOLEAN, socket : BOOLEAN]
      /\ client'.socket => client'.connected
      /\ client.connected \/ client.socket => client' = client
      /\ ok /\ s.kind \in Services => client'.connected
  <2>1. CASE s.kind \in Services
    BY <1>1, <2>1, ConnectMakes
  <2>2. CASE s.kind \notin Services
    <3>1. client' = client
      BY <1>1, <2>2
    <3> QED BY <2>2, <3>1 DEF ClientInv
  <2> QED BY <2>1, <2>2
<1>3. /\ client'.socket \/ tws = NoTws
      /\ client'.connected /\ client'.socket /\ ~IsConnected =>
           screen.kind \notin Services
      /\ IsConnected => client'.connected /\ client'.socket
      /\ (client'.connected /\ client'.socket) \/ ~client'.connected =>
           IsConnected \/ ~client.connected
      /\ client.connected => client'.connected
  BY <1>2, ConnectKeeps
<1>4. /\ pc' \in {"events", "leave"} /\ next' \in {next, s}
      /\ pc' = "leave" => next' = s /\ ok
      /\ bar_status' \in {bar_status, "connect failed"}
      /\ screen' = screen /\ UNCHANGED <<running, frame_statuses>>
  BY <1>1 DEF Install, loopVars
<1>5. UNCHANGED <<service, streaming, info, status_queue, tws>>
  BY DEF serviceVars
<1>6. Serving /\ Serving' /\ pc = "events"
  BY <1>4 DEF Serving
<1> HIDE DEF Open
<1>7. TypeOK'
  <2>1. bar_status' \in Statuses
    BY <1>4 DEF Statuses
  <2> QED BY <1>2, <1>3, <1>4, <1>5, <2>1 DEF TypeOK, ScreenType
<1>8. ClientInv'
  BY <1>2, <1>3, <1>4, <1>5, <1>6 DEF ClientInv
<1>9. FreshInv'
  BY <1>4, <1>6 DEF FreshInv
<1>10. ShownInv'
  <2>1. CASE IsConnected
    BY <1>4, <2>1 DEF ShownInv
  <2>2. CASE ~IsConnected
    BY <1>3, <1>4, <2>2 DEF ShownInv, FreshInv, IsConnected
  <2> QED BY <2>1, <2>2
<1>11. ServedInv'
  <2>1. CASE IsConnected
    BY <1>3, <1>4, <1>5, <1>6, <2>1 DEF ServedInv, IsConnected
  <2>2. CASE ~IsConnected
    BY <1>3, <1>4, <1>5, <1>6, <2>2 DEF ServedInv, IsConnected
  <2> QED BY <2>1, <2>2
<1>12. HeldInv'
  BY <1>3, <1>4, <1>5, <1>6 DEF HeldInv, IsConnected
<1>13. LoadedInv'
  BY <1>4, <1>5, <1>6 DEF LoadedInv, SaysLoaded
<1>14. NoStatusWaits'
  BY <1>2, <1>4, <1>5, <1>6 DEF NoStatusWaits, ClientInv
<1> QED BY <1>7, <1>8, <1>9, <1>10, <1>11, <1>12, <1>13, <1>14

\* A step that leaves the client, the services, TWS and the messages alone, stays
\* among the handlers and changes the screen's marks only, if anything of it.
LEMMA QuietInv ==
    ASSUME IInv, pc = "events", pc' \in {"events", "leave", "pump", "draw"},
           pc' = "pump" => client.connected,
           UNCHANGED <<frame_statuses, client, service, streaming, info,
                       status_queue, tws>>,
           running' \in BOOLEAN, bar_status' \in Statuses,
           next' \in {next, Splash}, screen' \in ScreenType,
           /\ screen'.kind = screen.kind /\ screen'.of = screen.of
           /\ screen'.shows = screen.shows /\ screen'.loaded = screen.loaded,
           pc' = "leave" => next' = Splash
    PROVE  IInv'
<1> USE Typed, FreshScreens DEF IInv
<1>1. TypeOK'
  BY DEF TypeOK, ScreenType
<1>2. ClientInv' /\ FreshInv' /\ ShownInv'
  BY DEF ClientInv, FreshInv, ShownInv, IsConnected, Services
<1>3. ServedInv' /\ HeldInv'
  BY DEF ServedInv, HeldInv, IsConnected, Serving
<1>4. ~SaysLoaded(status_queue)
  BY DEF NoStatusWaits, SaysLoaded
<1>5. LoadedInv' /\ NoStatusWaits'
  BY <1>4 DEF LoadedInv, NoStatusWaits, SaysLoaded
<1> QED BY <1>1, <1>2, <1>3, <1>5

LEMMA EventInv ==
    ASSUME IInv, BadCommand \/ Type \/ Escape \/ Click \/ Quit \/ Tick \/ BeginFrame
    PROVE  IInv'
<1> USE Typed DEF Event, loopVars, serviceVars, Statuses
<1>1. CASE BadCommand \/ Type
  BY <1>1, QuietInv DEF BadCommand, Type, SetStatus
<1>2. CASE Escape
  <2>1. screen' \in {screen, [screen EXCEPT !.reading = FALSE]}
    BY <1>2 DEF Escape
  <2>2. /\ screen' \in ScreenType
        /\ screen'.kind = screen.kind /\ screen'.of = screen.of
        /\ screen'.shows = screen.shows /\ screen'.loaded = screen.loaded
    BY <2>1 DEF ScreenType
  <2> QED BY <1>2, <2>2, QuietInv DEF Escape, Install
<1>3. CASE Click
  <2>1. screen' \in {screen, [screen EXCEPT !.reading = TRUE]}
    BY <1>3 DEF Click
  <2>2. /\ screen' \in ScreenType
        /\ screen'.kind = screen.kind /\ screen'.of = screen.of
        /\ screen'.shows = screen.shows /\ screen'.loaded = screen.loaded
    BY <2>1 DEF ScreenType
  <2> QED BY <1>3, <2>2, QuietInv DEF Click
<1>4. CASE Quit
  BY <1>4, QuietInv DEF Quit
<1>5. CASE Tick
  <2>1. /\ screen' \in ScreenType
        /\ screen'.kind = screen.kind /\ screen'.of = screen.of
        /\ screen'.shows = screen.shows /\ screen'.loaded = screen.loaded
    BY <1>5 DEF Tick, ScreenType
  <2> QED BY <1>5, <2>1, QuietInv DEF Tick
<1>6. CASE BeginFrame
  BY <1>6, QuietInv DEF BeginFrame, IsConnected
<1> QED BY <1>1, <1>2, <1>3, <1>4, <1>5, <1>6

\* Whoever asks for the time does it over a socket.
LEMMA ClockNeedsSocket ==
    ASSUME IInv, NEW clock \in BOOLEAN, clock => tws.clock \/ client.socket,
           tws' = [asked |-> tws.asked, clock |-> clock]
    PROVE  client.socket \/ tws' = NoTws
<1>1. CASE tws = NoTws /\ ~client.socket
  <2>1. tws.clock = FALSE /\ tws.asked = {}
    BY <1>1 DEF NoTws
  <2>2. clock = FALSE
    BY <1>1, <2>1
  <2> QED BY <2>1, <2>2 DEF NoTws
<1> QED BY <1>1 DEF IInv, TypeOK

\* Callbacks, all of them in the pump.
LEMMA CallbackInv ==
    ASSUME IInv,
           OnReady \/ (\E fact \in Facts : OnInfo(fact)) \/ OnNewsLoaded \/ OnError
    PROVE  IInv'
<1> USE Typed DEF IInv, loopVars, serviceVars
<1>1. /\ pc = "pump" /\ UNCHANGED <<pc, running, screen, next, frame_statuses,
                                    bar_status, client, service>>
      /\ tws'.asked = tws.asked
      /\ tws' \in [asked : SUBSET [kind : Services, of : Targets], clock : BOOLEAN]
      /\ client.socket \/ tws' = NoTws
      /\ info' \subseteq Facts /\ streaming' \in BOOLEAN
      /\ streaming => streaming'
      /\ status_queue' \in Seq(Statuses)
      /\ SaysLoaded(status_queue') => streaming'
  <2>1. CASE OnReady
    <3>1. tws' = [asked |-> tws.asked, clock |-> client.socket]
      BY <2>1 DEF OnReady
    <3>2. client.socket \/ tws' = NoTws
      BY <3>1, ClockNeedsSocket
    <3> QED BY <2>1, <3>1, <3>2 DEF OnReady, Callback, LoadedInv
  <2>2. CASE \E fact \in Facts : OnInfo(fact)
    <3>1. PICK fact \in Facts : OnInfo(fact)
      BY <2>2
    <3>2. PICK clock \in BOOLEAN :
            tws' = [asked |-> tws.asked, clock |-> clock] /\ (clock => tws.clock)
      BY <3>1 DEF OnInfo
    <3>3. client.socket \/ tws' = NoTws
      BY <3>2, ClockNeedsSocket
    <3> QED BY <3>1, <3>2, <3>3 DEF OnInfo, Callback, LoadedInv
  <2>3. CASE OnNewsLoaded
    BY <2>3, AppendedStatus DEF OnNewsLoaded, Callback, TypeOK, Statuses
  <2>4. CASE OnError
    BY <2>4, AppendedStatus DEF OnError, Callback, TypeOK, Statuses, LoadedInv
  <2> QED BY <2>1, <2>2, <2>3, <2>4
<1>2. TypeOK'
  BY <1>1 DEF TypeOK, ScreenType
<1>3. ClientInv' /\ FreshInv' /\ ShownInv'
  BY <1>1 DEF ClientInv, FreshInv, ShownInv, IsConnected
<1>4. ServedInv' /\ HeldInv'
  BY <1>1 DEF ServedInv, HeldInv, IsConnected, Serving
<1>5. LoadedInv' /\ NoStatusWaits'
  BY <1>1 DEF LoadedInv, NoStatusWaits, SaysLoaded
<1> QED BY <1>2, <1>3, <1>4, <1>5

LEMMA DrainStatusInv == IInv /\ DrainStatus => IInv'
<1> SUFFICES ASSUME IInv, DrainStatus PROVE IInv'
  OBVIOUS
<1> USE Typed, NoneLoaded DEF IInv, DrainStatus, Swapped, serviceVars
<1>1. bar_status' \in Statuses
  OBVIOUS
<1>2. TypeOK'
  BY <1>1 DEF TypeOK, ScreenType
<1>3. ClientInv' /\ FreshInv' /\ ShownInv' /\ NoStatusWaits'
  BY DEF ClientInv, FreshInv, ShownInv, IsConnected, NoStatusWaits
<1>4. ServedInv' /\ HeldInv'
  BY DEF ServedInv, HeldInv, IsConnected, Serving
<1>5. LoadedInv'
  BY DEF LoadedInv, SaysLoaded
<1> QED BY <1>2, <1>3, <1>4, <1>5

\* The screen takes what its service holds, which is of its own symbol.
LEMMA DrawInv == IInv /\ Draw => IInv'
<1> SUFFICES ASSUME IInv, Draw PROVE IInv'
  OBVIOUS
<1> USE DEF IInv
<1>1. /\ pc = "draw" /\ pc' \in {"events", "exit"}
      /\ screen' = AfterFrame(screen) /\ frame_statuses' = <<>>
      /\ UNCHANGED <<running, next, bar_status, client, service, streaming,
                     info, status_queue>>
      /\ Serving /\ Serving'
  BY DEF Draw, serviceVars, Serving
<1>2. /\ screen' \in ScreenType
      /\ screen'.kind = screen.kind /\ screen'.of = screen.of
      /\ screen'.shows # screen.shows =>
           screen.kind \in Services /\ screen'.shows = service[screen.kind]
      /\ screen'.loaded # screen.loaded =>
           /\ screen.kind = "News" /\ IsConnected
           /\ SaysLoaded(frame_statuses)
      /\ screen'.loaded = screen.loaded \/ screen'.loaded
  BY <1>1, ScreenAfterFrame
<1>3. /\ tws'.asked = tws.asked /\ (client.socket \/ tws' = NoTws)
      /\ tws' \in [asked : SUBSET [kind : Services, of : Targets], clock : BOOLEAN]
  <2>1. PICK clock \in BOOLEAN :
          /\ tws' = [asked |-> tws.asked, clock |-> clock]
          /\ clock => tws.clock \/ client.socket
    BY Typed DEF Draw, IsConnected
  <2>2. client.socket \/ tws' = NoTws
    BY <2>1, ClockNeedsSocket
  <2> QED BY <2>1, <2>2, Typed
<1>4. IsConnected /\ screen.kind \in Services => service[screen.kind] = screen.of
  BY <1>1 DEF HeldInv
<1>5. IsConnected' = IsConnected
  BY <1>1 DEF IsConnected
<1>6. TypeOK'
  BY <1>1, <1>2, <1>3, NoneLoaded, Typed DEF TypeOK, ScreenType
<1>7. ClientInv' /\ NoStatusWaits'
  BY <1>1, <1>2 DEF ClientInv, NoStatusWaits
<1>8. FreshInv'
  BY <1>1, <1>2 DEF FreshInv, Services
<1>9. ShownInv'
  BY <1>1, <1>2, <1>4, <1>5 DEF ShownInv
<1>10. ServedInv' /\ HeldInv'
  BY <1>1, <1>2, <1>3, <1>5 DEF ServedInv, HeldInv
<1>11. LoadedInv'
  <2>1. ~SaysLoaded(frame_statuses') /\ pc' # "pump" /\ pc \notin {"disconnect", "stopped"}
    BY <1>1, NoneLoaded DEF SaysLoaded
  <2>2. screen'.loaded => streaming /\ service["News"] = screen.of
    BY <1>2, <1>4, <2>1 DEF LoadedInv, Services
  <2> QED BY <1>1, <1>2, <2>1, <2>2 DEF LoadedInv, SaysLoaded
<1> QED BY <1>6, <1>7, <1>8, <1>9, <1>10, <1>11

LEMMA ExitInv == IInv /\ Exit => IInv'
<1> SUFFICES ASSUME IInv, Exit PROVE IInv'
  OBVIOUS
<1> USE Typed DEF IInv, Exit
<1>1. /\ tws' = [asked |-> {}, clock |-> tws.clock]
      /\ service' \in [Services -> Targets] /\ streaming' \in BOOLEAN
      /\ IsConnected \/ ~client.connected => service' = NoService
  BY OnExitCancels DEF Serving
<1>2. TypeOK'
  <2>1. client.socket \/ tws' = NoTws
    BY <1>1, NoneAsked
  <2>2. tws' \in [asked : SUBSET [kind : Services, of : Targets], clock : BOOLEAN]
    BY <1>1
  <2> QED BY <1>1, <2>1, <2>2 DEF TypeOK, ScreenType
<1>3. ClientInv' /\ FreshInv' /\ ShownInv'
  BY DEF ClientInv, FreshInv, ShownInv, IsConnected
<1>4. ServedInv' /\ HeldInv'
  BY <1>1 DEF ServedInv, HeldInv, Serving, NoService, IsConnected
<1>5. LoadedInv' /\ NoStatusWaits'
  BY DEF LoadedInv, NoStatusWaits, SaysLoaded
<1> QED BY <1>2, <1>3, <1>4, <1>5

LEMMA DisconnectInv == IInv /\ Disconnect => IInv'
<1> SUFFICES ASSUME IInv, Disconnect PROVE IInv'
  OBVIOUS
<1> USE Typed DEF IInv, Disconnect, serviceVars
<1>1. ~Serving /\ ~Serving'
  BY DEF Serving
<1>2. FreshInv' /\ LoadedInv'
  BY DEF FreshInv, LoadedInv, SaysLoaded
<1>3. CASE client.connected
  <2>1. /\ client' = [connected |-> FALSE, socket |-> FALSE] /\ tws' = NoTws
        /\ service' = NoService /\ streaming' = FALSE /\ info' = {}
    BY <1>3 DEF ResetServices
  <2>2. NoService \in [Services -> Targets]
    BY DEF NoService, Targets
  <2>3. NoTws \in [asked : SUBSET [kind : Services, of : Targets], clock : BOOLEAN]
    BY DEF NoTws
  <2>4. TypeOK'
    BY <2>1, <2>2, <2>3 DEF TypeOK, ScreenType
  <2>5. ClientInv' /\ ShownInv' /\ NoStatusWaits'
    BY <2>1 DEF ClientInv, ShownInv, NoStatusWaits, IsConnected
  <2>6. ServedInv' /\ HeldInv'
    BY <1>1, <2>1 DEF ServedInv, HeldInv, NoTws, NoService
  <2> QED BY <1>2, <2>4, <2>5, <2>6
<1>4. CASE ~client.connected
  <2>1. UNCHANGED <<client, tws, service, streaming, info>>
    BY <1>4
  <2>2. TypeOK'
    BY <2>1 DEF TypeOK, ScreenType
  <2>3. ClientInv' /\ ShownInv' /\ NoStatusWaits'
    BY <2>1 DEF ClientInv, ShownInv, NoStatusWaits, IsConnected
  <2>4. ServedInv' /\ HeldInv'
    BY <1>1, <2>1 DEF ServedInv, HeldInv, IsConnected
  <2> QED BY <1>2, <2>2, <2>3, <2>4
<1> QED BY <1>3, <1>4

LEMMA UnchangedInv == IInv /\ UNCHANGED vars => IInv'
BY DEF IInv, vars, loopVars, serviceVars, TypeOK, ClientInv, FreshInv, ServedInv,
       HeldInv, ShownInv, LoadedInv, NoStatusWaits, IsConnected, Serving, SaysLoaded

LEMMA StepInv == IInv /\ [Next]_vars => IInv'
<1> SUFFICES ASSUME IInv, Next \/ UNCHANGED vars PROVE IInv'
  OBVIOUS
<1>1. CASE Enter
  <2>1. EnterSplash \/ EnterOther
    BY <1>1 DEF Enter
  <2> QED BY <1>1, <2>1, EnterSplashInv, EnterOtherInv
<1>2. CASE \E s \in Openable : Open(s)
  BY <1>2, OpenInv
<1>3. CASE BadCommand \/ Type \/ Escape \/ Click \/ Quit \/ Tick \/ BeginFrame
  BY <1>3, EventInv
<1>4. CASE OnReady \/ (\E fact \in Facts : OnInfo(fact)) \/ OnNewsLoaded \/ OnError
  BY <1>4, CallbackInv
<1>5. CASE Stopped \/ UNCHANGED vars
  BY <1>5, UnchangedInv DEF Stopped
<1> QED BY <1>1, <1>2, <1>3, <1>4, <1>5, CloseInv, LeaveInv, DrainStatusInv,
           DrawInv, ExitInv, DisconnectInv DEF Next

LEMMA InvHolds == Spec => []IInv
<1> QED BY InitInv, StepInv, PTL DEF Spec

-----------------------------------------------------------------------------
(* What holds of the program. *)

\* Every variable has its type, and TWS serves nobody without a socket, whatever
\* is typed and whenever the socket fails.
THEOREM TypeCorrect == Spec => []TypeOK
<1>1. IInv => TypeOK
  BY DEF IInv
<1> QED BY <1>1, InvHolds, PTL

\* Between two handlers TWS serves what the screen on display asked for and
\* nothing else: OnExit() and OnEnter() test the connection separately, and no
\* failure between the two, nor a new connection, leaves a request behind.
THEOREM ServesTheScreen == Spec => []ScreenIsServed
<1>1. IInv => ScreenIsServed
  BY DEF IInv, ServedInv, Serving, ScreenIsServed
<1> QED BY <1>1, InvHolds, PTL

\* While connected a screen shows data of its own symbol only, and a news screen
\* that says it is loaded has seen the message of its own session.
THEOREM ShowsOwnData == Spec => []ShowsItsOwn
<1>1. IInv => ShowsItsOwn
  BY DEF IInv, ShownInv, LoadedInv, ShowsItsOwn
<1> QED BY <1>1, InvHolds, PTL

\* Messages are drained in the frame in which they came, but for the one about
\* the failure of the socket.
THEOREM StatusesDrained == Spec => []NoStatusWaits
<1>1. IInv => NoStatusWaits
  BY DEF IInv
<1> QED BY <1>1, InvHolds, PTL

=============================================================================
