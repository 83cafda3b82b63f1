------------------------------- MODULE Terminal -------------------------------
(***************************************************************************)
(* The program as a whole: the main loop (main.cc), the screen it shows    *)
(* and what that screen's OnEnter, OnExit and OnFrame do, the facade and   *)
(* connection of ibkr_client.cc, and InfoService.                          *)
(*                                                                         *)
(* All of it runs on one thread, in the order pc follows: events, pump,    *)
(* draw.  The socket may fail between any two of these steps, since the    *)
(* reader thread finds out: whatever looked at IsConnected() before may    *)
(* be wrong after.  A service is reduced to what it was asked for; that it *)
(* then keeps to it is the subject of ChartService, QuoteService,          *)
(* NewsService and PortfolioService.                                       *)
(***************************************************************************)
EXTENDS Naturals, Sequences

CONSTANTS
    Symbols,        \* ticker symbols
    Continuous,     \* those opened as continuous futures
    Everything,     \* what general news and the portfolio are about
    Nothing,        \* no symbol, no request
    MaxQueue        \* bound: callbacks wait while so many statuses are queued

ASSUME TerminalAssumption ==
    /\ Continuous \subseteq Symbols
    /\ Everything \notin Symbols /\ Nothing \notin Symbols \union {Everything}
    /\ MaxQueue \in Nat \ {0}

VARIABLES
    pc,             \* where the main loop is
    running,        \* running
    screen,         \* current_screen
    next,           \* the screen about to replace it
    bar_status,     \* bar.status, by its kind; "" is none
    frame_statuses, \* frame_statuses, a local of one iteration
    client,         \* IbkrClient::Impl: its flag, and the socket's own state
    service,        \* what each service was last asked for
    streaming,      \* the news service has loaded what it was asked for
    status_queue,   \* ServiceContext::status_queue
    info,           \* the facts InfoService holds
    tws             \* what TWS was asked for over this socket

loopVars == <<pc, running, next, frame_statuses>>
serviceVars == <<service, streaming, info>>
vars == <<loopVars, screen, bar_status, client, serviceVars, status_queue, tws>>

\* Each of the four services has its screen, of the same name here.
Services == {"News", "Portfolio", "Chart", "Quote"}
Targets == Symbols \union {Everything, Nothing}
Statuses == {"", "error", "connect failed", "not connected", "loaded", "ERR", "closed"}
Facts == {"accounts", "providers", "time"}

\* A Screen as its constructor leaves it: `shows' is what the data on display
\* are of, `due' whether its polling interval has passed.
NewScreen(kind, of) ==
    [kind |-> kind, of |-> of, shows |-> Nothing, loaded |-> FALSE,
     reading |-> FALSE, due |-> FALSE]
Splash == NewScreen("Splash", Nothing)

\* What MakeScreenFor() makes of the command kinds it has a screen for.
Openable ==
    {NewScreen(kind, Nothing) : kind \in {"Body", "Debug"}}
    \union {NewScreen(kind, Everything) : kind \in {"News", "Portfolio"}}
    \union {NewScreen(kind, s) : kind \in {"News", "Chart", "Quote"}, s \in Symbols}

NoService == [k \in Services |-> Nothing]
NoTws == [asked |-> {}, clock |-> FALSE]

\* Every variable has its type, and TWS serves nobody without a socket.
TypeOK ==
    /\ pc \in {"start", "events", "leave", "enter", "pump", "draw", "exit",
               "disconnect", "stopped"}
    /\ running \in BOOLEAN /\ streaming \in BOOLEAN
    /\ {screen, next} \subseteq
         [kind : Services \union {"Splash", "Body", "Debug"}, of : Targets,
          shows : Targets, loaded : BOOLEAN, reading : BOOLEAN, due : BOOLEAN]
    /\ bar_status \in Statuses
    /\ status_queue \in Seq(Statuses) /\ frame_statuses \in Seq(Statuses)
    /\ client \in [connected : BOOLEAN, socket : BOOLEAN]
    /\ service \in [Services -> Targets]
    /\ info \subseteq Facts
    /\ tws \in [asked : SUBSET [kind : Services, of : Targets], clock : BOOLEAN]
    /\ client.socket \/ tws = NoTws

Init ==
    /\ pc = "start" /\ running = TRUE
    /\ screen = Splash /\ next = Splash
    /\ bar_status = "" /\ frame_statuses = <<>> /\ status_queue = <<>>
    /\ client = [connected |-> FALSE, socket |-> FALSE]
    /\ service = NoService /\ streaming = FALSE /\ info = {}
    /\ tws = NoTws

-----------------------------------------------------------------------------
(* The client.  Each facade method returns early unless IsConnected().      *)

IsConnected == client.connected /\ client.socket

\* A Connect() that looks at the socket too.
ReconnectsVariant(ok) ==
    IF IsConnected
    THEN ok /\ UNCHANGED client
    ELSE client' = [connected |-> ok, socket |-> ok]

\* Connect(): TRUE at once while the flag is set, else as eConnect() goes.
Connect(ok) ==
    IF client.connected
    THEN ok /\ UNCHANGED client
    ELSE client' = [connected |-> ok, socket |-> ok]

\* The way its callers call it.
ConnectIfNeeded(ok) == IF IsConnected THEN ok /\ UNCHANGED client ELSE Connect(ok)

\* RequestChart() and the others without their test.
UntestedVariant(kind, of) ==
    /\ service' = [service EXCEPT ![kind] = of]
    /\ streaming' = (streaming /\ kind # "News")
    /\ tws' = [tws EXCEPT !.asked =
                 {r \in @ : r.kind # kind} \union {[kind |-> kind, of |-> of]}]

\* SubscribeNews(), SubscribePortfolio(), RequestChart(), RequestQuote(): the
\* service drops the request it had and sends the new one.
Request(kind, of) ==
    IF IsConnected
    THEN /\ service' = [service EXCEPT ![kind] = of]
         /\ streaming' = (streaming /\ kind # "News")
         /\ tws' = [tws EXCEPT !.asked =
                      {r \in @ : r.kind # kind} \union {[kind |-> kind, of |-> of]}]
    ELSE UNCHANGED <<service, streaming, tws>>

\* CancelNews(), UnsubscribePortfolio(), CancelChart(), CancelQuote().
Cancel(kind) ==
    IF IsConnected
    THEN /\ service' = [service EXCEPT ![kind] = Nothing]
         /\ streaming' = (streaming /\ kind # "News")
         /\ tws' = [tws EXCEPT !.asked = {r \in @ : r.kind # kind}]
    ELSE UNCHANGED <<service, streaming, tws>>

\* The socket fails: the reader thread closes it and calls connectionClosed().
\* The flag `connected' stays, and no service is told.
Close ==
    /\ pc # "stopped" /\ IsConnected
    /\ client' = [client EXCEPT !.socket = FALSE]
    /\ status_queue' = Append(status_queue, "closed")
    /\ tws' = NoTws
    /\ UNCHANGED <<loopVars, screen, bar_status, serviceVars>>

-----------------------------------------------------------------------------
(* Leaving a screen and entering another, in one event handler.             *)

\* OnExit() called on the screen that comes.
ExitsNextVariant ==
    IF next.kind \in Services
    THEN Cancel(next.kind)
    ELSE UNCHANGED <<service, streaming, tws>>

\* OnExit(): only the screens with a service have one.
OnExit ==
    IF screen.kind \in Services
    THEN Cancel(screen.kind)
    ELSE UNCHANGED <<service, streaming, tws>>

Leave ==
    /\ pc = "leave"
    /\ pc' = "enter" /\ screen' = next /\ next' = Splash
    /\ OnExit
    /\ UNCHANGED <<running, frame_statuses, bar_status, client, status_queue, info>>

\* After OnEnter() both handlers clear the bar, with the status OnEnter() may
\* have set; at the start of the program nobody does.
AfterEntering(status) == IF pc = "start" THEN status ELSE ""

\* SplashScreen::OnEnter() asks for the server's time once it has connected.
AskedFirstVariant == IsConnected
AsksTime == client'.connected /\ client'.socket
EnterSplash ==
    /\ screen.kind = "Splash"
    /\ \E ok \in BOOLEAN :
         /\ ConnectIfNeeded(ok)
         /\ bar_status' = AfterEntering(IF ok THEN bar_status ELSE "connect failed")
    /\ tws' = [tws EXCEPT !.clock = @ \/ AsksTime]
    /\ UNCHANGED <<service, streaming>>

\* OnEnter() of the screens with a service; the others have none.
EnterOther ==
    /\ screen.kind # "Splash"
    /\ IF screen.kind \in Services
       THEN Request(screen.kind, screen.of)
       ELSE UNCHANGED <<service, streaming, tws>>
    /\ bar_status' = AfterEntering(bar_status)
    /\ UNCHANGED client

Enter ==
    /\ pc \in {"start", "enter"}
    /\ pc' = "events"
    /\ EnterSplash \/ EnterOther
    /\ UNCHANGED <<running, next, frame_statuses, screen, status_queue, info>>

-----------------------------------------------------------------------------
(* Events.                                                                  *)

Event == pc = "events" /\ running

Install(s) ==
    /\ next' = s /\ pc' = "leave"
    /\ UNCHANGED <<running, frame_statuses, bar_status>>

\* RETURN on a command with a screen.  Screens with a service need TWS.
Open(s) ==
    /\ Event
    /\ \E ok \in BOOLEAN :
         /\ IF s.kind \in Services THEN ConnectIfNeeded(ok) ELSE ok /\ UNCHANGED client
         /\ IF ok
            THEN Install(s)
            ELSE bar_status' = "connect failed" /\ UNCHANGED loopVars
    /\ UNCHANGED <<screen, serviceVars, status_queue, tws>>

\* RETURN on anything else sets a status, and typing clears it.
SetStatus(s) ==
    /\ Event
    /\ bar_status' = s
    /\ UNCHANGED <<loopVars, screen, client, serviceVars, status_queue, tws>>
BadCommand == SetStatus("error")
Type == bar_status # "" /\ SetStatus("")

\* ESCAPE: an open reader closes, any other screen gives way to the splash.
Escape ==
    /\ Event
    /\ IF screen.reading
       THEN /\ screen' = [screen EXCEPT !.reading = FALSE]
            /\ bar_status' = "" /\ UNCHANGED loopVars
       ELSE Install(Splash) /\ UNCHANGED screen
    /\ UNCHANGED <<client, serviceVars, status_queue, tws>>

\* A click on a headline; there are some once something was loaded.
Click ==
    /\ Event
    /\ screen.kind = "News" /\ screen.loaded /\ ~screen.reading
    /\ IF IsConnected
       THEN screen' = [screen EXCEPT !.reading = TRUE] /\ UNCHANGED bar_status
       ELSE bar_status' = "not connected" /\ UNCHANGED screen
    /\ UNCHANGED <<loopVars, client, serviceVars, status_queue, tws>>

\* EXIT, or the window closes: the loop ends after this frame.
Quit ==
    /\ Event
    /\ running' = FALSE
    /\ UNCHANGED <<pc, next, frame_statuses, screen, bar_status, client,
                   serviceVars, status_queue, tws>>

\* Time passes for a screen that polls: the splash (the server's time) and the
\* chart of a continuous future.
Polls(s) == s.kind = "Splash" \/ (s.kind = "Chart" /\ s.of \in Continuous)
Tick ==
    /\ Event
    /\ Polls(screen) /\ ~screen.due
    /\ screen' = [screen EXCEPT !.due = TRUE]
    /\ UNCHANGED <<loopVars, bar_status, client, serviceVars, status_queue, tws>>

-----------------------------------------------------------------------------
(* The frame.                                                               *)

\* The events are handled; while connected, messages are pumped.
BeginFrame ==
    /\ pc = "events"
    /\ pc' = IF IsConnected THEN "pump" ELSE "draw"
    /\ UNCHANGED <<running, next, frame_statuses, screen, bar_status, client,
                   serviceVars, status_queue, tws>>

Callback == pc = "pump" /\ Len(status_queue) < MaxQueue

\* nextValidId: of the services, InfoService asks for the time.
OnReady ==
    /\ Callback
    /\ tws' = [tws EXCEPT !.clock = client.socket]
    /\ UNCHANGED <<loopVars, screen, bar_status, client, serviceVars, status_queue>>

\* managedAccounts, newsProviders, currentTime.
OnInfo(fact) ==
    /\ Callback
    /\ fact = "time" => tws.clock
    /\ info' = info \union {fact}
    /\ tws' = [tws EXCEPT !.clock = @ /\ fact # "time"]
    /\ UNCHANGED <<loopVars, screen, bar_status, client, service, streaming, status_queue>>

\* The news service finishes loading; or TWS reports an error.
OnNewsLoaded ==
    /\ Callback
    /\ service["News"] # Nothing /\ ~streaming
    /\ streaming' = TRUE
    /\ status_queue' = Append(status_queue, "loaded")
    /\ UNCHANGED <<loopVars, screen, bar_status, client, service, info, tws>>
OnError ==
    /\ Callback
    /\ status_queue' = Append(status_queue, "ERR")
    /\ UNCHANGED <<loopVars, screen, bar_status, client, serviceVars, tws>>

\* DrainStatus() swaps the queue for an empty one; the last message to the bar.
NotSwappedVariant == status_queue
Swapped == <<>>
DrainStatus ==
    /\ pc = "pump"
    /\ pc' = "draw"
    /\ frame_statuses' = status_queue
    /\ status_queue' = Swapped
    /\ bar_status' = IF status_queue = <<>> THEN bar_status
                     ELSE status_queue[Len(status_queue)]
    /\ UNCHANGED <<running, next, screen, client, serviceVars, tws>>

\* OnFrame() of each screen: what it then shows.
AfterFrame(s) ==
    CASE s.kind = "Quote" ->        \* also while disconnected
           [s EXCEPT !.shows = service["Quote"]]
      [] s.kind \in {"Chart", "Portfolio"} /\ IsConnected ->
           [s EXCEPT !.shows = service[s.kind], !.due = FALSE]
      [] s.kind = "News" /\ IsConnected ->
           [s EXCEPT !.loaded = @ \/ \E i \in DOMAIN frame_statuses :
                                       frame_statuses[i] = "loaded"]
      [] s.kind = "Splash" /\ IsConnected -> [s EXCEPT !.due = FALSE]
      [] OTHER -> s

Draw ==
    /\ pc = "draw"
    /\ pc' = IF running THEN "events" ELSE "exit"
    /\ screen' = AfterFrame(screen)
    /\ tws' = [tws EXCEPT !.clock =
                 @ \/ (screen.kind = "Splash" /\ screen.due /\ IsConnected)]
    /\ frame_statuses' = <<>>
    /\ UNCHANGED <<running, next, bar_status, client, serviceVars, status_queue>>

-----------------------------------------------------------------------------
(* The end.                                                                 *)

Exit ==
    /\ pc = "exit"
    /\ pc' = "disconnect"
    /\ OnExit
    /\ UNCHANGED <<running, next, frame_statuses, screen, bar_status, client,
                   info, status_queue>>

\* IbkrClient::Disconnect() with OnDisconnect(): nothing without the flag.
InfoKeptVariant == service' = NoService /\ streaming' = FALSE /\ UNCHANGED info
ResetServices == service' = NoService /\ streaming' = FALSE /\ info' = {}
Disconnect ==
    /\ pc = "disconnect"
    /\ pc' = "stopped"
    /\ IF client.connected
       THEN /\ client' = [connected |-> FALSE, socket |-> FALSE]
            /\ tws' = NoTws
            /\ ResetServices
       ELSE UNCHANGED <<client, tws, serviceVars>>
    /\ UNCHANGED <<running, next, frame_statuses, screen, bar_status, status_queue>>

Stopped == pc = "stopped" /\ UNCHANGED vars

Next ==
    \/ Enter \/ Leave
    \/ \E s \in Openable : Open(s)
    \/ BadCommand \/ Type \/ Escape \/ Click \/ Quit \/ Tick
    \/ BeginFrame
    \/ OnReady \/ \E fact \in Facts : OnInfo(fact)
    \/ OnNewsLoaded \/ OnError
    \/ DrainStatus \/ Draw
    \/ Exit \/ Disconnect \/ Stopped
    \/ Close

Spec == Init /\ [][Next]_vars

\* Fairness: the thread goes on, and an event loop that polls runs out of events
\* again and again; TWS answers, and Pump() delivers it in some frame.
MainSteps == Enter \/ Leave \/ DrainStatus \/ Draw \/ Exit \/ Disconnect
FairSpec ==
    /\ Spec
    /\ WF_vars(MainSteps) /\ SF_vars(BeginFrame) /\ SF_vars(OnInfo("time"))

-----------------------------------------------------------------------------
(* Properties. *)

\* Between two event handlers TWS serves what the screen on display asked for
\* and nothing else, wherever the socket failed in the handlers before: OnExit
\* of the old screen and OnEnter of the new one each tested the connection.
ScreenIsServed ==
    pc \in {"events", "pump", "draw", "leave"} =>
      tws.asked = IF IsConnected /\ screen.kind \in Services
                  THEN {[kind |-> screen.kind, of |-> screen.of]}
                  ELSE {}

\* While connected a screen shows data of its own symbol only, and a news
\* screen that says its feed is loaded has seen the message of its own session:
\* frame_statuses never hands it the one of the session before.
ShowsItsOwn ==
    /\ IsConnected => screen.shows \in {Nothing, screen.of}
    /\ screen.loaded /\ pc \notin {"disconnect", "stopped"} =>
         streaming /\ service["News"] = screen.of

\* Outside the pumping no message waits: each is drained in the frame in which
\* it came, but for the one about the failure of the socket.
NoStatusWaits ==
    status_queue # <<>> =>
      pc = "pump" \/ (status_queue = <<"closed">> /\ ~client.socket)

\* Quitting ends the program, with every request cancelled or gone and every
\* service reset, whatever the state of the connection.
QuitEnds ==
    ~running ~> pc = "stopped" /\ service = NoService /\ tws = NoTws /\ info = {}

\* A splash screen that stays gets the server's time, as long as the socket lasts.
ServerTimeComes ==
    screen.kind = "Splash" /\ IsConnected
      ~> "time" \in info \/ ~IsConnected \/ screen.kind # "Splash" \/ ~running

\* docs/commands.md:177, "subsequent commands re-establish the connection": a
\* command that opens a screen with a service finds or makes a live connection.
CommandsReconnect ==
    [][pc = "events" /\ pc' = "leave" /\ next'.kind \in Services => client'.socket]_vars

\* docs/screens.md:131, "a connect failure surfaces on the function-bar status
\* line": entering the splash screen without a connection leaves that status.
ConnectFailureSurfaces ==
    [][Enter /\ screen.kind = "Splash"
         => client'.connected \/ bar_status' = "connect failed"]_vars

=============================================================================
