------------------------------- MODULE LiveFeed -------------------------------
(***************************************************************************)
(* What ChartService and QuoteService each promise to the screen above     *)
(* them, without saying how: at any time one instrument (or none) is the   *)
(* target, the data a snapshot may hold come from that instrument only,    *)
(* and TWS is serving at most one request on its behalf.  Changing the     *)
(* target empties the display and drops the old request in the same step.  *)
(***************************************************************************)
CONSTANTS Instruments, NoInstrument, Requests

VARIABLES
    target,     \* the instrument the screen asked for
    shown,      \* the instruments the held data come from
    live        \* the requests TWS is serving

vars == <<target, shown, live>>

Init == target = NoInstrument /\ shown = {} /\ live = {}

\* The one request kept alive is dropped or replaced by a new one.
Replace == live' = {} \/ \E r \in Requests \ live : live' = {r}

\* A new target: nothing of the old one is left to show.
Ask(c) == target' = c /\ shown' = {} /\ Replace

\* The same target is asked for again; what is shown stays on display.
Renew == target # NoInstrument /\ Replace /\ UNCHANGED <<target, shown>>

\* Data of the target arrive, or a finished or failed request stops being served.
Deliver ==
    /\ target # NoInstrument
    /\ shown' \subseteq {target}
    /\ live' \subseteq live
    /\ UNCHANGED target

Drop == target' = NoInstrument /\ shown' = {} /\ live' = {}

Next ==
    \/ \E c \in Instruments : Ask(c)
    \/ Renew
    \/ Deliver
    \/ Drop

Spec == Init /\ [][Next]_vars

=============================================================================
