---------------------------- MODULE DisplayStatus ----------------------------
(***************************************************************************)
(* suspend.c: the subscription to the display manager's status, by which    *)
(* sleepd knows whether the display is on.                                  *)
(*                                                                          *)
(* The bus is external.  Two streams reach the main loop and are not        *)
(* ordered with each other: the hub's announcements that the display        *)
(* manager has come or gone, and the replies to our own calls, the error    *)
(* that ends them included.  Each stream keeps its order; what a display    *)
(* manager that has gone left behind is read before the next one's replies. *)
(***************************************************************************)
EXTENDS Naturals, Sequences

VARIABLES
    screen,      \* the display is lit
    up,          \* com.palm.display is on the bus
    hub,         \* announcements not yet delivered, TRUE for up
    inbox,       \* replies not yet delivered
    asked,       \* a subscribe call is on its way to the display manager
    subscribed,  \* the display manager sends us its notifications
    token,       \* sDisplayStatusToken is valid
    displayOn    \* gDisplayIsOn

displayVars == <<screen, up, hub, inbox, asked, subscribed, token, displayOn>>

\* The types of the subscription and of the two streams.
DisplayTypeOK ==
    /\ {screen, up, asked, subscribed, token, displayOn} \subseteq BOOLEAN
    /\ hub \in Seq(BOOLEAN)
    /\ inbox \in Seq({"on", "off", "error"})

DisplayInit ==
    /\ screen \in BOOLEAN
    /\ up \in BOOLEAN
    /\ hub = <<up>>
    /\ inbox = <<>>
    /\ asked = FALSE /\ subscribed = FALSE /\ token = FALSE
    /\ displayOn = TRUE

State(lit) == IF lit THEN "on" ELSE "off"

-----------------------------------------------------------------------------
(* The display manager and the hub.                                         *)

ServerStarts ==
    /\ ~up
    /\ up' = TRUE
    /\ hub' = Append(hub, TRUE)
    /\ UNCHANGED <<screen, inbox, asked, subscribed, token, displayOn>>

ServerStops ==
    /\ up
    /\ up' = FALSE
    /\ hub' = Append(hub, FALSE)
    /\ inbox' = IF subscribed THEN Append(inbox, "error") ELSE inbox
    /\ subscribed' = FALSE
    /\ UNCHANGED <<screen, asked, token, displayOn>>

ScreenSwitches ==
    /\ up
    /\ screen' = ~screen
    /\ inbox' = IF subscribed THEN Append(inbox, State(screen')) ELSE inbox
    /\ UNCHANGED <<up, hub, asked, subscribed, token, displayOn>>

\* The reply to the subscribe call carries the state; without a display manager the
\* hub answers with an error.
ServerReplies ==
    /\ asked
    /\ asked' = FALSE
    /\ subscribed' = up
    /\ inbox' = Append(inbox, IF up THEN State(screen) ELSE "error")
    /\ UNCHANGED <<screen, up, hub, token, displayOn>>

-----------------------------------------------------------------------------
(* The callbacks, on the main thread.                                       *)

\* Mutant: an ended subscription leaves the last state in place.
DisplayStatusCbKeepsState ==
    /\ inbox # <<>>
    /\ inbox' = Tail(inbox)
    /\ displayOn' = IF Head(inbox) = "error" THEN displayOn ELSE Head(inbox) = "on"
    /\ token' = (token /\ Head(inbox) # "error")
    /\ UNCHANGED <<screen, up, hub, asked, subscribed>>

\* A reply sets the state.  An error ends the subscription and leaves the display on.
DisplayStatusCb ==
    /\ inbox # <<>>
    /\ inbox' = Tail(inbox)
    /\ displayOn' = (Head(inbox) # "off")
    /\ token' = (token /\ Head(inbox) # "error")
    /\ UNCHANGED <<screen, up, hub, asked, subscribed>>

\* DisplayStatusSubscribe: a call still valid is cancelled, and with it what it has not
\* delivered yet; then the new call is made, or refused by the bus.
DisplayStatusSubscribe(accepted) ==
    /\ inbox' = IF token THEN <<>> ELSE inbox
    /\ asked' = (accepted \/ (asked /\ ~token))
    /\ subscribed' = (subscribed /\ ~token)
    /\ token' = accepted
    /\ displayOn' = (displayOn \/ ~accepted)

DisplayServerStatusCb(accepted) ==
    /\ hub # <<>>
    /\ hub' = Tail(hub)
    /\ IF Head(hub)
       THEN DisplayStatusSubscribe(accepted)
       ELSE /\ token' = FALSE
            /\ displayOn' = TRUE
            /\ UNCHANGED <<inbox, asked, subscribed>>
    /\ UNCHANGED <<screen, up>>

-----------------------------------------------------------------------------
\* Nothing on the display is under way.
Settled == hub = <<>> /\ inbox = <<>> /\ ~asked

\* However starts, stops and replies interleave, once they have all been delivered the
\* display is believed off only on the word of a display manager that still sends us
\* its notifications, and only rightly; and with a subscription it is not believed on
\* wrongly either.
DisplayBelieved ==
    Settled => /\ ~displayOn => subscribed /\ ~screen
               /\ token => displayOn = (subscribed => screen)

=============================================================================
