------------------------------- MODULE Button -------------------------------
(***************************************************************************)
(* The push button (button.cpp): debouncing and the hold threshold.        *)
(*                                                                         *)
(* A time stamp is kept as the time passed since, which stops counting at  *)
(* the threshold it is compared with: the code subtracts unsigned stamps.  *)
(***************************************************************************)
EXTENDS Integers

CONSTANTS
    DebounceMs,
    HoldThresholdMs

ASSUME ThresholdsAssumption ==
    DebounceMs \in Nat \ {0} /\ HoldThresholdMs \in Nat \ {0}

VARIABLES
    rawDown,      \* _rawDown, the last reading
    stableDown,   \* _stableDown
    pressed,      \* _pressed
    held,         \* _held
    justHeld,     \* _justHeld, for one pass
    shortPress,   \* _shortPress, for one pass
    release,      \* _release, for one pass
    sinceChange,  \* millis() - _lastChangeMs
    sincePress,   \* millis() - _pressStartMs
    steady,       \* history: how long the readings have been the same
    lasted,       \* history: how long ago the last press was accepted
    reports       \* history: gestures reported since then

witnessVars == <<steady, lasted, reports>>
buttonVars == <<rawDown, stableDown, pressed, held, justHeld, shortPress, release,
                sinceChange, sincePress, witnessVars>>

\* begin(): a button that is down already has not been pressed.
ButtonInit ==
    /\ rawDown \in BOOLEAN /\ stableDown = rawDown
    /\ pressed = FALSE /\ held = FALSE
    /\ justHeld = FALSE /\ shortPress = FALSE /\ release = FALSE
    /\ sinceChange = 0 /\ sincePress = HoldThresholdMs
    /\ steady = 0 /\ lasted = HoldThresholdMs /\ reports = 0

Older(age, ms, limit) == IF age + ms < limit THEN age + ms ELSE limit

\* The reading has been the same for long enough, and is not the accepted one.
Settles(reading) == reading # stableDown /\ sinceChange' >= DebounceMs

\* Mutant: the stability window is not restarted on a raw edge.
ButtonLoopBounces(reading, ms) ==
    /\ rawDown' = reading
    /\ sinceChange' = Older(sinceChange, ms, DebounceMs)
    /\ stableDown' = IF Settles(reading) THEN reading ELSE stableDown
    /\ pressed' = IF Settles(reading) THEN reading ELSE pressed
    /\ release' = (Settles(reading) /\ ~reading)
    /\ shortPress' = (release' /\ pressed /\ ~held)
    /\ sincePress' = IF Settles(reading) /\ reading THEN 0
                     ELSE Older(sincePress, ms, HoldThresholdMs)
    /\ justHeld' = (pressed' /\ stableDown' /\ ~(held /\ ~Settles(reading))
                    /\ sincePress' >= HoldThresholdMs)
    /\ held' = (justHeld' \/ (held /\ ~Settles(reading)))

\* Button::loop, ms after the last one: an edge that settled, then the threshold.
ButtonLoop(reading, ms) ==
    /\ rawDown' = reading
    /\ sinceChange' = IF reading # rawDown THEN 0 ELSE Older(sinceChange, ms, DebounceMs)
    /\ stableDown' = IF Settles(reading) THEN reading ELSE stableDown
    /\ pressed' = IF Settles(reading) THEN reading ELSE pressed
    /\ release' = (Settles(reading) /\ ~reading)
    /\ shortPress' = (release' /\ pressed /\ ~held)
    /\ sincePress' = IF Settles(reading) /\ reading THEN 0
                     ELSE Older(sincePress, ms, HoldThresholdMs)
    /\ justHeld' = (pressed' /\ stableDown' /\ ~(held /\ ~Settles(reading))
                    /\ sincePress' >= HoldThresholdMs)
    /\ held' = (justHeld' \/ (held /\ ~Settles(reading)))

\* What a witness beside the button writes down of a pass.
Told == (IF justHeld THEN 1 ELSE 0) + (IF shortPress THEN 1 ELSE 0)
Begins == pressed' /\ ~pressed
Witness(reading, ms) ==
    /\ steady' = IF reading # rawDown THEN 0 ELSE Older(steady, ms, DebounceMs)
    /\ lasted' = IF Begins THEN 0 ELSE Older(lasted, ms, HoldThresholdMs)
    /\ reports' = (IF Begins THEN 0 ELSE reports) + Told'

\* What the rest of loop() sees of it.
Seen == IF ~pressed THEN "up" ELSE IF held THEN "held" ELSE "down"

ButtonTypeOK ==
    /\ {rawDown, stableDown, pressed, held, justHeld, shortPress, release} \subseteq BOOLEAN
    /\ sinceChange \in 0..DebounceMs /\ sincePress \in 0..HoldThresholdMs
    /\ steady \in 0..DebounceMs /\ lasted \in 0..HoldThresholdMs /\ reports \in 0..1

\* An edge is accepted when the contact has been steady, and then always.
EdgesAreSteady ==
    /\ stableDown' # stableDown => steady' >= DebounceMs
    /\ steady' >= DebounceMs => stableDown' = rawDown'

\* A press lasts from an accepted edge down to the next one up, which is a release.
PressIsBetweenEdges ==
    /\ Begins <=> stableDown' /\ ~stableDown
    /\ release' <=> stableDown /\ ~stableDown'
    /\ pressed /\ ~pressed' => release'
    /\ release' => ~pressed'

\* While it lasts it is reported as a hold from the threshold on and not before; when
\* it ends it has been reported, once; and nothing is reported without a press.
PressIsReported ==
    /\ pressed' => reports' = IF lasted' >= HoldThresholdMs THEN 1 ELSE 0
    /\ pressed /\ ~pressed' => reports' = 1
    /\ Told' > 0 => pressed /\ reports = 0
    /\ <<Seen, Seen'>> \in {<<"up", "up">>, <<"up", "down">>, <<"down", "down">>,
                            <<"down", "held">>, <<"held", "held">>,
                            <<"down", "up">>, <<"held", "up">>}
    /\ justHeld' => Seen' = "held"
    /\ shortPress' => Seen' = "up"

GestureStep == EdgesAreSteady /\ PressIsBetweenEdges /\ PressIsReported

\* A press is one gesture: it begins and ends with an edge of a contact that has been
\* steady, is reported once, as a hold as soon as it lasts or else as a short press
\* when it ends, and a bounce is neither a press nor a release (button.cpp:37-74).  The
\* main loop's model takes a button with these edges.
PressIsOneGesture == [][GestureStep]_buttonVars
=============================================================================
