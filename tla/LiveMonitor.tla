---------------------------- MODULE LiveMonitor ----------------------------
(***************************************************************************)
(* The loop of `scope monitor` (crates/scope-cli/src/cli/monitor/input.rs; *)
(* state.rs, the refresh interval and the pauses): a key or a timer wakes  *)
(* it, and a refresh asks for the price, then for the venue's order book   *)
(* and trades, one request after the other, before the next frame.         *)
(*                                                                         *)
(* Time is counted in ticks, and the age of the last price and of the last *)
(* key only as far as they are compared.  Left out: candles and holders,   *)
(* whose failed requests show nothing, alerts, the CSV export, the cache   *)
(* in the temporary directory, and what only changes the drawing.          *)
(***************************************************************************)
EXTENDS Naturals

CONSTANTS
    StartRates,                     \* refresh intervals that the settings may ask for
    MinRate, MaxRate, RateStep,     \* the range of + and -, and their step
    AutoPause,                      \* auto_pause_timeout
    MaxAge,                         \* bound of the model: ages beyond it count as it
    MaxKeys                         \* bound of the model: keys pressed

ASSUME RateAssumption ==
    /\ MaxAge \in Nat /\ StartRates \subseteq 0..MaxAge
    /\ MinRate \in Nat /\ MaxRate \in 0..MaxAge /\ MinRate <= MaxRate
    /\ RateStep \in Nat /\ AutoPause \in 0..MaxAge /\ MaxKeys \in Nat

VARIABLES
    wanted,     \* what a refresh asks for: "price", and what the venue has of "book", "trades"
    at,         \* "wait" at the select, or the request under way, or "ended"
    rate,       \* refresh_rate
    paused, autoPause,
    overlay,    \* "keys": show_keys; "widgets": widget_toggle_mode
    priceAge,   \* ticks since last_update
    inputAge,   \* ticks since last_input_at
    error,      \* error_message is set
    fresh,      \* history: what is shown of `wanted` is of the last refresh
    asked,      \* history: r was pressed since the last price request ended
    restAge,    \* history: ticks since then
    pressed     \* keys pressed

settings == <<rate, paused, autoPause, overlay>>
liveVars == <<wanted, at, settings, priceAge, inputAge, error, fresh, asked, restAge, pressed>>

Least(m, n) == IF m < n THEN m ELSE n
Most(m, n)  == IF m > n THEN m ELSE n

LiveInit ==
    /\ wanted \in {{"price"} \union venue : venue \in SUBSET {"book", "trades"}}
    /\ at = "wait"
    /\ rate \in StartRates
    /\ paused = FALSE /\ autoPause \in BOOLEAN /\ overlay = {}
    /\ priceAge = 0 /\ inputAge = 0
    /\ error = FALSE
    /\ fresh = wanted           \* nothing of the venue's is shown yet
    /\ asked = FALSE /\ restAge = 0
    /\ pressed = 0

-----------------------------------------------------------------------------
(* Variant: auto-pause holds as long as it is on.                          *)
StaysPaused == autoPause

IsAutoPaused == autoPause /\ inputAge < AutoPause       \* is_auto_paused

ShouldRefresh == ~paused /\ ~IsAutoPaused /\ priceAge >= rate

TimePasses ==
    /\ at # "ended"
    /\ priceAge' = Least(priceAge + 1, MaxAge)
    /\ inputAge' = Least(inputAge + 1, MaxAge)
    /\ restAge' = Least(restAge + 1, MaxAge)
    /\ UNCHANGED <<wanted, at, settings, error, fresh, asked, pressed>>

(* The loop goes on after its wait: a refresh begins, if one is due.       *)
LoopOn ==
    IF ShouldRefresh' THEN at' = "price" /\ fresh' = {}
                      ELSE at' = "wait" /\ UNCHANGED fresh

(* The sleep ends, or an event comes that is no key.                       *)
Wake ==
    /\ at = "wait" /\ ShouldRefresh
    /\ UNCHANGED <<wanted, settings, priceAge, inputAge, error, asked, restAge, pressed>>
    /\ LoopOn

-----------------------------------------------------------------------------
(* Every key counts as input, also one that only closes an overlay.        *)
Pressed ==
    /\ at = "wait" /\ pressed < MaxKeys
    /\ pressed' = pressed + 1
    /\ inputAge' = 0
    /\ UNCHANGED <<wanted, error, restAge>>

(* A key that is not taken by an overlay, and ends the widget mode.        *)
Acts == Pressed /\ "keys" \notin overlay /\ overlay' = {}

(* The list of keys takes any key, the widget mode a digit; `?` opens the  *)
(* list, in the widget mode too; `w` begins it.                            *)
OverlayKey ==
    /\ Pressed
    /\ \/ "keys" \in overlay /\ overlay' = overlay \ {"keys"}
       \/ "keys" \notin overlay /\ overlay' = overlay \union {"keys"}
       \/ "keys" \notin overlay /\ overlay' \in {{}, {"widgets"}}
    /\ UNCHANGED <<rate, paused, autoPause, priceAge, asked>>
    /\ LoopOn

(* q, Esc and Ctrl-C.                                                      *)
Quit ==
    /\ Acts /\ at' = "ended"
    /\ UNCHANGED <<rate, paused, autoPause, priceAge, fresh, asked>>

(* `r`: force_refresh; auto-pause may still hold it back.                  *)
ForceRefresh ==
    /\ Acts
    /\ paused' = FALSE /\ priceAge' = rate /\ asked' = TRUE
    /\ UNCHANGED <<rate, autoPause>>
    /\ LoopOn

ToggleAutoPause ==
    /\ Acts /\ autoPause' = ~autoPause
    /\ UNCHANGED <<rate, paused, priceAge, asked>>
    /\ LoopOn

TogglePause ==
    /\ Acts /\ paused' = ~paused
    /\ UNCHANGED <<rate, autoPause, priceAge, asked>>
    /\ LoopOn

(* slower_refresh and faster_refresh; the settings' own interval may lie   *)
(* outside their range, and comes into it.                                 *)
ChangeRate ==
    /\ Acts
    /\ rate' \in {Least(rate + RateStep, MaxRate),
                  Most(IF rate > RateStep THEN rate - RateStep ELSE 0, MinRate)}
    /\ UNCHANGED <<paused, autoPause, priceAge, asked>>
    /\ LoopOn

-----------------------------------------------------------------------------
(* The request after that for p, or the next frame.                        *)
Following(p) ==
    IF p = "price" /\ "book" \in wanted THEN "book"
    ELSE IF p # "trades" /\ "trades" \in wanted THEN "trades" ELSE "wait"

(* Variant: a price request that failed is no update.                      *)
PriceFailsSilently ==
    /\ at = "price" /\ at' = Following("price")
    /\ error' = TRUE
    /\ restAge' = 0 /\ asked' = FALSE
    /\ UNCHANGED <<wanted, settings, priceAge, inputAge, fresh, pressed>>

(* `update`.                                                               *)
PriceGiven ==
    /\ at = "price" /\ at' = Following("price")
    /\ priceAge' = 0 /\ error' = FALSE /\ fresh' = fresh \union {"price"}
    /\ restAge' = 0 /\ asked' = FALSE
    /\ UNCHANGED <<wanted, settings, inputAge, pressed>>

(* The error is shown, and counts as an update.                            *)
PriceFails ==
    /\ at = "price" /\ at' = Following("price")
    /\ priceAge' = 0 /\ error' = TRUE
    /\ restAge' = 0 /\ asked' = FALSE
    /\ UNCHANGED <<wanted, settings, inputAge, fresh, pressed>>

(* Variant: a venue that answers clears the error.                         *)
VenueGivenClears(p) ==
    /\ at = p /\ at' = Following(p)
    /\ fresh' = fresh \union {p} /\ error' = FALSE
    /\ UNCHANGED <<wanted, settings, priceAge, inputAge, asked, restAge, pressed>>

(* set_venue_book and set_venue_trades.                                    *)
VenueGiven(p) ==
    /\ at = p /\ at' = Following(p)
    /\ fresh' = fresh \union {p}
    /\ UNCHANGED <<wanted, settings, priceAge, inputAge, error, asked, restAge, pressed>>

(* The last data stay, and the error is shown, over an earlier one.        *)
VenueFails(p) ==
    /\ at = p /\ at' = Following(p)
    /\ error' = TRUE
    /\ UNCHANGED <<wanted, settings, priceAge, inputAge, fresh, asked, restAge, pressed>>

Answered ==
    \/ PriceGiven \/ PriceFails
    \/ \E p \in {"book", "trades"} : VenueGiven(p) \/ VenueFails(p)

KeyStep ==
    \/ OverlayKey \/ Quit \/ ForceRefresh
    \/ ToggleAutoPause \/ TogglePause \/ ChangeRate

LiveNext == TimePasses \/ Wake \/ KeyStep \/ Answered

(* Time passes, the loop runs on, and every request ends: the HTTP client  *)
(* gives it 30 seconds.                                                    *)
LiveFairness == WF_liveVars(TimePasses) /\ WF_liveVars(Wake) /\ WF_liveVars(Answered)

LiveSpec == LiveInit /\ [][LiveNext]_liveVars /\ LiveFairness

-----------------------------------------------------------------------------
(* Every variable has a value the code can give it.                        *)
LiveTypeOK ==
    /\ wanted \subseteq {"price", "book", "trades"}
    /\ at \in {"wait", "ended"} \union wanted
    /\ rate \in 0..MaxAge
    /\ paused \in BOOLEAN /\ autoPause \in BOOLEAN
    /\ overlay \subseteq {"keys", "widgets"}
    /\ priceAge \in 0..MaxAge /\ inputAge \in 0..MaxAge /\ restAge \in 0..MaxAge
    /\ error \in BOOLEAN /\ asked \in BOOLEAN
    /\ fresh \subseteq wanted
    /\ pressed \in 0..MaxKeys

(* Between refreshes an error is shown exactly when the price, the book or *)
(* the trades are older than the last refresh: no answer of a later        *)
(* request hides that an earlier one failed, and the error goes with the   *)
(* first whole refresh.                                                    *)
ErrorIsNews == at = "wait" => (error <=> fresh # wanted)

TooSoon == at = "wait" /\ at' = "price" /\ ~asked' /\ restAge < rate'

(* Unless r was pressed, a refresh begins no sooner than the interval      *)
(* after the last price request ended, well or not.                        *)
NoRapidRetry == [][~TooSoon]_liveVars

(* A monitor that is not paused refreshes again and again, once its user   *)
(* leaves the keys alone: auto-pause and failed requests hold it up, but   *)
(* not for good.                                                           *)
RefreshesAgain == <>[](~paused /\ at # "ended") => []<>(at = "price")
=============================================================================
