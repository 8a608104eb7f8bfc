--------------------------------- MODULE Hud --------------------------------
(***************************************************************************)
(* The one progress HUD of the app: JGProgressHUD, as LKProgressHUD calls  *)
(* it, always on the main thread.  While it is up it takes all touches.    *)
(*                                                                         *)
(* Showing and hiding are animated; what is asked for in the meantime is   *)
(* ignored (show) or put off (dismiss).  A notice is taken away by a timer *)
(* that nothing cancels, so that timers outlive their notices.  Durations  *)
(* are not modelled: an animation or a timer may end at any time.          *)
(***************************************************************************)
EXTENDS Naturals

CONSTANT MaxTimers   \* bound on the timers that run

ASSUME HudAssumption == MaxTimers \in Nat

VARIABLES
    targetView,     \* the HUD is in the view it was shown in
    animation,      \* the one that runs: _transitioning, and which way
    dismissAfter,   \* _dismissAfterTransitionFinished, and how
    timers          \* dismissals after a delay that are to come

hud == <<targetView, animation, dismissAfter, timers>>

HudTypeOK ==
    /\ targetView \in BOOLEAN
    /\ animation \in {"none", "show", "hide"}
    /\ dismissAfter \in {"no", "plain", "animated"}
    /\ timers \in 0..MaxTimers

HudInit ==
    /\ targetView = FALSE
    /\ animation = "none"
    /\ dismissAfter = "no"
    /\ timers = 0

\* The pages can be touched: no HUD, or one that comes or goes.
Touchable == ~targetView \/ animation # "none"

-----------------------------------------------------------------------------
(* JGProgressHUD.                                                          *)

\* A HUD that comes or goes, or is there, is not shown again.
ShowInView ==
    /\ UNCHANGED dismissAfter
    /\ IF animation # "none" \/ targetView
       THEN UNCHANGED <<targetView, animation>>
       ELSE targetView' = TRUE /\ animation' = "show"

CleanUpAfterDismissal ==
    /\ targetView' = FALSE
    /\ animation' = "none"
    /\ dismissAfter' = "no"

DismissAnimatedAtOnce(how) ==   \* mutant: nothing is put off
    IF animation # "none" \/ ~targetView
    THEN UNCHANGED <<targetView, animation, dismissAfter>>
    ELSE IF how = "plain" THEN CleanUpAfterDismissal
    ELSE animation' = "hide" /\ UNCHANGED <<targetView, dismissAfter>>

DismissAnimated(how) ==
    IF animation # "none"
    THEN dismissAfter' = how /\ UNCHANGED <<targetView, animation>>
    ELSE IF ~targetView THEN UNCHANGED <<targetView, animation, dismissAfter>>
    ELSE IF how = "plain" THEN CleanUpAfterDismissal
    ELSE animation' = "hide" /\ UNCHANGED <<targetView, dismissAfter>>

\* The HUD has come; a dismissal that was put off is made up for.
CleanUpAfterPresentation ==
    /\ animation' = IF dismissAfter = "animated" THEN "hide" ELSE "none"
    /\ targetView' = (targetView /\ dismissAfter # "plain")
    /\ dismissAfter' = "no"

AnimationDidFinish ==
    /\ \/ animation = "show" /\ CleanUpAfterPresentation
       \/ animation = "hide" /\ CleanUpAfterDismissal
    /\ UNCHANGED timers

TimerFiresTwice ==          \* mutant: a timer that repeats is counted off again
    /\ timers' = timers - 1
    /\ IF targetView THEN DismissAnimated("animated")
       ELSE UNCHANGED <<targetView, animation, dismissAfter>>

\* dismissAfterDelay: whatever is visible by then goes.
TimerFires ==
    /\ timers > 0
    /\ timers' = timers - 1
    /\ IF targetView THEN DismissAnimated("animated")
       ELSE UNCHANGED <<targetView, animation, dismissAfter>>

-----------------------------------------------------------------------------
(* LKProgressHUD.                                                          *)

\* show: "Loading", until somebody dismisses it.
Show == ShowInView /\ UNCHANGED timers

\* showSuccess, showFailure.
ShowNotice ==
    /\ timers < MaxTimers
    /\ ShowInView
    /\ timers' = timers + 1

Dismiss == DismissAnimated("plain") /\ UNCHANGED timers
=============================================================================
