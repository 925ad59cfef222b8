---------------------------- MODULE CommandSession ----------------------------
(***************************************************************************)
(* The volatile button session that the repository patches into the Panda  *)
(* firmware (patches/opendbc-command-session*.patch, with the button rules *)
(* of patches/opendbc-hyundai-canfd-split-arm.patch).  While a profile is  *)
(* installed the firmware records the driver's LDA and SET presses as      *)
(* channel intent in every safety mode, keeps it across NO_OUTPUT, ELM327  *)
(* and HYUNDAI_CANFD, and grants controls only in the last one.            *)
(*                                                                         *)
(* Abstractions.  The checked CAN messages are the elements of Messages;   *)
(* each is unseen, fresh (valid and at most 100 ms old), stale, or lagging *)
(* (past the tick's threshold).  Counters and checksums are folded into    *)
(* whether a received message is valid.  Outside a session (profile        *)
(* "none") the stock rules apply, which are not part of this module.       *)
(* Mutant... definitions are wrong variants that show a property can fail. *)
(***************************************************************************)
EXTENDS Integers

CONSTANTS
    Messages,       \* checked messages; "buttons" and "tcs" (brake) are among them
    Profiles,       \* session parameters: with longitudinal, or lateral only
    LongProfiles    \* those that carry the longitudinal flag

ASSUME MessagesAssumption == {"buttons", "tcs"} \subseteq Messages
ASSUME ProfilesAssumption == LongProfiles \subseteq Profiles /\ "none" \notin Profiles

Modes == {"silent", "no_output", "elm327", "hyundai_canfd"}
SessionModes == Modes \ {"silent"}
CruiseButtons == {"none", "set", "cancel"}
Status == {"unseen", "fresh", "stale", "lagging"}

Firmware ==
    [mode : Modes, profile : Profiles \cup {"none"}, blocked : BOOLEAN,
     lateral : BOOLEAN, longitudinal : BOOLEAN,
     lda_prev : BOOLEAN, cruise_prev : CruiseButtons,
     button_seen : BOOLEAN, ignore_set_release : BOOLEAN,
     controls_allowed : BOOLEAN, rx_checks_invalid : BOOLEAN,
     rx : [Messages -> Status], grace : BOOLEAN]

VARIABLES
    fw,        \* the session's static variables and the safety core's that they touch
    lda,       \* the LDA button of the steering wheel is down
    cruise,    \* the cruise button of the steering wheel that is down
    pressed,   \* history: LDA or SET was pressed since the profile was installed
    released   \* history: a button message showed SET released after the last brake message

vars == <<fw, lda, cruise, pressed, released>>

TypeOK ==
    /\ fw \in Firmware
    /\ lda \in BOOLEAN
    /\ cruise \in CruiseButtons
    /\ pressed \in BOOLEAN
    /\ released \in BOOLEAN

-----------------------------------------------------------------------------
(* ioniq5_command_session.h *)

InSession(f) == f.profile # "none"

Abort(f) ==
    IF InSession(f)
    THEN [f EXCEPT !.blocked = TRUE, !.lateral = FALSE, !.longitudinal = FALSE,
                   !.controls_allowed = FALSE]
    ELSE f

Ready(f) ==
    /\ InSession(f) /\ ~f.blocked /\ ~f.rx_checks_invalid
    /\ \A m \in Messages : f.rx[m] = "fresh"

Cleared(f) ==
    [f EXCEPT !.blocked = FALSE, !.lateral = FALSE, !.longitudinal = FALSE,
              !.lda_prev = FALSE, !.cruise_prev = "none",
              !.button_seen = FALSE, !.ignore_set_release = FALSE]

MutantPrepare(f, profile) ==
    LET kept == IF profile # f.profile \/ profile = "none" THEN Cleared(f)
                ELSE [f EXCEPT !.blocked = FALSE]
    IN  [kept EXCEPT !.profile = profile]

\* A new profile, or none, starts from nothing; the same one keeps the intent unless CAN is bad.
Prepare(f, profile) ==
    LET kept == IF profile # f.profile \/ profile = "none" THEN Cleared(f)
                ELSE IF f.rx_checks_invalid THEN Abort(f) ELSE f
    IN  [kept EXCEPT !.profile = profile]

MutantEnforce(f, valid) ==
    IF ~InSession(f) THEN f
    ELSE LET g == IF ~valid \/ f.rx_checks_invalid THEN Abort(f) ELSE f
         IN  [g EXCEPT !.controls_allowed = Ready(g) /\ (g.lateral \/ g.longitudinal)]

\* Every message or tick re-derives permission from intent, mode and readiness; a blocked
\* session loses whatever intent the message has just recorded.
Enforce(f, valid) ==
    IF ~InSession(f) THEN f
    ELSE LET g == IF ~valid \/ f.rx_checks_invalid THEN Abort(f) ELSE f
             h == [g EXCEPT !.lateral = @ /\ ~g.blocked, !.longitudinal = @ /\ ~g.blocked]
         IN  [h EXCEPT !.controls_allowed =
                  h.mode = "hyundai_canfd" /\ Ready(h) /\ (h.lateral \/ h.longitudinal)]

MutantButtonsBaselined(f, l, c) == [f EXCEPT !.button_seen = TRUE]

\* A button held when the session begins is not a press: its level becomes the previous one.
ButtonsBaselined(f, l, c) ==
    LET ignore == IF f.button_seen THEN f.ignore_set_release ELSE c = "set"
    IN  [f EXCEPT !.lda_prev = IF f.button_seen THEN @ ELSE l,
                  !.cruise_prev = IF f.button_seen /\ ~ignore THEN @ ELSE c,
                  !.button_seen = TRUE,
                  !.ignore_set_release = ignore /\ c = "set"]

\* hyundai_canfd_rx_hook: an LDA edge toggles lateral only, a SET release toggles both.
LdaToggled(f, l) ==
    IF l /\ ~f.lda_prev
    THEN [f EXCEPT !.lateral = ~(f.lateral /\ ~f.longitudinal), !.longitudinal = FALSE]
    ELSE f
SetToggled(f, c) ==
    IF f.profile \in LongProfiles /\ c # "set" /\ f.cruise_prev = "set"
    THEN LET on == ~(f.lateral /\ f.longitudinal)
         IN  [f EXCEPT !.lateral = on, !.longitudinal = on]
    ELSE f

MutantButtonsHook(f, l, c) ==
    [SetToggled(LdaToggled(f, l), c) EXCEPT !.lda_prev = l, !.cruise_prev = IF l THEN "lda" ELSE c]

ButtonsHook(f, l, c) ==
    LET g == SetToggled(LdaToggled(f, l), c)
    IN  [g EXCEPT !.lda_prev = l, !.cruise_prev = c]

SessionButtons(f, l, c) ==
    LET g == ButtonsHook(ButtonsBaselined(f, l, c), l, c)
    IN  IF c = "cancel" THEN Abort(g) ELSE g

-----------------------------------------------------------------------------
(* Entry points of the firmware *)

Init ==
    /\ fw = [mode |-> "silent", profile |-> "none", blocked |-> FALSE,
             lateral |-> FALSE, longitudinal |-> FALSE,
             lda_prev |-> FALSE, cruise_prev |-> "none",
             button_seen |-> FALSE, ignore_set_release |-> FALSE,
             controls_allowed |-> FALSE, rx_checks_invalid |-> FALSE,
             rx |-> [m \in Messages |-> "unseen"], grace |-> FALSE]
    /\ lda \in BOOLEAN
    /\ cruise \in CruiseButtons
    /\ pressed = FALSE
    /\ released = FALSE

\* set_safety_hooks: every transition forgets what was received and withdraws controls.
SetSafetyMode(mode, param) ==
    LET profile == IF mode \in SessionModes /\ param \in Profiles THEN param ELSE "none"
    IN  /\ fw' = [Prepare(fw, profile) EXCEPT
                      !.mode = mode, !.controls_allowed = FALSE, !.rx_checks_invalid = FALSE,
                      !.rx = [m \in Messages |-> "unseen"], !.grace = (profile # "none")]
        /\ pressed' = (pressed /\ profile = fw.profile /\ profile # "none")
        /\ UNCHANGED <<lda, cruise, released>>

\* safety_rx_hook for a valid checked message.
Received(f, m) == [f EXCEPT !.rx[m] = "fresh"]

RxButtons ==
    /\ InSession(fw)
    /\ fw' = Enforce(SessionButtons(Received(fw, "buttons"), lda, cruise), TRUE)
    /\ released' = (released \/ (fw.cruise_prev = "set" /\ cruise # "set"))
    /\ UNCHANGED <<lda, cruise, pressed>>

MutantRxBrake(brake) ==
    /\ InSession(fw)
    /\ fw' = Enforce([Received(fw, "tcs") EXCEPT
                         !.longitudinal = @ /\ ~(brake /\ fw.mode = "hyundai_canfd")], TRUE)
    /\ released' = (released /\ ~brake)
    /\ UNCHANGED <<lda, cruise, pressed>>

RxBrake(brake) ==
    /\ InSession(fw)
    /\ fw' = Enforce([Received(fw, "tcs") EXCEPT !.longitudinal = @ /\ ~brake], TRUE)
    /\ released' = (released /\ ~brake)
    /\ UNCHANGED <<lda, cruise, pressed>>

RxOther(m) ==
    /\ InSession(fw) /\ m \in Messages \ {"buttons", "tcs"}
    /\ fw' = Enforce(Received(fw, m), TRUE)
    /\ UNCHANGED <<lda, cruise, pressed, released>>

RxInvalid ==
    /\ InSession(fw)
    /\ fw' = Enforce(fw, FALSE)
    /\ UNCHANGED <<lda, cruise, pressed, released>>

\* safety_tick: a lagging message invalidates the checks; an unseen one has 100 ms of grace.
SafetyTick ==
    LET lagging == \E m \in Messages :
                       fw.rx[m] = "lagging" \/ (fw.rx[m] = "unseen" /\ ~(fw.grace /\ ~fw.blocked))
    IN  /\ InSession(fw)
        /\ fw' = Enforce([fw EXCEPT !.rx_checks_invalid = lagging], ~lagging)
        /\ UNCHANGED <<lda, cruise, pressed, released>>

\* 0xb8: the host may only take longitudinal permission away.
DropLongitudinal ==
    /\ InSession(fw)
    /\ fw' = Enforce([fw EXCEPT !.longitudinal = FALSE], TRUE)
    /\ UNCHANGED <<lda, cruise, pressed, released>>

\* tick_handler: controls without an engaged heartbeat three times in a row.
HeartbeatMismatch ==
    /\ fw.controls_allowed
    /\ fw' = [Abort(fw) EXCEPT !.controls_allowed = FALSE]
    /\ UNCHANGED <<lda, cruise, pressed, released>>

-----------------------------------------------------------------------------
(* The driver and time *)

MoveLda ==
    /\ lda' = ~lda
    /\ pressed' = (pressed \/ (lda' /\ InSession(fw)))
    /\ UNCHANGED <<fw, cruise, released>>

MoveCruise(c) ==
    /\ c # cruise
    /\ cruise' = c
    /\ pressed' = (pressed \/ (c = "set" /\ InSession(fw)))
    /\ UNCHANGED <<fw, lda, released>>

Ageing == [unseen |-> "unseen", fresh |-> "stale", stale |-> "lagging", lagging |-> "lagging"]
Age(m) ==
    /\ fw' = [fw EXCEPT !.rx[m] = Ageing[@]]
    /\ UNCHANGED <<lda, cruise, pressed, released>>

EndGrace ==
    /\ fw.grace
    /\ fw' = [fw EXCEPT !.grace = FALSE]
    /\ UNCHANGED <<lda, cruise, pressed, released>>

Next ==
    \/ \E mode \in Modes, param \in Profiles \cup {"none"} : SetSafetyMode(mode, param)
    \/ RxButtons
    \/ \E brake \in BOOLEAN : RxBrake(brake)
    \/ \E m \in Messages : RxOther(m)
    \/ RxInvalid
    \/ SafetyTick
    \/ DropLongitudinal
    \/ HeartbeatMismatch
    \/ MoveLda
    \/ \E c \in CruiseButtons : MoveCruise(c)
    \/ \E m \in Messages : Age(m)
    \/ EndGrace

Spec == Init /\ [][Next]_vars

-----------------------------------------------------------------------------
(* Properties *)

\* "NOOUTPUT/ELM327 never grant actuator permission": controls are granted only in
\* HYUNDAI_CANFD to a selected, unblocked session; and an aborted session has no intent left
\* to come back to after a mode change.
PermissionNeedsLiveIntent ==
    InSession(fw) =>
        /\ fw.controls_allowed => /\ fw.mode = "hyundai_canfd" /\ ~fw.blocked
                                  /\ fw.lateral \/ fw.longitudinal
        /\ fw.blocked => ~fw.lateral /\ ~fw.longitudinal

\* A channel is selected only if the driver moved LDA or SET down after the session began: a
\* button held while the listener is installed, or released after it, selects nothing.
IntentNeedsNewPress == fw.lateral \/ fw.longitudinal => InSession(fw) /\ pressed

\* The brake wins in every mode: longitudinal intent is younger than the last brake message,
\* through takeovers, NO_OUTPUT, ELM327 and whatever else comes between; only a SET release seen
\* after that message brings it back.
LongitudinalNeedsSetAfterBrake == fw.longitudinal => released

\* The host cannot grant: intent grows only while button messages are processed, and an
\* aborted session stays aborted until its profile is replaced.
OnlyButtonsGrant ==
    [][/\ (~fw.longitudinal /\ fw'.longitudinal) \/ (~fw.lateral /\ fw'.lateral) =>
              /\ ~fw.blocked /\ fw'.profile = fw.profile /\ fw'.mode = fw.mode
              /\ fw'.lda_prev = lda /\ fw'.cruise_prev = cruise
              /\ <<fw.lda_prev, fw.cruise_prev>> # <<lda, cruise>>
       /\ fw.blocked /\ fw'.profile = fw.profile /\ InSession(fw) => fw'.blocked]_vars
=============================================================================
