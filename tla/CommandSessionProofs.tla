------------------------- MODULE CommandSessionProofs -------------------------
(***************************************************************************)
(* Proofs that the firmware command session keeps its invariants for every *)
(* set of checked messages and every set of profiles.                      *)
(*                                                                         *)
(* Inductive has a part about the firmware's variables alone (Disciplined) *)
(* and two about them and the driver: what the previous button levels must *)
(* be while nothing has been pressed, and what a longitudinal intent       *)
(* remembers of the brake.                                                 *)
(***************************************************************************)
EXTENDS CommandSession, TLAPS

Intent(f) == f.lateral \/ f.longitudinal

\* Outside a session, and once aborted, there is neither intent nor permission; permission
\* needs the actuating mode and an intent.
Disciplined(f) ==
    /\ ~InSession(f) \/ f.blocked => ~Intent(f) /\ ~f.controls_allowed
    /\ f.controls_allowed => f.mode = "hyundai_canfd" /\ Intent(f)

\* Nothing pressed since the profile was installed: a button that is down has been down
\* since then, so its level is the previous one, and a held SET is one whose release is ignored.
Untouched ==
    InSession(fw) /\ ~pressed =>
        /\ ~Intent(fw)
        /\ fw.button_seen /\ lda => fw.lda_prev
        /\ fw.button_seen /\ cruise = "set" => fw.ignore_set_release
        /\ fw.button_seen /\ fw.cruise_prev = "set" => fw.ignore_set_release

Inductive ==
    /\ TypeOK
    /\ Disciplined(fw)
    /\ Untouched
    /\ LongitudinalNeedsSetAfterBrake

\* The variables that only button messages and a new profile change.
SameButtons(f, g) ==
    /\ g.lda_prev = f.lda_prev /\ g.cruise_prev = f.cruise_prev
    /\ g.button_seen = f.button_seen /\ g.ignore_set_release = f.ignore_set_release

\* What a step that grants nothing does to the intent.
Reduced(f, g) ==
    /\ g.lateral => f.lateral
    /\ g.longitudinal => f.longitudinal

-----------------------------------------------------------------------------
(* The operators *)

\* ioniq5_command_session_abort takes intent and permission from a session.
LEMMA AbortFacts ==
    ASSUME NEW f \in Firmware
    PROVE  /\ Abort(f) \in Firmware
           /\ Abort(f).mode = f.mode /\ Abort(f).profile = f.profile
           /\ SameButtons(f, Abort(f)) /\ Reduced(f, Abort(f))
           /\ Abort(f).rx_checks_invalid = f.rx_checks_invalid
           /\ Abort(f).controls_allowed => f.controls_allowed
           /\ InSession(f) => Abort(f).blocked /\ ~Intent(Abort(f)) /\ ~Abort(f).controls_allowed
           /\ f.blocked => Abort(f).blocked
  BY ZenonT(40) DEF Abort, Firmware, InSession, SameButtons, Reduced, Intent

\* The last two assignments of enforce: a blocked session has no intent, and permission is
\* derived from what is left.
Gated(f) == [f EXCEPT !.lateral = @ /\ ~f.blocked, !.longitudinal = @ /\ ~f.blocked]
Granted(f) ==
    [f EXCEPT !.controls_allowed = f.mode = "hyundai_canfd" /\ Ready(f) /\ Intent(f)]

LEMMA GatedFacts ==
    ASSUME NEW f \in Firmware
    PROVE  LET g == Gated(f)
           IN  /\ g \in Firmware /\ g.mode = f.mode /\ g.profile = f.profile
               /\ g.blocked = f.blocked /\ SameButtons(f, g) /\ Reduced(f, g)
               /\ g.blocked => ~Intent(g)
  BY ZenonT(40) DEF Gated, Firmware, SameButtons, Reduced, Intent

LEMMA GrantedFacts ==
    ASSUME NEW f \in Firmware, f.blocked => ~Intent(f), InSession(f)
    PROVE  LET g == Granted(f)
           IN  /\ g \in Firmware /\ g.mode = f.mode /\ g.profile = f.profile
               /\ g.blocked = f.blocked /\ SameButtons(f, g) /\ Reduced(f, g)
               /\ Disciplined(g)
  <1> DEFINE allowed == f.mode = "hyundai_canfd" /\ Ready(f) /\ Intent(f)
             g == [f EXCEPT !.controls_allowed = allowed]
  <1>1. allowed \in BOOLEAN /\ (allowed => ~f.blocked /\ f.mode = "hyundai_canfd" /\ Intent(f))
    BY DEF Ready
  <1> HIDE DEF allowed
  <1>2. /\ g \in Firmware /\ g.mode = f.mode /\ g.profile = f.profile
        /\ g.blocked = f.blocked /\ SameButtons(f, g) /\ Reduced(f, g)
        /\ g.lateral = f.lateral /\ g.longitudinal = f.longitudinal
        /\ g.controls_allowed = allowed
    BY <1>1 DEF Firmware, SameButtons, Reduced
  <1>3. Granted(f) = g
    BY DEF Granted, allowed
  <1> HIDE DEF g
  <1>4. QED
    BY <1>1, <1>2, <1>3 DEF Disciplined, InSession, Intent

\* ioniq5_command_session_enforce: whatever state it is given, a session leaves it disciplined,
\* with no more intent than before, and with none at all if it was blocked.
LEMMA EnforceFacts ==
    ASSUME NEW f \in Firmware, NEW valid \in BOOLEAN, InSession(f)
    PROVE  LET e == Enforce(f, valid)
           IN  /\ e \in Firmware /\ Disciplined(e)
               /\ e.mode = f.mode /\ e.profile = f.profile
               /\ SameButtons(f, e) /\ Reduced(f, e)
               /\ f.blocked => e.blocked /\ ~Intent(e)
  <1> DEFINE g == IF ~valid \/ f.rx_checks_invalid THEN Abort(f) ELSE f
  <1>1. Enforce(f, valid) = Granted(Gated(g))
    BY DEF Enforce, Granted, Gated, Intent
  <1>2. /\ g \in Firmware /\ g.mode = f.mode /\ g.profile = f.profile
        /\ SameButtons(f, g) /\ Reduced(f, g) /\ (f.blocked => g.blocked)
    BY AbortFacts DEF SameButtons, Reduced
  <1> HIDE DEF g
  <1>3. LET h == Gated(g)
        IN  /\ h \in Firmware /\ h.mode = f.mode /\ h.profile = f.profile /\ h.blocked = g.blocked
            /\ SameButtons(f, h) /\ Reduced(f, h) /\ (h.blocked => ~Intent(h)) /\ InSession(h)
    BY <1>2, GatedFacts DEF SameButtons, Reduced, InSession
  <1>4. LET e == Granted(Gated(g))
        IN  /\ e \in Firmware /\ e.mode = f.mode /\ e.profile = f.profile
            /\ e.blocked = g.blocked /\ SameButtons(f, e) /\ Reduced(f, e) /\ Disciplined(e)
    BY <1>3, GrantedFacts DEF SameButtons, Reduced
  <1>5. QED
    BY <1>1, <1>2, <1>4 DEF Disciplined

\* ioniq5_command_session_prepare keeps intent only for the profile that is already installed.
LEMMA PrepareFacts ==
    ASSUME NEW f \in Firmware, NEW profile \in Profiles \cup {"none"}, Disciplined(f)
    PROVE  LET g == Prepare(f, profile)
           IN  /\ g \in Firmware /\ g.profile = profile /\ Reduced(f, g)
               /\ g.blocked => ~Intent(g)
               /\ profile = f.profile /\ profile # "none" =>
                      SameButtons(f, g) /\ (f.blocked => g.blocked)
               /\ profile # f.profile \/ profile = "none" => ~Intent(g) /\ ~g.button_seen
  <1>1. CASE profile # f.profile \/ profile = "none"
    <2>1. Prepare(f, profile) = [Cleared(f) EXCEPT !.profile = profile]
      BY <1>1 DEF Prepare
    <2>2. QED
      BY <1>1, <2>1, ZenonT(40) DEF Cleared, Firmware, CruiseButtons, Reduced, Intent
  <1>2. CASE ~(profile # f.profile \/ profile = "none")
    <2> DEFINE kept == IF f.rx_checks_invalid THEN Abort(f) ELSE f
    <2>1. Prepare(f, profile) = [kept EXCEPT !.profile = profile]
      BY <1>2 DEF Prepare
    <2>2. /\ kept \in Firmware /\ kept.profile = profile /\ SameButtons(f, kept) /\ Reduced(f, kept)
          /\ (f.blocked => kept.blocked) /\ (kept.blocked => ~Intent(kept))
      BY <1>2, AbortFacts DEF SameButtons, Reduced, InSession, Disciplined
    <2> HIDE DEF kept
    <2>3. [kept EXCEPT !.profile = profile] = kept
      BY <2>2 DEF Firmware
    <2>4. QED
      BY <1>2, <2>1, <2>2, <2>3 DEF Reduced, Intent
  <1>3. QED  BY <1>1, <1>2

-----------------------------------------------------------------------------
(* A button message *)

\* What an assignment to the previous levels, and one to the intent, leave alone.
WithLevels(f, l, c, ignore) ==
    [f EXCEPT !.lda_prev = l, !.cruise_prev = c, !.button_seen = TRUE,
              !.ignore_set_release = ignore]
WithIntent(f, lateral, longitudinal) ==
    [f EXCEPT !.lateral = lateral, !.longitudinal = longitudinal]

LEMMA LevelsAssigned ==
    ASSUME NEW f \in Firmware, NEW l \in BOOLEAN, NEW c \in CruiseButtons, NEW ignore \in BOOLEAN
    PROVE  LET g == WithLevels(f, l, c, ignore)
           IN  /\ g \in Firmware /\ g.mode = f.mode /\ g.profile = f.profile
               /\ g.blocked = f.blocked /\ g.lateral = f.lateral
               /\ g.longitudinal = f.longitudinal /\ g.button_seen
               /\ g.lda_prev = l /\ g.cruise_prev = c /\ (g.ignore_set_release <=> ignore)
  BY DEF Firmware, WithLevels

LEMMA IntentAssigned ==
    ASSUME NEW f \in Firmware, NEW lateral \in BOOLEAN, NEW longitudinal \in BOOLEAN
    PROVE  LET g == WithIntent(f, lateral, longitudinal)
           IN  /\ g \in Firmware /\ g.mode = f.mode /\ g.profile = f.profile
               /\ g.blocked = f.blocked /\ SameButtons(f, g)
               /\ (g.lateral <=> lateral) /\ (g.longitudinal <=> longitudinal)
  BY DEF Firmware, SameButtons, WithIntent

\* The first message of a session sets the previous levels; a SET held then is ignored until
\* its release.
LEMMA BaselinedFacts ==
    ASSUME NEW f \in Firmware, NEW l \in BOOLEAN, NEW c \in CruiseButtons
    PROVE  LET g == ButtonsBaselined(f, l, c)
           IN  /\ g \in Firmware /\ g.mode = f.mode /\ g.profile = f.profile
               /\ g.blocked = f.blocked /\ g.lateral = f.lateral
               /\ g.longitudinal = f.longitudinal /\ g.button_seen
               /\ g.lda_prev <=> IF f.button_seen THEN f.lda_prev ELSE l
               /\ g.cruise_prev = IF f.button_seen /\ ~f.ignore_set_release
                                  THEN f.cruise_prev ELSE c
               /\ (g.ignore_set_release <=>
                      (~f.button_seen \/ f.ignore_set_release) /\ c = "set")
  <1> DEFINE ignore == IF f.button_seen THEN f.ignore_set_release ELSE c = "set"
             prev == IF f.button_seen THEN f.lda_prev ELSE l
             button == IF f.button_seen /\ ~ignore THEN f.cruise_prev ELSE c
             kept == ignore /\ c = "set"
  <1>1. ButtonsBaselined(f, l, c) = WithLevels(f, prev, button, kept)
    BY DEF ButtonsBaselined, WithLevels
  <1>2. /\ prev \in BOOLEAN /\ button \in CruiseButtons /\ kept \in BOOLEAN
        /\ prev <=> IF f.button_seen THEN f.lda_prev ELSE l
        /\ button = IF f.button_seen /\ ~f.ignore_set_release THEN f.cruise_prev ELSE c
        /\ (kept <=> (~f.button_seen \/ f.ignore_set_release) /\ c = "set")
    BY DEF Firmware
  <1> HIDE DEF prev, kept, button
  <1>3. LET g == WithLevels(f, prev, button, kept)
        IN  /\ g \in Firmware /\ g.mode = f.mode /\ g.profile = f.profile
            /\ g.blocked = f.blocked /\ g.lateral = f.lateral
            /\ g.longitudinal = f.longitudinal /\ g.button_seen
            /\ (g.lda_prev <=> prev) /\ g.cruise_prev = button /\ (g.ignore_set_release <=> kept)
    BY <1>2, LevelsAssigned, SMTT(30)
  <1>4. QED
    BY <1>1, <1>2, <1>3

\* An LDA edge, and the end of a SET press, are the only things that select a channel.
LEMMA LdaToggledFacts ==
    ASSUME NEW f \in Firmware, NEW l \in BOOLEAN
    PROVE  LET g == LdaToggled(f, l)
           IN  /\ g \in Firmware /\ g.mode = f.mode /\ g.profile = f.profile
               /\ g.blocked = f.blocked /\ SameButtons(f, g)
               /\ g.longitudinal => f.longitudinal
               /\ g.lateral /\ ~f.lateral => l /\ ~f.lda_prev
  <1> DEFINE on == ~(f.lateral /\ ~f.longitudinal)
  <1>1. on \in BOOLEAN
    OBVIOUS
  <1>2. \/ LdaToggled(f, l) = f
        \/ LdaToggled(f, l) = WithIntent(f, on, FALSE) /\ l /\ ~f.lda_prev
    BY DEF LdaToggled, WithIntent
  <1> HIDE DEF on
  <1>3. LET g == WithIntent(f, on, FALSE)
        IN  /\ g \in Firmware /\ g.mode = f.mode /\ g.profile = f.profile
            /\ g.blocked = f.blocked /\ SameButtons(f, g) /\ ~g.longitudinal
    BY <1>1, IntentAssigned
  <1>4. QED
    BY <1>2, <1>3 DEF SameButtons

LEMMA SetToggledFacts ==
    ASSUME NEW f \in Firmware, NEW c \in CruiseButtons
    PROVE  LET g == SetToggled(f, c)
           IN  /\ g \in Firmware /\ g.mode = f.mode /\ g.profile = f.profile
               /\ g.blocked = f.blocked /\ SameButtons(f, g)
               /\ g # f => f.cruise_prev = "set" /\ c # "set"
  <1> DEFINE on == ~(f.lateral /\ f.longitudinal)
  <1>1. on \in BOOLEAN
    OBVIOUS
  <1>2. \/ SetToggled(f, c) = f
        \/ /\ SetToggled(f, c) = WithIntent(f, on, on)
           /\ f.cruise_prev = "set" /\ c # "set"
    BY DEF SetToggled, WithIntent
  <1> HIDE DEF on
  <1>3. QED
    BY <1>1, <1>2, IntentAssigned DEF SameButtons

LEMMA ToggledFacts ==
    ASSUME NEW f \in Firmware, NEW l \in BOOLEAN, NEW c \in CruiseButtons, f.button_seen
    PROVE  LET g == ButtonsHook(f, l, c)
           IN  /\ g \in Firmware /\ g.mode = f.mode /\ g.profile = f.profile
               /\ g.blocked = f.blocked /\ g.lda_prev = l /\ g.cruise_prev = c
               /\ g.button_seen /\ (g.ignore_set_release <=> f.ignore_set_release)
               /\ ~Reduced(f, g) => (l /\ ~f.lda_prev) \/ (f.cruise_prev = "set" /\ c # "set")
               /\ g.longitudinal /\ ~f.longitudinal => f.cruise_prev = "set" /\ c # "set"
  <1> DEFINE t == LdaToggled(f, l)
             u == SetToggled(t, c)
  <1>1. /\ t \in Firmware /\ t.mode = f.mode /\ t.profile = f.profile
        /\ t.blocked = f.blocked /\ SameButtons(f, t)
        /\ t.longitudinal => f.longitudinal
        /\ t.lateral /\ ~f.lateral => l /\ ~f.lda_prev
    BY LdaToggledFacts
  <1> HIDE DEF t
  <1>2. /\ u \in Firmware /\ u.mode = t.mode /\ u.profile = t.profile
        /\ u.blocked = t.blocked /\ SameButtons(t, u)
        /\ u # t => t.cruise_prev = "set" /\ c # "set"
    BY <1>1, SetToggledFacts
  <1> HIDE DEF u
  <1>3. /\ u.button_seen /\ u.ignore_set_release \in BOOLEAN
        /\ u.ignore_set_release = f.ignore_set_release
    BY <1>1, <1>2 DEF SameButtons, Firmware
  <1>4. ButtonsHook(f, l, c) = WithLevels(u, l, c, u.ignore_set_release)
    BY <1>2, <1>3 DEF ButtonsHook, WithLevels, t, u, Firmware
  <1>5. LET g == ButtonsHook(f, l, c)
        IN  /\ g \in Firmware /\ g.mode = u.mode /\ g.profile = u.profile
            /\ g.blocked = u.blocked /\ g.lda_prev = l /\ g.cruise_prev = c
            /\ g.button_seen /\ (g.ignore_set_release <=> u.ignore_set_release)
            /\ g.lateral = u.lateral /\ g.longitudinal = u.longitudinal
    BY <1>2, <1>3, <1>4, LevelsAssigned
  <1>6. QED
    BY <1>1, <1>2, <1>3, <1>5 DEF SameButtons, Reduced

\* The whole button message: intent grows only on an edge after the session's first message,
\* longitudinal only on the release of a SET whose press was seen.
LEMMA SessionButtonsFacts ==
    ASSUME NEW f \in Firmware, NEW l \in BOOLEAN, NEW c \in CruiseButtons
    PROVE  LET g == SessionButtons(f, l, c)
           IN  /\ g \in Firmware /\ g.mode = f.mode /\ g.profile = f.profile
               /\ f.blocked => g.blocked
               /\ g.button_seen /\ g.lda_prev = l /\ g.cruise_prev = c
               /\ (g.ignore_set_release <=>
                      (~f.button_seen \/ f.ignore_set_release) /\ c = "set")
               /\ ~Reduced(f, g) =>
                      /\ f.button_seen
                      /\ \/ l /\ ~f.lda_prev
                         \/ ~f.ignore_set_release /\ f.cruise_prev = "set" /\ c # "set"
               /\ g.longitudinal /\ ~f.longitudinal => f.cruise_prev = "set" /\ c # "set"
  <1> DEFINE b == ButtonsBaselined(f, l, c)
             h == ButtonsHook(b, l, c)
  <1>1. /\ b \in Firmware /\ b.mode = f.mode /\ b.profile = f.profile /\ b.blocked = f.blocked
        /\ b.lateral = f.lateral /\ b.longitudinal = f.longitudinal /\ b.button_seen
        /\ b.lda_prev <=> IF f.button_seen THEN f.lda_prev ELSE l
        /\ b.cruise_prev = IF f.button_seen /\ ~f.ignore_set_release THEN f.cruise_prev ELSE c
        /\ (b.ignore_set_release <=> (~f.button_seen \/ f.ignore_set_release) /\ c = "set")
    BY BaselinedFacts
  <1> HIDE DEF b
  <1>2. /\ h \in Firmware /\ h.mode = b.mode /\ h.profile = b.profile
        /\ h.blocked = b.blocked /\ h.lda_prev = l /\ h.cruise_prev = c
        /\ h.button_seen /\ (h.ignore_set_release <=> b.ignore_set_release)
        /\ ~Reduced(b, h) => (l /\ ~b.lda_prev) \/ (b.cruise_prev = "set" /\ c # "set")
        /\ h.longitudinal /\ ~b.longitudinal => b.cruise_prev = "set" /\ c # "set"
    BY <1>1, ToggledFacts
  <1> HIDE DEF h
  <1>3. SessionButtons(f, l, c) = IF c = "cancel" THEN Abort(h) ELSE h
    BY DEF SessionButtons, b, h
  <1>4. QED
    BY <1>1, <1>2, <1>3, AbortFacts DEF SameButtons, Reduced

-----------------------------------------------------------------------------
(* The inductive invariant *)

\* Same mode, session, intent and permission: only the receive checks differ.
SameCore(f, g) ==
    /\ g.mode = f.mode /\ g.profile = f.profile /\ g.blocked = f.blocked
    /\ g.lateral = f.lateral /\ g.longitudinal = f.longitudinal
    /\ g.controls_allowed = f.controls_allowed
    /\ SameButtons(f, g)

\* A received or ageing message, the end of grace and the tick's verdict touch nothing else.
LEMMA CheckFacts ==
    ASSUME NEW f \in Firmware
    PROVE  /\ \A m \in Messages, status \in Status :
                  LET g == [f EXCEPT !.rx[m] = status] IN g \in Firmware /\ SameCore(f, g)
           /\ LET g == [f EXCEPT !.grace = FALSE] IN g \in Firmware /\ SameCore(f, g)
           /\ \A invalid \in BOOLEAN :
                  LET g == [f EXCEPT !.rx_checks_invalid = invalid]
                  IN  g \in Firmware /\ SameCore(f, g)
  BY DEF Firmware, SameCore, SameButtons

LEMMA ReceivedFacts ==
    ASSUME NEW f \in Firmware, NEW m \in Messages
    PROVE  Received(f, m) \in Firmware /\ SameCore(f, Received(f, m))
  BY DEF Received, Firmware, SameCore, SameButtons, Status

\* A step that ends in enforce and selects nothing keeps the invariant, whatever else it did.
LEMMA EnforcedStep ==
    ASSUME Inductive, NEW g \in Firmware, NEW valid \in BOOLEAN,
           InSession(fw), g.profile = fw.profile, SameButtons(fw, g), Reduced(fw, g),
           fw' = Enforce(g, valid), UNCHANGED <<lda, cruise, pressed>>,
           released' \in BOOLEAN, g.longitudinal => released'
    PROVE  Inductive'
  <1>1. /\ fw' \in Firmware /\ Disciplined(fw') /\ fw'.profile = fw.profile
        /\ SameButtons(fw, fw') /\ Reduced(g, fw')
    BY EnforceFacts DEF InSession, SameButtons
  <1>2. TypeOK'
    BY <1>1 DEF Inductive, TypeOK
  <1>3. Untouched'
    BY <1>1 DEF Inductive, Untouched, InSession, Intent, Reduced, SameButtons
  <1>4. LongitudinalNeedsSetAfterBrake'
    BY <1>1 DEF LongitudinalNeedsSetAfterBrake, Reduced
  <1>5. QED  BY <1>1, <1>2, <1>3, <1>4 DEF Inductive

\* set_safety_hooks: a new profile starts untouched, the same one keeps what it had.
LEMMA SafetyModeStep ==
    ASSUME Inductive, NEW mode \in Modes, NEW param \in Profiles \cup {"none"},
           SetSafetyMode(mode, param)
    PROVE  Inductive'
  <1> DEFINE profile == IF mode \in SessionModes /\ param \in Profiles THEN param ELSE "none"
             g == Prepare(fw, profile)
             grace == profile # "none"
  <1>1. profile \in Profiles \cup {"none"} /\ fw \in Firmware /\ grace \in BOOLEAN
    BY DEF Inductive, TypeOK
  <1>2. /\ fw' = [g EXCEPT !.mode = mode, !.controls_allowed = FALSE, !.rx_checks_invalid = FALSE,
                           !.rx = [m \in Messages |-> "unseen"], !.grace = grace]
        /\ pressed' = (pressed /\ profile = fw.profile /\ profile # "none")
        /\ UNCHANGED <<lda, cruise, released>>
    BY DEF SetSafetyMode
  <1> HIDE DEF profile, grace
  <1>3. /\ g \in Firmware /\ g.profile = profile /\ Reduced(fw, g)
        /\ g.blocked => ~Intent(g)
        /\ profile = fw.profile /\ profile # "none" => SameButtons(fw, g)
        /\ profile # fw.profile \/ profile = "none" => ~Intent(g) /\ ~g.button_seen
    BY <1>1, PrepareFacts DEF Inductive
  <1> HIDE DEF g
  <1>4. /\ fw' \in Firmware /\ fw'.profile = g.profile /\ fw'.blocked = g.blocked
        /\ fw'.lateral = g.lateral /\ fw'.longitudinal = g.longitudinal
        /\ ~fw'.controls_allowed /\ SameButtons(g, fw')
    BY <1>1, <1>2, <1>3 DEF Firmware, SameButtons, Status
  <1>5. TypeOK'
    BY <1>2, <1>4 DEF Inductive, TypeOK
  <1>6. Disciplined(fw')
    BY <1>3, <1>4 DEF Disciplined, InSession, Intent
  <1>7. Untouched'
    <2>1. CASE profile = fw.profile /\ profile # "none"
      BY <1>2, <1>3, <1>4, <2>1 DEF Inductive, Untouched, InSession, Intent, SameButtons, Reduced
    <2>2. CASE ~(profile = fw.profile /\ profile # "none")
      BY <1>3, <1>4, <2>2 DEF Untouched, Intent, SameButtons
    <2>3. QED  BY <2>1, <2>2
  <1>8. LongitudinalNeedsSetAfterBrake'
    BY <1>2, <1>3, <1>4 DEF Inductive, LongitudinalNeedsSetAfterBrake, Reduced
  <1>9. QED  BY <1>5, <1>6, <1>7, <1>8 DEF Inductive

\* A button message of an untouched session selects nothing; longitudinal comes with the
\* release of SET that released remembers.
LEMMA ButtonsStep ==
    ASSUME Inductive, RxButtons
    PROVE  Inductive'
  <1> DEFINE f == Received(fw, "buttons")
             g == SessionButtons(f, lda, cruise)
  <1>1. f \in Firmware /\ SameCore(fw, f)
    BY MessagesAssumption, ReceivedFacts DEF Inductive, TypeOK
  <1>2. /\ fw' = Enforce(g, TRUE) /\ UNCHANGED <<lda, cruise, pressed>>
        /\ released' = (released \/ (fw.cruise_prev = "set" /\ cruise # "set"))
    BY DEF RxButtons
  <1> HIDE DEF f
  <1>3. /\ g \in Firmware /\ g.mode = f.mode /\ g.profile = f.profile
        /\ f.blocked => g.blocked
        /\ g.button_seen /\ g.lda_prev = lda /\ g.cruise_prev = cruise
        /\ (g.ignore_set_release <=> (~f.button_seen \/ f.ignore_set_release) /\ cruise = "set")
        /\ ~Reduced(f, g) => /\ f.button_seen
                             /\ \/ lda /\ ~f.lda_prev
                                \/ ~f.ignore_set_release /\ f.cruise_prev = "set" /\ cruise # "set"
        /\ g.longitudinal /\ ~f.longitudinal => f.cruise_prev = "set" /\ cruise # "set"
    BY <1>1, SessionButtonsFacts DEF Inductive, TypeOK
  <1>4. InSession(g)
    BY <1>1, <1>3 DEF RxButtons, InSession, SameCore
  <1> HIDE DEF g
  <1>5. /\ fw' \in Firmware /\ Disciplined(fw') /\ fw'.profile = g.profile
        /\ SameButtons(g, fw') /\ Reduced(g, fw')
    BY <1>2, <1>3, <1>4, EnforceFacts
  <1>6. TypeOK'
    BY <1>2, <1>5 DEF Inductive, TypeOK
  <1>7. Untouched'
    <2> SUFFICES ASSUME ~pressed'
                 PROVE  /\ ~Intent(fw')
                        /\ lda => fw'.lda_prev
                        /\ cruise = "set" => fw'.ignore_set_release
      BY <1>2, <1>3, <1>5 DEF Untouched, SameButtons
    <2>1. /\ ~Intent(f)
          /\ f.button_seen /\ lda => f.lda_prev
          /\ f.button_seen /\ cruise = "set" => f.ignore_set_release
          /\ f.button_seen /\ f.cruise_prev = "set" => f.ignore_set_release
      BY <1>1, <1>2 DEF Inductive, Untouched, RxButtons, SameCore, SameButtons, Intent
    <2>2. Reduced(f, g)
      BY <1>3, <2>1
    <2>3. ~Intent(fw')
      BY <1>5, <2>1, <2>2 DEF Intent, Reduced
    <2>4. QED  BY <1>3, <1>5, <2>1, <2>3 DEF SameButtons
  <1>8. LongitudinalNeedsSetAfterBrake'
    BY <1>1, <1>2, <1>3, <1>5
    DEF Inductive, LongitudinalNeedsSetAfterBrake, Reduced, SameCore, SameButtons
  <1>9. QED  BY <1>5, <1>6, <1>7, <1>8 DEF Inductive

\* The other messages, the tick and the host only take away.
LEMMA TakingStep ==
    ASSUME Inductive,
           \/ \E brake \in BOOLEAN : RxBrake(brake)
           \/ \E m \in Messages : RxOther(m)
           \/ RxInvalid
           \/ SafetyTick
           \/ DropLongitudinal
    PROVE  Inductive'
  <1>1. fw \in Firmware /\ released \in BOOLEAN /\ (fw.longitudinal => released)
    BY DEF Inductive, TypeOK, LongitudinalNeedsSetAfterBrake
  <1>2. ASSUME NEW brake \in BOOLEAN, RxBrake(brake)
        PROVE  Inductive'
    <2> DEFINE f == Received(fw, "tcs")
               g == [f EXCEPT !.longitudinal = @ /\ ~brake]
    <2>1. f \in Firmware /\ SameCore(fw, f)
      BY <1>1, MessagesAssumption, ReceivedFacts
    <2>2. InSession(fw) /\ fw' = Enforce(g, TRUE)
      BY <1>2 DEF RxBrake
    <2> HIDE DEF f
    <2>3. /\ g \in Firmware /\ g.profile = f.profile /\ SameButtons(f, g) /\ Reduced(f, g)
          /\ g.longitudinal => ~brake
      BY <2>1 DEF Firmware, SameButtons, Reduced
    <2> HIDE DEF g
    <2>4. released' \in BOOLEAN /\ (g.longitudinal => released')
      BY <1>1, <1>2, <2>1, <2>3 DEF RxBrake, SameCore, Reduced
    <2>5. SameButtons(fw, g) /\ Reduced(fw, g) /\ g.profile = fw.profile
      BY <2>1, <2>3 DEF SameCore, SameButtons, Reduced
    <2>6. UNCHANGED <<lda, cruise, pressed>>
      BY <1>2 DEF RxBrake
    <2>7. QED  BY <2>2, <2>3, <2>4, <2>5, <2>6, EnforcedStep
  <1>3. ASSUME NEW m \in Messages, RxOther(m)
        PROVE  Inductive'
    <2> DEFINE g == Received(fw, m)
    <2>1. g \in Firmware /\ SameCore(fw, g)
      BY <1>1, ReceivedFacts
    <2>2. /\ InSession(fw) /\ fw' = Enforce(g, TRUE)
          /\ UNCHANGED <<lda, cruise, pressed>> /\ released' = released
      BY <1>3 DEF RxOther
    <2> HIDE DEF g
    <2>3. SameButtons(fw, g) /\ Reduced(fw, g) /\ g.profile = fw.profile
      BY <2>1 DEF SameCore, Reduced
    <2>4. released' \in BOOLEAN /\ (g.longitudinal => released')
      BY <1>1, <2>2, <2>3 DEF Reduced
    <2>5. QED  BY <2>1, <2>2, <2>3, <2>4, EnforcedStep
  <1>4. CASE RxInvalid
    <2>1. /\ InSession(fw) /\ fw' = Enforce(fw, FALSE)
          /\ UNCHANGED <<lda, cruise, pressed>> /\ released' = released
      BY <1>4 DEF RxInvalid
    <2>2. SameButtons(fw, fw) /\ Reduced(fw, fw)
      BY DEF SameButtons, Reduced
    <2>3. QED  BY <1>1, <2>1, <2>2, EnforcedStep
  <1>5. CASE SafetyTick
    <2> DEFINE lagging == \E m \in Messages :
                              \/ fw.rx[m] = "lagging"
                              \/ fw.rx[m] = "unseen" /\ ~(fw.grace /\ ~fw.blocked)
               g == [fw EXCEPT !.rx_checks_invalid = lagging]
    <2>1. /\ InSession(fw) /\ fw' = Enforce(g, ~lagging)
          /\ UNCHANGED <<lda, cruise, pressed>> /\ released' = released
      BY <1>5 DEF SafetyTick
    <2>2. lagging \in BOOLEAN /\ (~lagging) \in BOOLEAN
      OBVIOUS
    <2> HIDE DEF lagging
    <2>3. g \in Firmware /\ SameButtons(fw, g) /\ Reduced(fw, g) /\ g.profile = fw.profile
      BY <1>1, <2>2 DEF Firmware, SameButtons, Reduced
    <2> HIDE DEF g
    <2>4. released' \in BOOLEAN /\ (g.longitudinal => released')
      BY <1>1, <2>1, <2>3 DEF Reduced
    <2>5. QED  BY <2>1, <2>2, <2>3, <2>4, EnforcedStep
  <1>6. CASE DropLongitudinal
    <2> DEFINE g == [fw EXCEPT !.longitudinal = FALSE]
    <2>1. /\ InSession(fw) /\ fw' = Enforce(g, TRUE)
          /\ UNCHANGED <<lda, cruise, pressed>> /\ released' = released
      BY <1>6 DEF DropLongitudinal
    <2>2. g \in Firmware /\ SameButtons(fw, g) /\ Reduced(fw, g) /\ g.profile = fw.profile
      BY <1>1 DEF Firmware, SameButtons, Reduced
    <2> HIDE DEF g
    <2>3. released' \in BOOLEAN /\ (g.longitudinal => released')
      BY <1>1, <2>1, <2>2 DEF Reduced
    <2>4. QED  BY <2>1, <2>2, <2>3, EnforcedStep
  <1>7. QED  BY <1>2, <1>3, <1>4, <1>5, <1>6

\* A heartbeat mismatch aborts; outside a session there is nothing it could abort.
LEMMA HeartbeatStep ==
    ASSUME Inductive, HeartbeatMismatch
    PROVE  Inductive'
  <1> DEFINE a == Abort(fw)
  <1>1. fw \in Firmware /\ InSession(fw)
    BY DEF Inductive, TypeOK, HeartbeatMismatch, Disciplined
  <1>2. /\ a \in Firmware /\ a.profile = fw.profile /\ SameButtons(fw, a) /\ ~Intent(a)
    BY <1>1, AbortFacts
  <1>3. fw' = [a EXCEPT !.controls_allowed = FALSE] /\ UNCHANGED <<lda, cruise, pressed, released>>
    BY DEF HeartbeatMismatch
  <1> HIDE DEF a
  <1>4. /\ fw' \in Firmware /\ fw'.profile = a.profile /\ SameButtons(a, fw')
        /\ fw'.lateral = a.lateral /\ fw'.longitudinal = a.longitudinal /\ ~fw'.controls_allowed
    BY <1>2, <1>3 DEF Firmware, SameButtons
  <1>5. ~Intent(fw')
    BY <1>2, <1>4 DEF Intent
  <1>6. QED
    BY <1>2, <1>3, <1>4, <1>5
    DEF Inductive, TypeOK, Disciplined, Untouched, LongitudinalNeedsSetAfterBrake, InSession,
        Intent, SameButtons

\* The driver and time: a press is what ends being untouched.
LEMMA DriverStep ==
    ASSUME Inductive,
           \/ MoveLda
           \/ \E c \in CruiseButtons : MoveCruise(c)
           \/ \E m \in Messages : Age(m)
           \/ EndGrace
           \/ UNCHANGED vars
    PROVE  Inductive'
  <1>1. CASE MoveLda
    BY <1>1
    DEF MoveLda, Inductive, TypeOK, Untouched, LongitudinalNeedsSetAfterBrake
  <1>2. ASSUME NEW c \in CruiseButtons, MoveCruise(c)
        PROVE  Inductive'
    BY <1>2
    DEF MoveCruise, Inductive, TypeOK, Untouched, LongitudinalNeedsSetAfterBrake
  <1>3. CASE (\E m \in Messages : Age(m)) \/ EndGrace \/ UNCHANGED vars
    <2>1. fw' \in Firmware /\ SameCore(fw, fw') /\ UNCHANGED <<lda, cruise, pressed, released>>
      <3>1. fw \in Firmware
        BY DEF Inductive, TypeOK
      <3>2. ASSUME NEW m \in Messages, Age(m)
            PROVE  fw' \in Firmware /\ SameCore(fw, fw')
        <4>1. fw' = [fw EXCEPT !.rx[m] = Ageing[fw.rx[m]]] /\ Ageing[fw.rx[m]] \in Status
          BY <3>1, <3>2 DEF Age, Ageing, Status, Firmware
        <4>2. QED  BY <3>1, <4>1, CheckFacts
      <3>3. CASE EndGrace
        BY <3>1, <3>3, CheckFacts DEF EndGrace
      <3>4. CASE UNCHANGED vars
        BY <3>1, <3>4 DEF vars, SameCore, SameButtons
      <3>5. QED  BY <1>3, <3>2, <3>3, <3>4 DEF Age, EndGrace, vars
    <2>2. QED
      BY <2>1
      DEF Inductive, TypeOK, Disciplined, Untouched, LongitudinalNeedsSetAfterBrake, InSession,
          Intent, SameCore, SameButtons
  <1>4. QED  BY <1>1, <1>2, <1>3

\* The strengthening that the properties rest on.
THEOREM SessionInvariant == Spec => []Inductive
  <1>1. Init => Inductive
    <2> SUFFICES ASSUME Init
                 PROVE  Inductive
      OBVIOUS
    <2>1. TypeOK
      BY DEF Init, TypeOK, Firmware, Modes, CruiseButtons, Status
    <2>2. QED
      BY <2>1
      DEF Init, Inductive, Disciplined, Untouched, LongitudinalNeedsSetAfterBrake, InSession, Intent
  <1>2. Inductive /\ [Next]_vars => Inductive'
    BY SafetyModeStep, ButtonsStep, TakingStep, HeartbeatStep, DriverStep DEF Next
  <1>3. QED  BY <1>1, <1>2, PTL DEF Spec

-----------------------------------------------------------------------------
(* The properties *)

\* The static variables of the firmware stay in their ranges.
THEOREM SessionTypeCorrect == Spec => []TypeOK
  <1>1. Inductive => TypeOK
    BY DEF Inductive
  <1>2. QED  BY <1>1, SessionInvariant, PTL

\* Permission to actuate needs the actuating mode and a live intent; an aborted session has none.
THEOREM SessionPermission == Spec => []PermissionNeedsLiveIntent
  <1>1. Inductive => PermissionNeedsLiveIntent
    BY DEF Inductive, Disciplined, PermissionNeedsLiveIntent, Intent
  <1>2. QED  BY <1>1, SessionInvariant, PTL

\* A channel is selected only after a press that is younger than the session, however its
\* button messages, mode changes and invalid receptions interleave.
THEOREM SessionNewPress == Spec => []IntentNeedsNewPress
  <1>1. Inductive => IntentNeedsNewPress
    BY DEF Inductive, Disciplined, Untouched, IntentNeedsNewPress, Intent
  <1>2. QED  BY <1>1, SessionInvariant, PTL

\* Longitudinal intent is younger than the last brake message.
THEOREM SessionBrake == Spec => []LongitudinalNeedsSetAfterBrake
  <1>1. Inductive => LongitudinalNeedsSetAfterBrake
    BY DEF Inductive
  <1>2. QED  BY <1>1, SessionInvariant, PTL

\* The steps that keep or take: what OnlyButtonsGrant asks of all but button messages.
NothingGranted(f, g) ==
    /\ Reduced(f, g)
    /\ f.blocked /\ g.profile = f.profile /\ InSession(f) => g.blocked

\* The host cannot grant: intent grows only while a button message with a changed level is
\* processed in an unblocked session, and an aborted session stays aborted until its profile
\* is replaced.
THEOREM SessionOnlyButtonsGrant == Spec => OnlyButtonsGrant
  <1> DEFINE Granting ==
          /\ (~fw.longitudinal /\ fw'.longitudinal) \/ (~fw.lateral /\ fw'.lateral) =>
                 /\ ~fw.blocked /\ fw'.profile = fw.profile /\ fw'.mode = fw.mode
                 /\ fw'.lda_prev = lda /\ fw'.cruise_prev = cruise
                 /\ <<fw.lda_prev, fw.cruise_prev>> # <<lda, cruise>>
          /\ fw.blocked /\ fw'.profile = fw.profile /\ InSession(fw) => fw'.blocked
  <1>1. NothingGranted(fw, fw') => Granting
    BY DEF NothingGranted, Reduced
  <1>2. ASSUME Inductive, NEW g \in Firmware, NEW valid \in BOOLEAN, InSession(fw),
               g.profile = fw.profile, Reduced(fw, g), fw.blocked => g.blocked,
               fw' = Enforce(g, valid)
        PROVE  Granting
    <2>1. Reduced(g, fw') /\ (g.blocked => fw'.blocked)
      BY <1>2, EnforceFacts DEF InSession
    <2>2. NothingGranted(fw, fw')
      BY <1>2, <2>1 DEF NothingGranted, Reduced
    <2>3. QED  BY <1>1, <2>2
  <1> HIDE DEF Granting
  <1>3. Inductive /\ [Next]_vars => [Granting]_vars
    <2> SUFFICES ASSUME Inductive, [Next]_vars
                 PROVE  Granting
      OBVIOUS
    <2>1. fw \in Firmware
      BY DEF Inductive, TypeOK
    <2>2. ASSUME NEW mode \in Modes, NEW param \in Profiles \cup {"none"}, SetSafetyMode(mode, param)
          PROVE  Granting
      <3> DEFINE profile == IF mode \in SessionModes /\ param \in Profiles THEN param ELSE "none"
                 g == Prepare(fw, profile)
                 grace == profile # "none"
      <3>1. fw' = [g EXCEPT !.mode = mode, !.controls_allowed = FALSE, !.rx_checks_invalid = FALSE,
                           !.rx = [m \in Messages |-> "unseen"], !.grace = grace]
        BY <2>2 DEF SetSafetyMode
      <3>2. profile \in Profiles \cup {"none"}
        OBVIOUS
      <3> HIDE DEF profile, grace
      <3>3. /\ g \in Firmware /\ g.profile = profile /\ Reduced(fw, g)
            /\ profile = fw.profile /\ profile # "none" => (fw.blocked => g.blocked)
        BY <2>1, <3>2, PrepareFacts DEF Inductive
      <3> HIDE DEF g
      <3>4. /\ fw'.profile = g.profile /\ fw'.blocked = g.blocked
            /\ fw'.lateral = g.lateral /\ fw'.longitudinal = g.longitudinal
        BY <3>1, <3>3 DEF Firmware
      <3>5. NothingGranted(fw, fw')
        BY <3>3, <3>4 DEF NothingGranted, Reduced, InSession
      <3>6. QED  BY <1>1, <3>5
    <2>3. CASE RxButtons
      <3> DEFINE f == Received(fw, "buttons")
                 g == SessionButtons(f, lda, cruise)
      <3>1. f \in Firmware /\ SameCore(fw, f)
        BY <2>1, MessagesAssumption, ReceivedFacts
      <3>2. fw' = Enforce(g, TRUE) /\ InSession(fw)
        BY <2>3 DEF RxButtons
      <3> HIDE DEF f
      <3>3. /\ g \in Firmware /\ g.mode = f.mode /\ g.profile = f.profile
            /\ f.blocked => g.blocked
            /\ g.lda_prev = lda /\ g.cruise_prev = cruise
            /\ ~Reduced(f, g) => (lda /\ ~f.lda_prev) \/ (f.cruise_prev = "set" /\ cruise # "set")
        BY <3>1, SessionButtonsFacts DEF Inductive, TypeOK
      <3> HIDE DEF g
      <3>4. /\ fw'.mode = g.mode /\ fw'.profile = g.profile
            /\ SameButtons(g, fw') /\ Reduced(g, fw')
            /\ g.blocked => fw'.blocked /\ ~Intent(fw')
        BY <3>1, <3>2, <3>3, EnforceFacts DEF InSession, SameCore
      <3>5. /\ fw'.mode = fw.mode /\ fw'.profile = fw.profile
            /\ fw'.lda_prev = lda /\ fw'.cruise_prev = cruise
            /\ fw.blocked => fw'.blocked /\ ~Intent(fw')
        BY <3>1, <3>3, <3>4 DEF SameCore, SameButtons
      <3>6. ~Reduced(fw, fw') => (lda /\ ~fw.lda_prev) \/ (fw.cruise_prev = "set" /\ cruise # "set")
        BY <3>1, <3>3, <3>4 DEF SameCore, SameButtons, Reduced
      <3>7. ~Reduced(fw, fw') => <<fw.lda_prev, fw.cruise_prev>> # <<lda, cruise>>
        BY <3>6
      <3>8. (~fw.longitudinal /\ fw'.longitudinal) \/ (~fw.lateral /\ fw'.lateral) =>
                ~Reduced(fw, fw') /\ Intent(fw')
        BY DEF Reduced, Intent
      <3>9. QED
        BY <3>5, <3>7, <3>8 DEF Granting
    <2>4. ASSUME NEW brake \in BOOLEAN, RxBrake(brake)
          PROVE  Granting
      <3> DEFINE f == Received(fw, "tcs")
                 g == [f EXCEPT !.longitudinal = @ /\ ~brake]
      <3>1. f \in Firmware /\ SameCore(fw, f)
        BY <2>1, MessagesAssumption, ReceivedFacts
      <3>2. fw' = Enforce(g, TRUE) /\ InSession(fw)
        BY <2>4 DEF RxBrake
      <3> HIDE DEF f
      <3>3. g \in Firmware /\ g.profile = f.profile /\ Reduced(f, g) /\ g.blocked = f.blocked
        BY <3>1 DEF Firmware, Reduced
      <3> HIDE DEF g
      <3>4. QED  BY <1>2, <3>1, <3>2, <3>3 DEF SameCore, Reduced
    <2>5. ASSUME NEW m \in Messages, RxOther(m)
          PROVE  Granting
      <3> DEFINE g == Received(fw, m)
      <3>1. g \in Firmware /\ SameCore(fw, g)
        BY <2>1, ReceivedFacts
      <3>2. fw' = Enforce(g, TRUE) /\ InSession(fw)
        BY <2>5 DEF RxOther
      <3> HIDE DEF g
      <3>3. QED  BY <1>2, <3>1, <3>2 DEF SameCore, Reduced
    <2>6. CASE RxInvalid
      <3>1. fw' = Enforce(fw, FALSE) /\ InSession(fw)
        BY <2>6 DEF RxInvalid
      <3>2. QED  BY <1>2, <2>1, <3>1 DEF Reduced
    <2>7. CASE SafetyTick
      <3> DEFINE lagging == \E m \in Messages :
                                \/ fw.rx[m] = "lagging"
                                \/ fw.rx[m] = "unseen" /\ ~(fw.grace /\ ~fw.blocked)
                 g == [fw EXCEPT !.rx_checks_invalid = lagging]
      <3>1. fw' = Enforce(g, ~lagging) /\ InSession(fw)
        BY <2>7 DEF SafetyTick
      <3>2. lagging \in BOOLEAN /\ (~lagging) \in BOOLEAN
        OBVIOUS
      <3> HIDE DEF lagging
      <3>3. g \in Firmware /\ g.profile = fw.profile /\ Reduced(fw, g) /\ g.blocked = fw.blocked
        BY <2>1, <3>2 DEF Firmware, Reduced
      <3> HIDE DEF g
      <3>4. QED  BY <1>2, <3>1, <3>2, <3>3
    <2>8. CASE DropLongitudinal
      <3> DEFINE g == [fw EXCEPT !.longitudinal = FALSE]
      <3>1. fw' = Enforce(g, TRUE) /\ InSession(fw)
        BY <2>8 DEF DropLongitudinal
      <3>2. g \in Firmware /\ g.profile = fw.profile /\ Reduced(fw, g) /\ g.blocked = fw.blocked
        BY <2>1 DEF Firmware, Reduced
      <3> HIDE DEF g
      <3>3. QED  BY <1>2, <3>1, <3>2
    <2>9. CASE HeartbeatMismatch
      <3> DEFINE a == Abort(fw)
      <3>1. a \in Firmware /\ Reduced(fw, a) /\ (fw.blocked => a.blocked)
        BY <2>1, AbortFacts
      <3>2. fw' = [a EXCEPT !.controls_allowed = FALSE]
        BY <2>9 DEF HeartbeatMismatch
      <3> HIDE DEF a
      <3>3. NothingGranted(fw, fw')
        BY <3>1, <3>2 DEF Firmware, NothingGranted, Reduced
      <3>4. QED  BY <1>1, <3>3
    <2>10. CASE (\E m \in Messages : Age(m)) \/ EndGrace
      <3>1. NothingGranted(fw, fw')
        BY <2>1, <2>10 DEF Age, EndGrace, Firmware, NothingGranted, Reduced
      <3>2. QED  BY <1>1, <3>1
    <2>11. CASE MoveLda \/ (\E c \in CruiseButtons : MoveCruise(c)) \/ UNCHANGED vars
      <3>1. NothingGranted(fw, fw')
        BY <2>11 DEF MoveLda, MoveCruise, vars, NothingGranted, Reduced
      <3>2. QED  BY <1>1, <3>1
    <2>12. QED
      BY <2>2, <2>3, <2>4, <2>5, <2>6, <2>7, <2>8, <2>9, <2>10, <2>11 DEF Next
  <1>4. QED
    BY <1>3, SessionInvariant, PTL DEF Spec, OnlyButtonsGrant, Granting
=============================================================================
