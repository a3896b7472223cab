----------------------------- MODULE LightControl -----------------------------
(***************************************************************************)
(* The dashboard's control of one light: the useLight hook of App.tsx.     *)
(*                                                                         *)
(* A click or a drag shows at once (the overrides) and is sent to Home     *)
(* Assistant; the light's own state comes back later.  While a slider is   *)
(* dragged, sends are spaced by a timer, one is under way at a time and    *)
(* only the latest value waits.  The browser runs one handler after the    *)
(* other, so an action is one handler together with the effects that       *)
(* follow it.                                                              *)
(***************************************************************************)
EXTENDS Integers, Sequences, SequencesExt

CONSTANTS
    Pcts,  \* slider positions
    Full,  \* what a light without a brightness counts as (100)
    Nil,   \* nothing
    MaxVisits, MaxActs, MaxLightTroubles  \* bounds

ASSUME LightControlAssumption ==
    /\ Full \in Pcts /\ Nil \notin Pcts /\ Nil \notin BOOLEAN
    /\ MaxVisits \in Nat \ {0} /\ MaxActs \in Nat /\ MaxLightTroubles \in Nat

VARIABLES
    light,      \* the light in Home Assistant
    calls,      \* service calls Home Assistant is working on
    arriving,   \* what it has sent to the browser, in order
    pushed,     \* hass.states: the light as last pushed
    onOverride, pctOverride,  \* what is shown instead, or Nil
    token,      \* the newest command of this visit
    send,       \* per visit of the tab: is a brightness under way, which one waits, which one is held
    visit, mounted,
    commands, acts, lightTroubles, \* how many commands, acts of the user and troubles there were
    wanted, disturbed, stranded  \* ghosts, see below

lightVars == <<light, calls, arriving, pushed, onOverride, pctOverride, token, send, visit,
               mounted, commands, acts, lightTroubles, wanted, disturbed, stranded>>
overrides == <<onOverride, pctOverride>>
ghosts == <<wanted, disturbed, stranded>>

Visits == 1..MaxVisits
States == [on : BOOLEAN, pct : Pcts]
Calls == [id : 1..(2 * MaxActs), visit : Visits, kind : {"on", "off", "pct"}, pct : Pcts \cup {Nil}]
Arrivals == [kind : {"push"}, state : States] \cup [kind : {"answer"}, call : Calls, ok : BOOLEAN]
Senders == [sending : BOOLEAN, queued : Pcts \cup {Nil}, pending : Pcts \cup {Nil}]

LightTypeOK ==
    /\ light \in States /\ pushed \in States
    /\ calls \subseteq Calls
    /\ arriving \in Seq(Arrivals)
    /\ onOverride \in BOOLEAN \cup {Nil} /\ pctOverride \in Pcts \cup {Nil}
    /\ token \in 0..commands
    /\ send \in [Visits -> Senders]
    /\ visit \in Visits /\ mounted \in BOOLEAN
    /\ commands \in 0..(2 * MaxActs) /\ acts \in 0..MaxActs /\ lightTroubles \in 0..MaxLightTroubles
    /\ wanted \in Pcts \cup {Nil}
    /\ disturbed \in BOOLEAN /\ stranded \in BOOLEAN

LightInit ==
    /\ light \in States /\ pushed = light
    /\ calls = {} /\ arriving = <<>>
    /\ onOverride = Nil /\ pctOverride = Nil /\ token = 0
    /\ send = [v \in Visits |-> [sending |-> FALSE, queued |-> Nil, pending |-> Nil]]
    /\ visit = 1 /\ mounted = TRUE
    /\ commands = 0 /\ acts = 0 /\ lightTroubles = 0
    /\ wanted = Nil /\ disturbed = FALSE /\ stranded = FALSE

-----------------------------------------------------------------------------
(* What is shown. *)

\* A light that is off has no brightness, which counts as 100.
RealPct(state) == IF state.on THEN state.pct ELSE Full

On == IF onOverride = Nil THEN pushed.on ELSE onOverride

\* The two effects: an override goes once the light's own state is the same.
Override(on, pct, state) ==
    /\ onOverride' = IF on # state.on THEN on ELSE Nil
    /\ pctOverride' = IF pct # RealPct(state) THEN pct ELSE Nil

NoOverride == onOverride' = Nil /\ pctOverride' = Nil

-----------------------------------------------------------------------------
(* Commands.  Each has a number, the token, by which a failure knows       *)
(* whether a newer one has come after it.                                  *)

Issue(v, kind, pct) ==
    calls' = calls \cup {[id |-> commands + 1, visit |-> v, kind |-> kind, pct |-> pct]}

Stamp(v) ==
    /\ commands' = commands + 1
    /\ token' = IF v = visit THEN commands + 1 ELSE token

\* Mutant: every value is sent at once.
SendPctAtOnce(v, p, s) ==
    /\ Stamp(v)
    /\ send' = [send EXCEPT ![v] = [s EXCEPT !.sending = TRUE]]
    /\ Issue(v, "pct", p)

\* sendPct of visit v, whose sender is now s: at most one brightness is under way.
SendPct(v, p, s) ==
    /\ Stamp(v)
    /\ IF s.sending
       THEN send' = [send EXCEPT ![v] = [s EXCEPT !.queued = p]] /\ UNCHANGED calls
       ELSE /\ send' = [send EXCEPT ![v] = [s EXCEPT !.sending = TRUE]]
            /\ Issue(v, "pct", p)

\* Another visit of the tab has a brightness under way.
Overlap(v) == \E w \in Visits \ {v} : send[w].sending

Toggle ==
    /\ mounted /\ acts < MaxActs
    /\ acts' = acts + 1
    /\ Stamp(visit)
    /\ Issue(visit, IF On THEN "off" ELSE "on", Nil)
    /\ Override(~On, pctOverride, pushed)
    /\ UNCHANGED <<light, arriving, pushed, send, visit, mounted, lightTroubles, ghosts>>

\* slide: the value is sent at once, or held until the timer of the last send runs out.
Slide(p) ==
    /\ mounted /\ acts < MaxActs
    /\ acts' = acts + 1
    /\ wanted' = p
    /\ stranded' = FALSE
    /\ \/ /\ SendPct(visit, p, [send[visit] EXCEPT !.pending = Nil])
          /\ Override(TRUE, p, pushed)
          /\ disturbed' = Overlap(visit)
       \/ /\ send' = [send EXCEPT ![visit].pending = p]
          /\ Override(onOverride, p, pushed)
          /\ disturbed' = FALSE
          /\ UNCHANGED <<calls, token, commands>>
    /\ UNCHANGED <<light, arriving, pushed, visit, mounted, lightTroubles>>

TimerSends ==
    /\ mounted /\ send[visit].pending # Nil
    /\ SendPct(visit, send[visit].pending, [send[visit] EXCEPT !.pending = Nil])
    /\ Override(TRUE, send[visit].pending, pushed)
    /\ disturbed' = (disturbed \/ Overlap(visit))
    /\ UNCHANGED <<light, arriving, pushed, visit, mounted, acts, lightTroubles, wanted, stranded>>

\* Mutant: flushes whether or not a value was held back.
LeaveSendsAlways ==
    /\ mounted /\ mounted' = FALSE
    /\ SendPct(visit, send[visit].pending, [send[visit] EXCEPT !.pending = Nil])
    /\ NoOverride
    /\ UNCHANGED <<light, arriving, pushed, visit, acts, lightTroubles, wanted, disturbed, stranded>>

\* The tab is left (flush): what the timer held back is sent.
Leave ==
    /\ mounted /\ mounted' = FALSE
    /\ IF send[visit].pending = Nil
       THEN UNCHANGED <<calls, token, send, commands, disturbed>>
       ELSE /\ SendPct(visit, send[visit].pending, [send[visit] EXCEPT !.pending = Nil])
            /\ disturbed' = (disturbed \/ Overlap(visit))
    /\ NoOverride
    /\ UNCHANGED <<light, arriving, pushed, visit, acts, lightTroubles, wanted, stranded>>

\* It is opened again, with a hook of its own; calls of the last visit may still be under way.
Return ==
    /\ ~mounted /\ visit < MaxVisits
    /\ visit' = visit + 1 /\ mounted' = TRUE /\ token' = 0
    /\ stranded' = FALSE
    /\ UNCHANGED <<light, calls, arriving, pushed, overrides, send, commands, acts, lightTroubles,
                   wanted, disturbed>>

-----------------------------------------------------------------------------
(* Home Assistant: calls run side by side and end in any order. *)

\* The light changes, and the change is pushed.
Changes(state, more) ==
    /\ light' = state
    /\ arriving' = arriving \o (IF state = light THEN <<>> ELSE <<[kind |-> "push", state |-> state]>>) \o more

Answer(c, ok) == <<[kind |-> "answer", call |-> c, ok |-> ok]>>

Lands(c) ==
    /\ calls' = calls \ {c}
    /\ Changes(IF c.kind = "pct" THEN [on |-> TRUE, pct |-> c.pct] ELSE [light EXCEPT !.on = c.kind = "on"],
               Answer(c, TRUE))
    /\ UNCHANGED <<pushed, overrides, token, send, visit, mounted, commands, acts, lightTroubles, ghosts>>

Fails(c) ==
    /\ lightTroubles < MaxLightTroubles /\ lightTroubles' = lightTroubles + 1
    /\ calls' = calls \ {c}
    /\ arriving' = arriving \o Answer(c, FALSE)
    /\ disturbed' = (disturbed \/ c.kind = "pct")
    /\ UNCHANGED <<light, pushed, overrides, token, send, visit, mounted, commands, acts, wanted, stranded>>

\* Somebody else switches or dims the light.
Others ==
    /\ lightTroubles < MaxLightTroubles /\ lightTroubles' = lightTroubles + 1
    /\ \E state \in States \ {light} : Changes(state, <<>>)
    /\ disturbed' = TRUE
    /\ UNCHANGED <<calls, pushed, overrides, token, send, visit, mounted, commands, acts, wanted, stranded>>

-----------------------------------------------------------------------------
(* What arrives in the browser. *)

Push ==
    /\ arriving # <<>> /\ Head(arriving).kind = "push"
    /\ arriving' = Tail(arriving)
    /\ pushed' = Head(arriving).state
    /\ Override(onOverride, pctOverride, Head(arriving).state)
    /\ UNCHANGED <<light, calls, token, send, visit, mounted, commands, acts, lightTroubles, ghosts>>

\* Mutant: compares with the counter as it was before the command (token.current++).
NewestBefore(c) == mounted /\ c.visit = visit /\ c.id = token + 1

\* Still the newest command of the hook that is on screen.
Newest(c) == mounted /\ c.visit = visit /\ c.id = token

\* A switch was answered; a failure takes its override back.
Switched ==
    /\ arriving # <<>> /\ Head(arriving).kind = "answer" /\ Head(arriving).call.kind # "pct"
    /\ arriving' = Tail(arriving)
    /\ onOverride' = IF ~Head(arriving).ok /\ Newest(Head(arriving).call) THEN Nil ELSE onOverride
    /\ UNCHANGED <<light, calls, pushed, pctOverride, token, send, visit, mounted, commands, acts,
                   lightTroubles, ghosts>>

\* A brightness was answered: a failure takes the overrides back, and what waits is sent.
Dimmed ==
    /\ arriving # <<>> /\ Head(arriving).kind = "answer" /\ Head(arriving).call.kind = "pct"
    /\ arriving' = Tail(arriving)
    /\ UNCHANGED <<light, pushed, visit, mounted, acts, lightTroubles, wanted>>
    /\ LET c == Head(arriving).call
           s == send[c.visit]
           failed == ~Head(arriving).ok
       IN  IF s.queued # Nil
           THEN /\ SendPct(c.visit, s.queued, [s EXCEPT !.sending = FALSE, !.queued = Nil])
                /\ IF mounted /\ c.visit = visit THEN Override(TRUE, s.queued, pushed) ELSE UNCHANGED overrides
                /\ disturbed' = (disturbed \/ Overlap(c.visit))
                /\ UNCHANGED stranded
           ELSE /\ send' = [send EXCEPT ![c.visit].sending = FALSE]
                /\ IF failed /\ Newest(c) THEN NoOverride ELSE UNCHANGED overrides
                /\ stranded' = (stranded \/ (failed /\ c.visit = visit /\ ~Newest(c)))
                /\ UNCHANGED <<calls, token, commands, disturbed>>

LightNext ==
    \/ Toggle \/ TimerSends \/ Leave \/ Return
    \/ \E p \in Pcts : Slide(p)
    \/ \E c \in calls : Lands(c) \/ Fails(c)
    \/ Others
    \/ Push \/ Switched \/ Dimmed

LightSpec == LightInit /\ [][LightNext]_lightVars

-----------------------------------------------------------------------------
(* Properties. *)

\* Nothing is under way and nothing is held back.
AtRest == calls = {} /\ arriving = <<>> /\ (mounted => send[visit].pending = Nil)

\* The light ends where the slider was left, in whatever order calls land; but for a brightness
\* that failed, a change by others, and two visits with a brightness under way at once (disturbed).
DragLands == AtRest /\ ~disturbed /\ wanted # Nil => light.pct = wanted

\* What is shown is the light once all is quiet, but for a brightness that failed after a newer
\* switch (stranded): its failure rolls nothing back.
OverridesSettle == AtRest /\ mounted /\ ~stranded => onOverride = Nil /\ pctOverride = Nil
=============================================================================
