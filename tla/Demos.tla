------------------------------- MODULE Demos -------------------------------
(***************************************************************************)
(* The two interactive pages of the website. week3-demo.js loads five       *)
(* fixtures at once, verifies them, partly in awaited digests, and only     *)
(* then may show findings, while its handlers are attached from the start.  *)
(* charter-walkthrough.js steps through scenes by hand and by an interval.  *)
(***************************************************************************)
EXTENDS Naturals, Sequences, FiniteSets

CONSTANTS
  Findings,  \* how many findings report.jsonl has
  Scenes,    \* the scenes of the walkthrough, a sequence: has it two sides?
  Plays      \* bound: how often autoplay is started

Fixtures == {"meta", "aggregate", "manifest", "report", "fail-closed"}
Pinned   == <<"aggregate", "report", "manifest">>   \* in the order of the digests

VARIABLES
  fault,  \* what is wrong with the fixtures, and with which
  week3,  \* the demo of week 3
  walk,   \* the walkthrough
  plays   \* how often autoplay was started

vars == <<fault, week3, walk, plays>>

----------------------------------------------------------------------------
(* week3-demo.js                                                            *)

\* "http": a fetch that fails; "form": a size, a syntax, a failure code or a count that
\* is off; "pin": a body that is not the pinned one, which a context without
\* crypto.subtle does not see.
Faults == {[kind |-> "none", of |-> "meta", subtle |-> s] : s \in BOOLEAN} \union
          [kind : {"http", "form", "pin"}, of : Fixtures, subtle : BOOLEAN]

MountWeek3 == [phase |-> "loading", arrived |-> {}, digested |-> 0, mode |-> "happy",
               findings |-> 0, selected |-> 0, shown |-> "nothing"]

Failed(w) == [w EXCEPT !.phase = "error", !.shown = "error"]

\* setTogglesEnabled
EnabledAlways(w) == TRUE    \* seeded fault: the toggles are never disabled
Enabled(w) == w.phase = "ready"

\* applyMode, renderHappy, renderFail
Rendered(w, mode) ==
  [w EXCEPT !.mode = mode,
            !.shown = IF mode = "fail" THEN "failure" ELSE IF w.findings > 0 THEN "findings" ELSE @]

\* One fetch of the Promise.all; what arrives after a failure is not used.
Fetched(f) ==
  /\ f \notin week3.arrived
  /\ week3' = IF week3.phase = "loading" /\ fault.kind = "http" /\ fault.of = f
              THEN Failed([week3 EXCEPT !.arrived = @ \union {f}])
              ELSE [week3 EXCEPT !.arrived = @ \union {f}]
  /\ UNCHANGED <<fault, walk, plays>>

\* From the bodies to the counts: the findings are assigned before the checks end.
Parse ==
  /\ week3.phase = "loading" /\ week3.arrived = Fixtures
  /\ LET parsed == [week3 EXCEPT !.phase = "digesting", !.findings = Findings] IN
     week3' = IF fault.kind = "form" THEN Failed(parsed) ELSE parsed
  /\ UNCHANGED <<fault, walk, plays>>

\* Each digest is awaited; then the page is ready.
Digest ==
  /\ week3.phase = "digesting"
  /\ week3' = IF ~fault.subtle \/ week3.digested = Len(Pinned)
              THEN Rendered([week3 EXCEPT !.phase = "ready"], week3.mode)
              ELSE IF fault.kind = "pin" /\ fault.of = Pinned[week3.digested + 1]
              THEN Failed(week3)
              ELSE [week3 EXCEPT !.digested = @ + 1]
  /\ UNCHANGED <<fault, walk, plays>>

\* The two toggles, the buttons of the list and the arrow keys in it. A page that shows
\* no findings has no button a key or a click could reach.
Toggle(mode) ==
  /\ Enabled(week3)
  /\ week3' = Rendered(week3, mode)
  /\ UNCHANGED <<fault, walk, plays>>

Select(i) ==
  /\ week3.shown = "findings"
  /\ week3' = Rendered([week3 EXCEPT !.selected = i], "happy")
  /\ UNCHANGED <<fault, walk, plays>>

Arrow(step) ==
  /\ week3.shown = "findings" /\ week3.mode = "happy"
  /\ week3' = Rendered([week3 EXCEPT
       !.selected = IF step = "down" THEN (IF @ + 1 < week3.findings THEN @ + 1 ELSE @)
                    ELSE (IF @ > 0 THEN @ - 1 ELSE 0)], "happy")
  /\ UNCHANGED <<fault, walk, plays>>

----------------------------------------------------------------------------
(* charter-walkthrough.js: live counts the intervals that run, handle says  *)
(* whether the page still holds one.                                        *)

MountWalk == [index |-> 1, side |-> [i \in DOMAIN Scenes |-> 0], handle |-> FALSE, live |-> 0]

StopAuto(w) == IF w.handle THEN [w EXCEPT !.handle = FALSE, !.live = @ - 1] ELSE w

StartAuto(w) == [w EXCEPT !.handle = TRUE, !.live = @ + 1]

\* The button: it stops what runs.
PlayAgain(w) == StartAuto(w)    \* seeded fault: it starts another interval
Play(w) == IF w.handle THEN StopAuto(w) ELSE StartAuto(w)

Press ==
  /\ plays < Plays /\ plays' = plays + 1
  /\ walk' = Play(walk)
  /\ UNCHANGED <<fault, week3>>

\* The interval's callback
Tick ==
  /\ walk.live > 0
  /\ walk' = IF walk.index = Len(Scenes) THEN StopAuto(walk) ELSE [walk EXCEPT !.index = @ + 1]
  /\ UNCHANGED <<fault, week3, plays>>

\* go, of a node, a button or an arrow key: past either end it does nothing at all.
Go(next) ==
  /\ next \in DOMAIN Scenes
  /\ walk' = [StopAuto(walk) EXCEPT !.index = next]
  /\ UNCHANGED <<fault, week3, plays>>

Side(s) ==
  /\ Scenes[walk.index]
  /\ walk' = [StopAuto(walk) EXCEPT !.side[walk.index] = s]
  /\ UNCHANGED <<fault, week3, plays>>

----------------------------------------------------------------------------

Init ==
  /\ fault \in Faults
  /\ week3 = MountWeek3 /\ walk = MountWalk /\ plays = 0

\* The pages share nothing: the walkthrough is walked before the fixtures arrive.
Next ==
  \/ \E f \in Fixtures : Fetched(f)
  \/ Parse \/ Digest
  \/ \E mode \in {"happy", "fail"} : Toggle(mode)
  \/ \E i \in 0..(Findings - 1) : Select(i)
  \/ \E step \in {"up", "down"} : Arrow(step)
  \/ week3.arrived = {} /\ Press
  \/ week3.arrived = {} /\ Tick
  \/ \E next \in DOMAIN Scenes : week3.arrived = {} /\ Go(next)
  \/ \E s \in {0, 1} : week3.arrived = {} /\ Side(s)

Spec == Init /\ [][Next]_vars

----------------------------------------------------------------------------
(* Properties.                                                              *)

\* Nothing of a fixture is shown before every fixture arrived and passed every check the
\* browser can make, whatever is clicked or pressed in the meantime, and the selected
\* finding exists (week3-demo.js: setTogglesEnabled, applyMode, the keydown listener).
ShownIsVerified ==
  week3.shown \in {"findings", "failure"} =>
    /\ week3.arrived = Fixtures /\ week3.selected < week3.findings
    /\ \/ fault.kind = "none"
       \/ fault.kind = "pin" /\ (~fault.subtle \/ fault.of \in {"meta", "fail-closed"})
    /\ week3.shown = (IF week3.mode = "fail" THEN "failure" ELSE "findings")

\* No interval outlives its handle: whatever is pressed, at most one runs, and the page
\* can stop it (charter-walkthrough.js: startAuto, stopAuto, go).
OneInterval == walk.live = (IF walk.handle THEN 1 ELSE 0)
=============================================================================
