-------------------------------- MODULE MCLats --------------------------------
(* Small instances of Lats for TLC.                                        *)
EXTENDS Lats

CONSTANTS a, b, c

TwoActions == <<a, b>>
ThreeActions == <<a, b, c>>

AllCalls == {"run", "run_async", "publish", "discard_all", "save", "crash"}

Mode(calls, fails) ==
  [calls |-> calls, fails |-> fails, again |-> FALSE, waits |-> TRUE, tears |-> FALSE]

\* A caller of run and run_async who runs on unless a node is without its branch or
\* the search ended, and a caller of run_async alone who always does.
Careful == {Mode(AllCalls, {"execute", "build", "evaluate", "cancel"}),
            [Mode(AllCalls \ {"run"}, {"execute", "build", "cancel"}) EXCEPT !.again = TRUE]}

\* Tools that raise under run.
Failing == {[Mode(AllCalls, {"execute"}) EXCEPT !.again = TRUE]}

\* A caller who does not wait for the tasks an exception left behind.
Hasty == {[Mode(AllCalls \ {"run", "crash", "save"}, {"execute"})
            EXCEPT !.waits = FALSE, !.again = TRUE]}

\* A process that may die inside a save.
Torn == {[Mode(AllCalls, {}) EXCEPT !.tears = TRUE]}

\* A save while a wave is being built.
MidWave == {[Mode(AllCalls \ {"run"}, {}) EXCEPT !.waits = FALSE]}

\* All of these callers.
Careless == Failing \cup Hasty \cup Torn \cup MidWave
=============================================================================
