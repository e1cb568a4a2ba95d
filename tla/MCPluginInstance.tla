-------------------------- MODULE MCPluginInstance --------------------------
(* Instances of PluginInstance for TLC: meta flags, bounds and symmetry.   *)
EXTENDS PluginInstance, TLC

\* A plugin with a database and a web app, and one with neither.
BothOrNone == {[database |-> TRUE, webapp |-> TRUE],
               [database |-> FALSE, webapp |-> FALSE]}

\* A plugin with a web app only.
WebappOnly == {[database |-> FALSE, webapp |-> TRUE]}

\* Clients, plugins, config strings and tasks are interchangeable.
Interchangeable == Permutations(Users) \cup Permutations(Types)
                   \cup Permutations(Configs) \cup Permutations(Tasks)

\* Bounds on what has failed in a state that is explored further: two faulty
\* attempts, or a row behind the columns, or one lapse of load(); and, where
\* calls overlap, one lapse beside any other failure.
TwoFaults ==
    Cardinality(faulty) + 2 * Cardinality(lapses)
        + (IF unsaved THEN 2 ELSE 0) <= 2

OneLapse == Cardinality(lapses) <= 1

\* What the steps of overlapping calls depend on: no guard reads what was
\* registered, opened, routed, built, faulty or unsaved.
Control == <<col, row, links, runtime, attempts, server, frame>>
=============================================================================
