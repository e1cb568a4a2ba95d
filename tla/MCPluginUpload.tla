--------------------------- MODULE MCPluginUpload ---------------------------
(* Instances of PluginUpload for TLC: the files that may be uploaded.      *)
EXTENDS PluginUpload

File(v, k, b) == [version |-> v, kind |-> k, build |-> b]

\* One file for each version: two good ones, and one that fails in each of
\* the two ways the loader expects.
OneBuildEach == {File(1, "good", 1), File(2, "good", 1),
                 File(3, "nomodule", 1), File(4, "broken", 1)}

\* A version 1, and a version 2 that does anything.
AllKinds == {File(1, "good", 1), File(2, "good", 1), File(2, "nomodule", 1),
             File(2, "broken", 1), File(2, "unparsable", 1)}
=============================================================================
