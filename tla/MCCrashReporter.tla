--------------------------- MODULE MCCrashReporter ---------------------------
\* Instances are interchangeable: nothing the crash reporter does tells them apart.
EXTENDS CrashReporter, TLC

Symmetry == Permutations(Instances)

\* Bound: the answer changes at most once in a life.
OneAnswer == consent' # consent => life \notin flipped

\* Bound: plugin code runs on one thread at a time once the neighbour has ended.
Calm == ended[0] # "no" => Cardinality({t \in Threads : thread[t] # Idle}) <= 1
=============================================================================
