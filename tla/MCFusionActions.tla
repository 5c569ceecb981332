--------------------------- MODULE MCFusionActions ---------------------------
EXTENDS FusionActions

\* One action on one document.
OneAction == {[actions |-> 1, archives |-> 0, opens |-> 0, fails |-> 0]}
=============================================================================
