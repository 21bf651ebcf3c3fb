--------------------------- MODULE MCDeliberation ---------------------------
EXTENDS Deliberation

MCFanouts == {<<FALSE>>, <<FALSE, FALSE>>}
=============================================================================
