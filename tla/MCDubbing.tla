----------------------------- MODULE MCDubbing -----------------------------
EXTENDS Dubbing
=============================================================================
