----------------------------- MODULE MCKamaPool -----------------------------
EXTENDS KamaPool
=============================================================================
