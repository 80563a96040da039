------------------------------ MODULE MCOpener ------------------------------
EXTENDS Opener
=============================================================================
