---------------------------- MODULE MCRetention -----------------------------
EXTENDS Retention
=============================================================================
