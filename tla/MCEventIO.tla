------------------------------ MODULE MCEventIO ------------------------------
EXTENDS EventIO
=============================================================================
