--------------------------- MODULE MCIranClassify ---------------------------
EXTENDS IranClassify
=============================================================================
