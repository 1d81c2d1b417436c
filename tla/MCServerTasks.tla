--------------------------- MODULE MCServerTasks ----------------------------
EXTENDS ServerTasks
=============================================================================
