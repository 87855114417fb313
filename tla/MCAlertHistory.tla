--------------------------- MODULE MCAlertHistory ---------------------------
\* The instances of MCAlert, with the history.
EXTENDS AlertHistory, MCAlert
=============================================================================
