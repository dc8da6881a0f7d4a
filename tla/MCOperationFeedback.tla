------------------------- MODULE MCOperationFeedback -------------------------
EXTENDS OperationFeedback
=============================================================================
