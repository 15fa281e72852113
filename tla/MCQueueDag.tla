------------------------------ MODULE MCQueueDag ------------------------------
EXTENDS QueueDag

CONSTANTS a, b, empty
=============================================================================
