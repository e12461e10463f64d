------------------------------ MODULE MCWorker ------------------------------
EXTENDS Worker
=============================================================================
