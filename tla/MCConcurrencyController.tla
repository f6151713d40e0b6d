---------------------- MODULE MCConcurrencyController ----------------------
EXTENDS ConcurrencyController

CONSTANTS c1, c2, c3, c4, e1,   \* chat callers and an embeddings caller
          mA, mB                \* model keys
=============================================================================
