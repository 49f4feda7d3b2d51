------------------------ MODULE MCConcurrentRenderer ------------------------
EXTENDS ConcurrentRendererInv
=============================================================================
