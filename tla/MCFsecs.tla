------------------------------ MODULE MCFsecs ------------------------------
EXTENDS FsecsInv

MCSettings ==
  [kbest |-> {1, 2}, maxsamples |-> {1, 4}, epsilon |-> {1}, compensate |-> {0, 1},
   clear_cache |-> {0, 1}, cache_bytes |-> {4, 8}, cache_block |-> {4}]

MCDefaults ==
  [kbest |-> 2, maxsamples |-> 4, epsilon |-> 1, compensate |-> 0,
   clear_cache |-> 0, cache_bytes |-> 4, cache_block |-> 4]

MCFsecsParams == [MCDefaults EXCEPT !.compensate = 1, !.clear_cache = 1]
=============================================================================
