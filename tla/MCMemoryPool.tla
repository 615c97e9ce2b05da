---------------------------- MODULE MCMemoryPool ----------------------------
EXTENDS MemoryPool

\* One page-sized buffer per page of a 16 MiB pool: the only page-sized
\* buffers initialise accepts (bufferSize <= poolSize), next to a typical
\* request it refuses.
MCPageArgs == {[pool |-> 4096, buf |-> 4096], [pool |-> 16, buf |-> 1024]}

\* A 4-page pool cut into 4-byte buffers: accepted by line 40.
MCSmallArgs == {[pool |-> 4, buf |-> 4]}
=============================================================================
