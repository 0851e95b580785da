---- MODULE MCBlockDisk ----
EXTENDS BlockDisk
MCSegs == {<<1>>, <<2, 1>>}
====
