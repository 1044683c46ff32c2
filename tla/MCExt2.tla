------------------------------- MODULE MCExt2 -------------------------------
EXTENDS Ext2
=============================================================================
