------------------------------- MODULE MCRing -------------------------------
EXTENDS AfpacketRing
=============================================================================
