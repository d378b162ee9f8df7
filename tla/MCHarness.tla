------------------------------- MODULE MCHarness -------------------------------
EXTENDS HarnessProperties
================================================================================
